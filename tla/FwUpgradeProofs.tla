---------------------------- MODULE FwUpgradeProofs ----------------------------
(***************************************************************************)
(* Proofs about FwUpgrade for every image, header and block size, every    *)
(* number of resets, with and without slow commands and lost writes.       *)
(***************************************************************************)
EXTENDS FwUpgrade, TLAPS

Statuses == {"ok", "fail", "pwd", "busy", "exc"}

-------------------------------------------------------------------------------
(* Lemmas about the module's replies. *)

(* A command turns a module state into a module state, Endings includes it.  *)
LEMMA EndingsType ==
    ASSUME NEW m \in ModuleState, NEW c \in Command, NEW n \in Endings(m, c)
    PROVE  n \in ModuleState /\ n.task = NoTask /\ n.st \in {"ok", "fail", "pwd"}
<1>0. NoTask \in Command
  BY DEF NoTask, Cmd, Command
<1>1. Other(m.running) \in Banks
  BY DEF Other, Banks, ModuleState
<1>2. Extended(m, c) \in Nat
  BY DEF Extended, ModuleState, Command
<1>3. Effect(m, c) \in ModuleState
  BY <1>1, <1>2 DEF Effect, ModuleState, Banks
<1>4. CASE n = Executed(m, c)
  BY <1>0, <1>3, <1>4 DEF Executed, ModuleState
<1>5. CASE n \in Refusals(m)
  BY <1>0, <1>5 DEF Refusals, ModuleState
<1> QED
  BY <1>4, <1>5 DEF Endings

(* What the host can be told about a command it sent. *)
LEMMA RepliesType ==
    ASSUME mod \in ModuleState, NEW c \in Command, c.op \in Ops, NEW r \in Replies(c)
    PROVE  r.mod \in ModuleState /\ r.ret \in Statuses /\ r.did \in SUBSET Ops
<1>1. CASE mod.task = NoTask
  <2>1. CASE Accepts(mod, c) /\ r = Answer(Executed(mod, c), "ok", {c.op})
    <3>1. Executed(mod, c) \in Endings(mod, c)
      BY <2>1 DEF Endings
    <3> QED
      BY <2>1, <3>1, EndingsType DEF Answer, Statuses
  <2>2. CASE \E n \in Refusals(mod) : r = Answer(n, n.st, {})
    <3>1. PICK n \in Refusals(mod) : r = Answer(n, n.st, {})
      BY <2>2
    <3>2. n \in Endings(mod, c)
      BY DEF Endings
    <3> QED
      BY <3>1, <3>2, EndingsType DEF Answer, Statuses
  <2>3. CASE \E s \in {"busy", "exc"} : r = Answer([mod EXCEPT !.task = c], s, {})
    BY <2>3 DEF Answer, Statuses, ModuleState
  <2>4. CASE r = Answer(mod, mod.st, {})
    BY <2>4 DEF Answer, Statuses, ModuleState
  <2> QED
    BY <1>1, <2>1, <2>2, <2>3, <2>4 DEF Replies, IdleReplies
<1>2. CASE mod.task # NoTask
  <2>0. mod.task \in Command
    BY DEF ModuleState
  <2>1. CASE \E s \in {"busy", "exc"} : r = Answer(mod, s, {})
    BY <2>1 DEF Answer, Statuses
  <2>2. CASE \E n \in Endings(mod, mod.task) : r = Answer(n, n.st, {})
    BY <2>0, <2>2, EndingsType DEF Answer, Statuses
  <2> QED
    BY <1>2, <2>1, <2>2 DEF Replies, BusyReplies
<1> QED
  BY <1>1, <1>2

(* Every named command is a command. *)
LEMMA CmdType == ASSUME NEW op \in Ops PROVE Cmd(op) \in Command /\ Cmd(op).op \in Ops
BY DEF Cmd, Command

(* Reading the versions leaves a module state. *)
LEMMA InfoType ==
    ASSUME mod \in ModuleState, InfoSeen \/ InfoFailed
    PROVE  mod' \in ModuleState
<1>0. "info" \in Ops
  BY DEF Ops
<1>1. Cmd("info") \in Command /\ mod.task \in Command
  BY <1>0, CmdType DEF ModuleState
<1>2. CASE InfoSeen
  <2>1. Executed(mod, Cmd("info")) \in Endings(mod, Cmd("info"))
    BY DEF Endings, Accepts, Cmd
  <2> QED
    BY <1>1, <1>2, <2>1, EndingsType DEF InfoSeen
<1>3. CASE mod.task = NoTask /\ mod' \in Refusals(mod) \cup {mod}
  <2>1. Refusals(mod) \subseteq Endings(mod, Cmd("info"))
    BY DEF Endings
  <2> QED
    BY <1>1, <1>3, <2>1, EndingsType
<1>4. CASE mod' = [mod EXCEPT !.task = Cmd("info")]
  BY <1>1, <1>4 DEF ModuleState
<1>5. CASE mod' \in {mod} \cup Endings(mod, mod.task)
  BY <1>1, <1>5, EndingsType
<1> QED
  BY <1>2, <1>3, <1>4, <1>5 DEF InfoFailed

-------------------------------------------------------------------------------
(* Type correctness. *)

(* The part of TypeOK that a command and its reply change. *)
LEMMA ReceiveType ==
    ASSUME TypeOK, NEW c \in Command, c.op \in Ops, NEW r \in Replies(c), Receive(c, r)
    PROVE  mod' \in ModuleState /\ sent' \in SUBSET Ops /\ done' \in SUBSET Ops
           /\ r.ret \in Statuses
BY RepliesType DEF TypeOK, Receive

(* Entering the loop of the download starts its accounts. *)
LEMMA EnterLoopType ==
    ASSUME EnterLoop
    PROVE  addr' \in Nat /\ remaining' \in Int /\ pc' \in HostStates /\ ret' = ret
           /\ BlocksCoverImage'
BY SizesAssumption DEF EnterLoop, Goto, Total, HostStates, BlocksCoverImage

(* One block more: the accounts stay balanced, and the loop ends at zero. *)
LEMMA BlockType ==
    ASSUME TypeOK, BlocksCoverImage, Block
    PROVE  TypeOK' /\ BlocksCoverImage'
<1> DEFINE n == Count(remaining)
           c == [op |-> "block", at |-> addr, len |-> n]
<1>1. remaining \in Int /\ addr \in Nat /\ remaining > 0 /\ addr + remaining = Total
      /\ Total \in Int
  BY SizesAssumption DEF TypeOK, BlocksCoverImage, Block, Total
<1>2. n \in Nat /\ n <= remaining
  BY <1>1, SizesAssumption DEF Count
<1>3. c \in Command /\ c.op = "block" /\ "block" \in Ops
  BY <1>1, <1>2 DEF Command, Ops
<1>4. PICK r \in Replies(c) :
         /\ Receive(c, r)
         /\ \/ /\ r.ret = "ok"
               /\ addr' = addr + n
               /\ remaining' = remaining - n
               /\ Goto(IF remaining' > 0 THEN "block" ELSE "complete")
            \/ r.ret \in Failures /\ Goto("abort") /\ Stay
            \/ r.ret = "exc" /\ Return("exc") /\ Stay
  BY DEF Block
<1>5. /\ mod' \in ModuleState /\ sent' \in SUBSET Ops /\ done' \in SUBSET Ops
      /\ UNCHANGED <<call, before, fresh, resets>>
  <2> HIDE DEF c
  <2> QED
    BY <1>3, <1>4, ReceiveType DEF Block
<1>6. CASE /\ addr' = addr + n /\ remaining' = remaining - n
           /\ Goto(IF remaining' > 0 THEN "block" ELSE "complete")
  <2> HIDE DEF n
  <2>1. addr' \in Nat /\ remaining' \in Int /\ addr' + remaining' = Total /\ remaining' >= 0
    BY <1>1, <1>2, <1>6
  <2> QED
    BY <1>1, <1>5, <1>6, <2>1 DEF TypeOK, BlocksCoverImage, Goto, HostStates, Total
<1>7. CASE (Goto("abort") \/ Return("exc")) /\ Stay
  BY <1>5, <1>7 DEF TypeOK, BlocksCoverImage, Goto, Return, Stay, HostStates
<1> QED
  BY <1>4, <1>6, <1>7

(* Every step of the host keeps the types and the accounts. *)
LEMMA HostStepType ==
    ASSUME TypeOK, BlocksCoverImage, HostStep
    PROVE  TypeOK' /\ BlocksCoverImage'
<1> USE DEF TypeOK, Local, Goto, Return, BlocksCoverImage, HostStates
<1>0. /\ {"feature", "start", "password", "abort", "complete", "run", "commit"} \subseteq Ops
      /\ \A o \in Ops : Cmd(o) \in Command /\ Cmd(o).op \in Ops
  BY CmdType DEF Ops
<1>1. CASE Info
  BY <1>1, InfoType DEF Info
<1>2. CASE Feature
  BY <1>0, <1>2, ReceiveType DEF Feature
<1>3. CASE NoFile
  BY <1>3 DEF NoFile, DownloadReturns
<1>4. CASE Start
  BY <1>0, <1>4, ReceiveType, EnterLoopType DEF Start, Stay
<1>5. ASSUME NEW from, NEW to \in {"restart", "rerun", "recommit"}, Password(from, to)
      PROVE  TypeOK' /\ BlocksCoverImage'
  BY <1>0, <1>5, ReceiveType DEF Password
<1>6. CASE Restart
  BY <1>0, <1>6, ReceiveType, EnterLoopType DEF Restart, Stay
<1>7. CASE Abort
  BY <1>0, <1>7, ReceiveType DEF Abort, DownloadReturns
<1>8. CASE Complete
  <2>1. Other(mod.running) \in Banks
    BY DEF Other, Banks
  <2> QED
    BY <1>0, <1>8, <2>1, ReceiveType DEF Complete, DownloadReturns
<1>9. CASE SwitchInfo
  BY <1>9, InfoType DEF SwitchInfo, ModuleState
<1>10. CASE Run
  BY <1>0, <1>10, ReceiveType DEF Run, RunReturns
<1>11. CASE Rerun
  BY <1>0, <1>11, ReceiveType DEF Rerun, RunReturns
<1>12. CASE Commit
  BY <1>0, <1>12, ReceiveType DEF Commit, CommitReturns
<1>13. CASE Recommit
  BY <1>0, <1>13, ReceiveType DEF Recommit, CommitReturns
<1>14. CASE SwitchCheck
  BY <1>14, InfoType DEF SwitchCheck
<1> QED
  BY <1>1, <1>2, <1>3, <1>4, <1>5, <1>6, <1>7, BlockType, <1>8, <1>9, <1>10, <1>11, <1>12,
     <1>13, <1>14 DEF HostStep

(* So does every step of the system. *)
LEMMA NextType ==
    ASSUME TypeOK, BlocksCoverImage, [Next]_vars
    PROVE  TypeOK' /\ BlocksCoverImage'
<1>1. ASSUME NEW f \in Calls, Enter(f)
      PROVE  TypeOK' /\ BlocksCoverImage'
  BY <1>1 DEF Enter, TypeOK, BlocksCoverImage, HostStates, Calls, Banks
<1>2. CASE HostStep
  BY <1>2, HostStepType
<1>3. CASE HostDies
  BY <1>3 DEF HostDies, Return, Local, TypeOK, BlocksCoverImage, HostStates
<1>4. CASE ModuleEnds
  <2>1. mod.task \in Command /\ mod' \in ModuleState
    BY <1>4, EndingsType DEF ModuleEnds, TypeOK, ModuleState
  <2> QED
    BY <1>4, <2>1 DEF ModuleEnds, Local, TypeOK, BlocksCoverImage
<1>5. CASE ModuleReset
  <2>1. mod' \in ModuleState
    BY <1>5 DEF ModuleReset, TypeOK, ModuleState, NoTask, Cmd, Command
  <2>2. resets' \in 0..MaxResets
    BY <1>5, EnvironmentAssumption DEF ModuleReset, TypeOK
  <2> QED
    BY <1>5, <2>1, <2>2 DEF ModuleReset, TypeOK, BlocksCoverImage
<1>6. CASE UNCHANGED vars
  BY <1>6 DEF vars, TypeOK, BlocksCoverImage
<1> QED
  BY <1>1, <1>2, <1>3, <1>4, <1>5, <1>6 DEF Next

(* Both hold initially. *)
LEMMA InitType == Init => TypeOK /\ BlocksCoverImage
<1> SUFFICES ASSUME Init PROVE TypeOK /\ BlocksCoverImage
  OBVIOUS
<1>1. mod \in ModuleState /\ before \in Banks
  BY DEF Init, ModuleState, NoTask, Cmd, Command
<1> QED
  BY <1>1, EnvironmentAssumption DEF Init, TypeOK, BlocksCoverImage, HostStates, Calls

(* The variables keep their types, whatever the module answers and however   *)
(* long the image is (the state of cmis.py:1841-2277).                       *)
THEOREM TypeCorrect == Spec => []TypeOK
<1>1. TypeOK /\ BlocksCoverImage /\ [Next]_vars => TypeOK' /\ BlocksCoverImage'
  BY NextType
<1> QED
  BY <1>1, InitType, PTL DEF Spec

(* When module_fw_download completes it has sent every byte after the header *)
(* exactly once (the loop of cmis.py:2154-2183).                             *)
THEOREM BlocksCover == Spec => []BlocksCoverImage
<1>1. TypeOK /\ BlocksCoverImage /\ [Next]_vars => TypeOK' /\ BlocksCoverImage'
  BY NextType
<1> QED
  BY <1>1, InitType, PTL DEF Spec

-------------------------------------------------------------------------------
(* The switch never starts an invalid image.                                 *)

(* While the switch is under way both images are valid, and the module is    *)
(* not busy with a start command, the only one that erases.                  *)
SwitchInv ==
    call \in {"upgrade", "switch"} /\ pc \in Switching =>
        mod.valid = Banks /\ mod.task.op # "start"

(* What no command but start undoes. *)
Kept(m) == m.valid = Banks /\ m.task.op # "start"

(* However a command that is not start ends, it leaves both images valid.    *)
LEMMA EndingsKeep ==
    ASSUME NEW m \in ModuleState, NEW c \in Command, Kept(m), c.op # "start",
           NEW n \in Endings(m, c)
    PROVE  Kept(n)
<1>1. Other(m.running) \in Banks
  BY DEF Other, Banks
<1>2. NoTask \in Command /\ NoTask.op # "start"
  BY DEF NoTask, Cmd, Command
<1>3. Effect(m, c).valid = Banks
  BY <1>1 DEF Effect, Kept, ModuleState
<1>4. CASE n = Executed(m, c)
  <2>1. Effect(m, c) \in ModuleState
    <3>1. Extended(m, c) \in Nat
      BY DEF Extended, ModuleState, Command
    <3> QED
      BY <1>1, <3>1 DEF Effect, ModuleState, Banks
  <2> QED
    BY <1>2, <1>3, <1>4, <2>1 DEF Executed, Kept, ModuleState
<1>5. CASE n \in Refusals(m)
  BY <1>2, <1>5 DEF Refusals, Kept, ModuleState
<1> QED
  BY <1>4, <1>5 DEF Endings

(* So does every reply to one, also when the module was busy with another.   *)
LEMMA RepliesKeep ==
    ASSUME mod \in ModuleState, Kept(mod), NEW c \in Command, c.op # "start",
           NEW r \in Replies(c)
    PROVE  Kept(r.mod)
<1>0. mod.task \in Command /\ mod.task.op # "start"
  BY DEF ModuleState, Kept
<1>1. CASE r.mod = mod
  BY <1>1
<1>2. CASE r.mod \in Endings(mod, c) \cup Endings(mod, mod.task)
  BY <1>0, <1>2, EndingsKeep
<1>3. CASE r.mod = [mod EXCEPT !.task = c]
  BY <1>3 DEF Kept, ModuleState
<1> QED
  BY <1>1, <1>2, <1>3 DEF Replies, IdleReplies, BusyReplies, Answer, Endings

(* And reading the versions. *)
LEMMA InfoKeeps ==
    ASSUME mod \in ModuleState, Kept(mod), InfoSeen \/ InfoFailed
    PROVE  Kept(mod')
<1>0. /\ mod.task \in Command /\ mod.task.op # "start"
      /\ Cmd("info") \in Command /\ Cmd("info").op # "start"
  BY DEF ModuleState, Kept, Cmd, Command, Ops
<1>1. CASE mod' = mod
  BY <1>1 DEF Kept
<1>2. CASE mod' \in Endings(mod, Cmd("info")) \cup Endings(mod, mod.task)
  BY <1>0, <1>2, EndingsKeep
<1>3. CASE mod' = [mod EXCEPT !.task = Cmd("info")]
  BY <1>0, <1>3 DEF Kept, ModuleState
<1> QED
  BY <1>1, <1>2, <1>3 DEF InfoSeen, InfoFailed, Endings, Accepts, Cmd

(* No step taken while the switch is under way costs an image.               *)
LEMMA SwitchingKeeps ==
    ASSUME TypeOK, SwitchInv, Next, call \in {"upgrade", "switch"}, pc \in Switching
    PROVE  Kept(mod')
<1>0. Kept(mod) /\ mod \in ModuleState /\ mod.task \in Command
  BY DEF SwitchInv, Kept, TypeOK, ModuleState
<1>1. /\ {"password", "run", "commit"} \subseteq Ops
      /\ \A o \in Ops : Cmd(o) \in Command /\ Cmd(o).op = o
  BY DEF Ops, Cmd, Command
<1>2. ASSUME NEW o \in {"password", "run", "commit"},
             \E r \in Replies(Cmd(o)) : Receive(Cmd(o), r)
      PROVE  Kept(mod')
  BY <1>0, <1>1, <1>2, RepliesKeep DEF Receive
<1>3. CASE HostStep
  <2>1. CASE Run
    BY <1>2, <2>1 DEF Run
  <2>2. CASE Rerun
    BY <1>2, <2>2 DEF Rerun
  <2>3. CASE Commit
    BY <1>2, <2>3 DEF Commit
  <2>4. CASE Recommit
    BY <1>2, <2>4 DEF Recommit
  <2>5. ASSUME NEW from, NEW to, Password(from, to)
        PROVE  Kept(mod')
    BY <1>2, <2>5 DEF Password
  <2>6. CASE SwitchCheck
    BY <1>0, <2>6, InfoKeeps DEF SwitchCheck
  <2> QED
    BY <1>3, <2>1, <2>2, <2>3, <2>4, <2>5, <2>6
    DEF HostStep, Switching, Info, Feature, NoFile, Start, Restart, Abort, Block, Complete,
        SwitchInfo
<1>4. CASE HostDies
  BY <1>0, <1>4 DEF HostDies, Kept
<1>5. CASE ModuleEnds
  BY <1>0, <1>5, EndingsKeep DEF ModuleEnds, Kept
<1>6. CASE ModuleReset
  BY <1>0, <1>6 DEF ModuleReset, Kept, ModuleState, NoTask, Cmd
<1>7. \A f \in Calls : ~Enter(f)
  BY DEF Enter, Switching
<1> QED
  BY <1>3, <1>4, <1>5, <1>6, <1>7 DEF Next

(* SwitchInv is inductive, given the types. *)
LEMMA SwitchInvNext ==
    ASSUME TypeOK, SwitchInv, [Next]_vars
    PROVE  SwitchInv'
<1> USE DEF Switching, SwitchInv
<1>1. CASE Next /\ call \in {"upgrade", "switch"} /\ pc \in Switching
  BY <1>1, SwitchingKeeps DEF Kept
<1>2. CASE SwitchInfo
  <2>1. CASE InfoSeen /\ mod.valid = Banks
    <3>1. mod'.valid = Banks /\ mod'.task = NoTask
      BY <2>1 DEF InfoSeen, Executed, Effect, Cmd, TypeOK, ModuleState
    <3> QED
      BY <3>1 DEF NoTask, Cmd
  <2>2. CASE Return("false")
    BY <2>2 DEF Return
  <2> QED
    BY <1>2, <2>1, <2>2 DEF SwitchInfo, Goto, Return
<1>3. CASE ~(call' \in {"upgrade", "switch"} /\ pc' \in Switching)
  BY <1>3
<1>4. CASE Next /\ ~(call \in {"upgrade", "switch"} /\ pc \in Switching) /\ ~SwitchInfo
  <2> USE <1>4 DEF Goto, Return, Local
  <2>1. CASE \E f \in Calls : Enter(f)
    BY <2>1 DEF Enter
  <2>2. CASE HostDies \/ ModuleEnds \/ ModuleReset
    BY <2>2 DEF HostDies, ModuleEnds, ModuleReset
  <2>3. CASE Info \/ Feature \/ NoFile \/ Abort
    BY <2>3 DEF Info, Feature, NoFile, Abort, DownloadReturns
  <2>4. CASE Start \/ Restart
    BY <2>4 DEF Start, Restart, EnterLoop
  <2>5. CASE Block
    BY <2>5 DEF Block
  <2>6. CASE Complete
    BY <2>6 DEF Complete, DownloadReturns
  <2>7. CASE Run \/ Rerun
    BY <2>7 DEF Run, Rerun, RunReturns
  <2>8. CASE Commit \/ Recommit \/ SwitchCheck
    BY <2>8 DEF Commit, Recommit, SwitchCheck, CommitReturns
  <2>9. CASE Password("pwdStart", "restart") \/ Password("pwdRun", "rerun")
             \/ Password("pwdCommit", "recommit")
    BY <2>9 DEF Password
  <2> QED
    BY <2>1, <2>2, <2>3, <2>4, <2>5, <2>6, <2>7, <2>8, <2>9 DEF Next, HostStep
<1>5. CASE UNCHANGED vars
  BY <1>5 DEF vars
<1> QED
  BY <1>1, <1>2, <1>3, <1>4, <1>5

(* Whatever the module and the bus do, the bank a module changes to while    *)
(* module_fw_switch is under way holds a valid image (cmis.py:2237-2277).    *)
THEOREM SwitchSafe == Spec => NeverRunsInvalidImage
<1>1. Init => TypeOK /\ BlocksCoverImage /\ SwitchInv
  BY InitType DEF Init, SwitchInv, Switching
<1>2. TypeOK /\ BlocksCoverImage /\ SwitchInv /\ [Next]_vars
         => TypeOK' /\ BlocksCoverImage' /\ SwitchInv'
  BY NextType, SwitchInvNext
<1>3. ASSUME TypeOK, BlocksCoverImage, SwitchInv, [Next]_vars
      PROVE  [(call \in {"upgrade", "switch"} /\ pc \in Switching /\ mod'.running # mod.running)
                 => mod'.running \in mod'.valid]_vars
  <2>1. CASE Next /\ call \in {"upgrade", "switch"} /\ pc \in Switching
    <3>1. mod'.valid = Banks
      BY <2>1, <1>3, SwitchingKeeps DEF Kept
    <3>2. mod'.running \in Banks
      BY <1>3, NextType DEF TypeOK, ModuleState
    <3> QED
      BY <3>1, <3>2
  <2> QED
    BY <1>3, <2>1
<1> QED
  BY <1>1, <1>2, <1>3, PTL DEF Spec, NeverRunsInvalidImage

-------------------------------------------------------------------------------
(* A download that returns True is complete, when the bus loses nothing and  *)
(* the image is longer than its header.                                      *)

(* The host sends the complete command to a module that is not busy, so that *)
(* the status it reads is that command's; the download's callers are known.  *)
DownloadInv ==
    /\ pc = "complete" => mod.task = NoTask
    /\ pc # "idle" => ret = "none"
    /\ pc \in Switching \cup {"swinfo"} => call # "download"
    /\ DownloadTrueMeansComplete

(* A status of success means that the module is idle again, *)
LEMMA OkMeansIdle ==
    ASSUME mod \in ModuleState, NEW c \in Command, NEW r \in Replies(c), r.ret = "ok"
    PROVE  r.mod.task = NoTask
<1>0. mod.task \in Command
  BY DEF ModuleState
<1>1. CASE r.mod = mod /\ mod.task = NoTask
  BY <1>1
<1>2. CASE r.mod \in Endings(mod, c) \cup Endings(mod, mod.task)
  BY <1>0, <1>2, EndingsType
<1> QED
  BY <1>1, <1>2 DEF Replies, IdleReplies, BusyReplies, Answer, Endings

(* and, when no write is lost and the module was idle, that it executed the  *)
(* command.                                                                  *)
LEMMA OkMeansDone ==
    ASSUME mod \in ModuleState, NEW c \in Command, NEW r \in Replies(c), r.ret = "ok",
           ~Lossy, mod.task = NoTask
    PROVE  c.op \in r.did
<1>1. \A n \in Refusals(mod) : n.st # "ok"
  BY DEF Refusals, ModuleState
<1> QED
  BY <1>1 DEF Replies, IdleReplies, Answer

(* DownloadInv is inductive, given the types. *)
LEMMA DownloadInvNext ==
    ASSUME TypeOK, BlocksCoverImage, DownloadInv, [Next]_vars, ~Lossy, Total > 0
    PROVE  DownloadInv'
<1> USE DEF DownloadInv, DownloadTrueMeansComplete, Switching, Goto, Return, Local
<1>0. mod \in ModuleState
  BY DEF TypeOK
<1>1. CASE \E f \in Calls : Enter(f)
  BY <1>1 DEF Enter
<1>2. CASE HostDies
  BY <1>2 DEF HostDies
<1>3. CASE ModuleEnds
  <2>1. pc = "complete" => FALSE
    BY <1>3 DEF ModuleEnds
  <2> QED
    BY <1>3, <2>1 DEF ModuleEnds
<1>4. CASE ModuleReset
  BY <1>0, <1>4 DEF ModuleReset, ModuleState
<1>5. CASE Info \/ Feature \/ NoFile
  BY <1>5 DEF Info, Feature, NoFile, DownloadReturns
<1>6. CASE Start \/ Restart
  BY <1>6 DEF Start, Restart, EnterLoop, Stay
<1>7. CASE Abort
  BY <1>7 DEF Abort, DownloadReturns
<1>8. CASE Block
  <2> DEFINE c == [op |-> "block", at |-> addr, len |-> Count(remaining)]
  <2>1. CASE pc' = "complete"
    <3>1. PICK r \in Replies(c) : mod' = r.mod /\ r.ret = "ok" /\ ret' = ret
      BY <1>8, <2>1 DEF Block, Receive
    <3>2. c \in Command
      BY <1>8, SizesAssumption DEF Command, Ops, Count, Block, TypeOK, BlocksCoverImage
    <3>3. mod'.task = NoTask
      BY <1>0, <3>1, <3>2, OkMeansIdle
    <3> QED
      BY <1>8, <2>1, <3>1, <3>3 DEF Block
  <2>2. CASE pc' # "complete"
    BY <1>8, <2>2 DEF Block, Receive
  <2> QED
    BY <2>1, <2>2
<1>9. CASE Complete
  <2>1. Cmd("complete") \in Command /\ Cmd("complete").op = "complete"
    BY DEF Cmd, Command, Ops
  <2>2. PICK r \in Replies(Cmd("complete")) :
           /\ Receive(Cmd("complete"), r)
           /\ \/ r.ret = "ok" /\ DownloadReturns("true")
              \/ r.ret \in Failures /\ DownloadReturns("false")
              \/ r.ret = "exc" /\ DownloadReturns("exc")
    BY <1>9 DEF Complete
  <2>3. CASE r.ret = "ok" /\ DownloadReturns("true")
    <3>1. "complete" \in done'
      BY <1>0, <1>9, <2>1, <2>2, <2>3, OkMeansDone DEF Complete, Receive
    <3> QED
      BY <1>9, <2>3, <3>1 DEF Complete, DownloadReturns
  <2>4. CASE DownloadReturns("false") \/ DownloadReturns("exc")
    BY <1>9, <2>4 DEF Complete, DownloadReturns
  <2> QED
    BY <2>2, <2>3, <2>4
<1>10. CASE SwitchInfo
  BY <1>10 DEF SwitchInfo
<1>11. CASE Run \/ Rerun
  BY <1>11 DEF Run, Rerun, RunReturns
<1>12. CASE Commit \/ Recommit \/ SwitchCheck
  BY <1>12 DEF Commit, Recommit, SwitchCheck, CommitReturns
<1>13. CASE Password("pwdStart", "restart") \/ Password("pwdRun", "rerun")
            \/ Password("pwdCommit", "recommit")
  BY <1>13 DEF Password
<1>14. CASE UNCHANGED vars
  BY <1>14 DEF vars
<1> QED
  BY <1>1, <1>2, <1>3, <1>4, <1>5, <1>6, <1>7, <1>8, <1>9, <1>10, <1>11, <1>12, <1>13, <1>14
  DEF Next, HostStep

(* module_fw_download returns True only when the module has validated the    *)
(* complete image for this very call: also after a password retry whose      *)
(* status nobody reads, and with a module that is slow (cmis.py:2093-2200).  *)
THEOREM DownloadComplete ==
    ASSUME ~Lossy, ImageSize > StartSize
    PROVE  Spec => []DownloadTrueMeansComplete
<1>0. Total > 0
  BY SizesAssumption DEF Total
<1>1. Init => TypeOK /\ BlocksCoverImage /\ DownloadInv
  BY InitType DEF Init, DownloadInv, DownloadTrueMeansComplete, Switching
<1>2. TypeOK /\ BlocksCoverImage /\ DownloadInv /\ [Next]_vars
         => TypeOK' /\ BlocksCoverImage' /\ DownloadInv'
  BY <1>0, NextType, DownloadInvNext
<1>3. DownloadInv => DownloadTrueMeansComplete
  BY DEF DownloadInv
<1> QED
  BY <1>1, <1>2, <1>3, PTL DEF Spec
-------------------------------------------------------------------------------
(* An upgrade that returns True runs what it downloaded, under the same      *)
(* conditions and without a reset between.                                   *)

(* The image validated last is in the bank that does not run until the       *)
(* switch has looked which one that is; no command is under way then that    *)
(* could change it.                                                          *)
UpgradeInv ==
    call = "upgrade" /\ resets = 0 =>
        /\ pc = "swinfo" => mod.task = NoTask /\ fresh = Other(mod.running)
        /\ pc \in Switching => fresh = Other(before)

(* UpgradeInv is inductive, given the types and DownloadInv.                 *)
LEMMA UpgradeInvNext ==
    ASSUME TypeOK, DownloadInv, UpgradeInv, [Next]_vars, ~Lossy
    PROVE  UpgradeInv'
<1> USE DEF UpgradeInv, Switching, Goto, Return, Local
<1>0. mod \in ModuleState
  BY DEF TypeOK
<1>1. CASE \E f \in Calls : Enter(f)
  BY <1>1 DEF Enter
<1>2. CASE HostDies
  BY <1>2 DEF HostDies
<1>3. CASE ModuleEnds
  BY <1>3 DEF ModuleEnds
<1>4. CASE ModuleReset
  BY <1>4 DEF ModuleReset, TypeOK
<1>5. CASE Info \/ Feature \/ NoFile
  BY <1>5 DEF Info, Feature, NoFile, DownloadReturns
<1>6. CASE Start \/ Restart
  BY <1>6 DEF Start, Restart, EnterLoop, Stay
<1>7. CASE Abort
  BY <1>7 DEF Abort, DownloadReturns
<1>8. CASE Block
  BY <1>8 DEF Block
<1>9. CASE Complete
  <2>1. Cmd("complete") \in Command /\ Cmd("complete").op = "complete"
    BY DEF Cmd, Command, Ops
  <2>2. PICK r \in Replies(Cmd("complete")) :
           /\ Receive(Cmd("complete"), r)
           /\ \/ r.ret = "ok" /\ DownloadReturns("true")
              \/ r.ret \in Failures /\ DownloadReturns("false")
              \/ r.ret = "exc" /\ DownloadReturns("exc")
           /\ fresh' = IF r.did = {} THEN fresh ELSE Other(mod.running)
    BY <1>9 DEF Complete
  <2>3. CASE r.ret = "ok" /\ DownloadReturns("true")
    <3>1. "complete" \in r.did /\ mod.task = NoTask /\ r.mod.task = NoTask
      BY <1>0, <1>9, <2>1, <2>3, OkMeansDone, OkMeansIdle DEF Complete, DownloadInv
    <3>2. r = Answer(Executed(mod, Cmd("complete")), "ok", {"complete"})
      BY <2>1, <3>1 DEF Replies, IdleReplies, Answer
    <3>3. mod'.running = mod.running
      BY <1>0, <2>1, <2>2, <3>2 DEF Receive, Answer, Executed, Effect, ModuleState
    <3> QED
      BY <1>9, <2>2, <2>3, <3>1, <3>3 DEF Complete, DownloadReturns, Receive
  <2>4. CASE DownloadReturns("false") \/ DownloadReturns("exc")
    BY <1>9, <2>4 DEF Complete, DownloadReturns
  <2> QED
    BY <2>2, <2>3, <2>4
<1>10. CASE SwitchInfo
  BY <1>10 DEF SwitchInfo
<1>11. CASE Run \/ Rerun
  BY <1>11 DEF Run, Rerun, RunReturns
<1>12. CASE Commit \/ Recommit \/ SwitchCheck
  BY <1>12 DEF Commit, Recommit, SwitchCheck, CommitReturns
<1>13. CASE Password("pwdStart", "restart") \/ Password("pwdRun", "rerun")
            \/ Password("pwdCommit", "recommit")
  BY <1>13 DEF Password
<1>14. CASE UNCHANGED vars
  BY <1>14 DEF vars
<1> QED
  BY <1>1, <1>2, <1>3, <1>4, <1>5, <1>6, <1>7, <1>8, <1>9, <1>10, <1>11, <1>12, <1>13, <1>14
  DEF Next, HostStep

(* Only the last look of the switch lets an upgrade return True, and then    *)
(* the bank that runs is not the one that ran before.                        *)
LEMMA UpgradeReturns ==
    ASSUME TypeOK, UpgradeInv, Next, call = "upgrade", ret = "none", ret' = "true", resets' = 0
    PROVE  mod.running = fresh
<1> USE DEF Goto, Return, Local
<1>1. CASE SwitchCheck
  <2>1. pc = "swcheck" /\ mod.running # before /\ resets = 0
    BY <1>1 DEF SwitchCheck
  <2>2. fresh = Other(before) /\ mod.running \in Banks /\ before \in Banks
    BY <2>1 DEF UpgradeInv, Switching, TypeOK, ModuleState
  <2> QED
    BY <2>1, <2>2 DEF Other, Banks
<1>2. CASE HostStep /\ ~SwitchCheck
  <2>1. CASE Info \/ Feature \/ NoFile \/ Abort
    BY <2>1 DEF Info, Feature, NoFile, Abort, DownloadReturns
  <2>2. CASE Start \/ Restart \/ Block
    BY <2>2 DEF Start, Restart, Block, EnterLoop
  <2>3. CASE Complete \/ SwitchInfo
    BY <2>3 DEF Complete, SwitchInfo, DownloadReturns
  <2>4. CASE Run \/ Rerun \/ Commit \/ Recommit
    BY <2>4 DEF Run, Rerun, Commit, Recommit, RunReturns, CommitReturns
  <2>5. CASE Password("pwdStart", "restart") \/ Password("pwdRun", "rerun")
             \/ Password("pwdCommit", "recommit")
    BY <2>5 DEF Password
  <2> QED
    BY <1>2, <2>1, <2>2, <2>3, <2>4, <2>5 DEF HostStep
<1>3. CASE (\E f \in Calls : Enter(f)) \/ HostDies \/ ModuleEnds \/ ModuleReset
  BY <1>3 DEF Enter, HostDies, ModuleEnds, ModuleReset
<1> QED
  BY <1>1, <1>2, <1>3 DEF Next

(* An upgrade that returns True has its own image running, whatever run and  *)
(* commit returned (cmis.py:2226-2235, 2253-2270): the status of the         *)
(* complete command is that of a download into the bank that did not run,    *)
(* and the switch compares the banks.                                        *)
THEOREM NewImageRuns ==
    ASSUME ~Lossy, ImageSize > StartSize
    PROVE  Spec => UpgradeTrueMeansNewImageRunning
<1> DEFINE Inv == TypeOK /\ BlocksCoverImage /\ DownloadInv /\ UpgradeInv
<1>0. Total > 0
  BY SizesAssumption DEF Total
<1>1. Init => Inv
  BY InitType DEF Init, DownloadInv, UpgradeInv, DownloadTrueMeansComplete, Switching
<1>2. Inv /\ [Next]_vars => Inv'
  BY <1>0, NextType, DownloadInvNext, UpgradeInvNext
<1>3. Inv /\ [Next]_vars =>
        [call = "upgrade" /\ ret = "none" /\ ret' = "true" /\ resets' = 0 => mod.running = fresh]_vars
  BY UpgradeReturns
<1> QED
  BY <1>1, <1>2, <1>3, PTL DEF Spec, UpgradeTrueMeansNewImageRunning
===============================================================================
