------------------------------ MODULE BcmFirmware ------------------------------
(***************************************************************************)
(* Firmware of a Broadcom Y cable: download, activation, rollback, version *)
(* and reset of the two ToR ends, the NIC end and the mux chip next to it. *)
(* Every call runs under dl_lock.  A call is a program of exchanges with   *)
(* the MCU (external) over the upgrade page; an exchange is carried out,   *)
(* fails, which does not say whether the MCU carried it out, or raises an  *)
(* exception, which leaves the lock with its thread.                       *)
(***************************************************************************)
EXTENDS Naturals, Sequences

CONSTANTS
    Threads,
    Upgraders, \* the threads that download, activate and roll back; the others ask and reset
    Packets,   \* packets of an image
    MaxCalls,  \* bound: calls of a behaviour
    Nobody

FirmwareAssumption ==
    Packets \in Nat \ {0} /\ MaxCalls \in Nat \ {0} /\ Nobody \notin Threads /\ Upgraders \subseteq Threads

Ends == {"self", "nic", "peer"}
Dests == Ends \cup {"mux"}
Banks == {1, 2}
Other(b) == 3 - b
Images == {"old", "new", "blank"}  \* "new": the version of the file the calls are given

VARIABLES
    host,     \* the ToR this host is on
    prompt,   \* the MCU of this behaviour serves a reset bit before its next answer
    cur,      \* the bank each destination runs from
    next,     \* the bank it will run from after a reset
    img,      \* what each bank holds
    session,  \* the destination whose image the MCU is receiving, and the packets it has
    bits,     \* the reset bits that are set: "self" in register 5Dh, the others in FDh:B8h
    holder,   \* dl_lock
    asked,    \* the call of each thread, Some while it waits for the lock, or None
    job,      \* the program of the call that holds the lock, and history: the ends reset since its
              \* latest reset bit, whether no end had a switch before it when it began
    dl,       \* download_firmware_status
    out,      \* what a call has returned in the last step, or "none"
    calls     \* calls so far

vars == <<host, prompt, cur, next, img, session, bits, holder, asked, job, dl, out, calls>>

None == [op |-> "none", file |-> FALSE, hitless |-> FALSE, at |-> "self"]
Some == [None EXCEPT !.op = "some"]
Upgrades ==
    [op : {"download"}, file : {TRUE}, hitless : {FALSE}, at : {"self"}]
        \cup [op : {"activate"}, file : BOOLEAN, hitless : BOOLEAN, at : {"self"}]
        \cup [op : {"rollback"}, file : BOOLEAN, hitless : {FALSE}, at : {"self"}]
Requests == Upgrades \cup [op : {"version", "reset"}, file : {FALSE}, hitless : {FALSE}, at : Ends]
Unasked == [mine |-> 0, bank |-> <<"blank", "blank">>]
NoSession == [at |-> "none", packets |-> 0]
NoJob == [todo |-> <<>>, info |-> [d \in Dests |-> Unasked], verdict |-> "success", reset |-> {}, settled |-> TRUE]
Verdicts == {"none", "success", "already", "error", "true", "false", "raised"}

TypeOK ==
    /\ host \in {"a", "b"} /\ prompt \in BOOLEAN
    /\ cur \in [Dests -> Banks] /\ next \in [Dests -> Banks]
    /\ img \in [Dests -> [Banks -> Images]]
    /\ session \in [at : Dests \cup {"none"}, packets : 0..Packets]
    /\ bits \subseteq Ends
    /\ holder \in Threads \cup {Nobody}
    /\ asked \in [Threads -> Requests \cup {None, Some}]
    /\ DOMAIN job = DOMAIN NoJob /\ job.reset \subseteq Dests /\ job.verdict \in Verdicts
    /\ dl \in {"idle", "inprogress", "failed"}
    /\ out \in Verdicts
    /\ calls \in 0..MaxCalls

(* Any images an earlier upgrade may have left: the bank an end runs from    *)
(* is good, the mux runs from the bank of the NIC.                           *)
Init ==
    /\ host \in {"a", "b"} /\ prompt \in BOOLEAN
    /\ \E p \in Banks : cur = [d \in Dests |-> IF d = "peer" THEN p ELSE 1]
    /\ next = cur
    /\ img \in [Dests -> [Banks -> Images]]
    /\ \A d \in Dests : <<img[d][cur[d]], img[d][Other(cur[d])]>> \in
          {<<"old", "blank">>, <<"old", "new">>, <<"new", "old">>}
    /\ session = NoSession /\ bits = {}
    /\ holder = Nobody
    /\ asked = [t \in Threads |-> None]
    /\ job = NoJob
    /\ dl = "idle"
    /\ out = "none"
    /\ calls = 0

-------------------------------------------------------------------------------
(* The programs.  "parse" and "info" ask for the banks of a destination,     *)
(* "mark" is the assignment of the download status, "decide" the choice of   *)
(* what to do from the answers.  The part of the mux chip is read from the   *)
(* file without asking; a bad file ends the call as a failing exchange does. *)
Step(kind, d) == [kind |-> kind, at |-> d]
parse_image(d) == IF d = "mux" THEN <<>> ELSE <<Step("parse", d)>>
cable_fw_get_status(d) == <<Step("info", d)>>
cable_fw_upgrade(d) ==
    <<Step("start", d)>> \o [i \in 1..Packets |-> Step(IF i = Packets THEN "last" ELSE "packet", d)]
        \o <<Step("complete", d)>>
cable_fw_bank_toggle(d) == <<Step("swap", d), Step("bit", d), Step("waitBit0", d), Step("boot", d)>>
cable_fw_warm_boot(d) == <<Step("warm", d), Step("boot", d)>>

(* The banks of the four destinations, after their parts of the file. *)
Gather(file) ==
    LET both(d) == IF file THEN parse_image(d) \o cable_fw_get_status(d) ELSE cable_fw_get_status(d)
    IN  both("self") \o both("nic") \o both("mux") \o both("peer")

(* Defect: the banks of the mux are not compared before a hitless activation. *)
ActivateUnchecked(file, hitless) == Gather(file) \o <<Step("decide", "self")>>

download_firmware ==
    parse_image("self") \o parse_image("nic") \o parse_image("mux") \o parse_image("peer")
        \o <<Step("mark", "self")>> \o cable_fw_get_status("mux") \o cable_fw_get_status("nic")
        \o cable_fw_get_status("self") \o cable_fw_get_status("peer")
activate_firmware(file, hitless) ==
    (IF hitless THEN <<Step("same", "mux")>> ELSE <<>>) \o Gather(file) \o <<Step("decide", "self")>>
rollback_firmware(file) == Gather(file) \o <<Step("decide", "self")>>
get_firmware_version(e) == cable_fw_get_status(e) \o (IF e = "nic" THEN cable_fw_get_status("mux") ELSE <<>>)
reset(e) == <<Step("bit", e), Step("wait", e)>>

ProgramOf(r) ==
    CASE r.op = "download" -> download_firmware
      [] r.op = "activate" -> activate_firmware(r.file, r.hitless)
      [] r.op = "rollback" -> rollback_firmware(r.file)
      [] r.op = "version" -> get_firmware_version(r.at)
      [] r.op = "reset" -> reset(r.at)

-------------------------------------------------------------------------------
(* What the answers say: Runs and Spare are the images of the bank a         *)
(* destination runs from and of the other one.  NIC and mux are taken        *)
(* together, by the bank of the NIC.                                         *)
Holds(d, b) == job.info[d].bank[b] = "new"
Mine(d) == job.info[IF d = "mux" THEN "nic" ELSE d].mine
Runs(d) == Holds(d, Mine(d))
Spare(d) == Holds(d, Other(Mine(d)))

(* Defect: NIC and mux may hold it in different banks. *)
MatchesApart == \A d \in Dests : \E b \in Banks : Holds(d, b)

(* Some bank of each end holds the version of the file, for NIC and mux the  *)
(* same one.                                                                 *)
Matches ==
    /\ \E b \in Banks : Holds("nic", b) /\ Holds("mux", b)
    /\ \E b \in Banks : Holds("self", b)
    /\ \E b \in Banks : Holds("peer", b)

Blank(d, mine) == job.info[d].bank[Other(mine)] = "blank"

(* Defect: the banks of the ToR ends are not looked at. *)
SparesGoodAtNic == ~Blank("nic", job.info["nic"].mine) /\ ~Blank("mux", job.info["mux"].mine)

(* Without a file the inactive banks must not be blank; that of this host's  *)
(* end is looked up by the bank the peer runs from.                          *)
SparesGood ==
    /\ ~Blank("nic", job.info["nic"].mine) /\ ~Blank("mux", job.info["mux"].mine)
    /\ ~Blank("self", job.info["peer"].mine) /\ ~Blank("peer", job.info["peer"].mine)

(* "perform", "already" or "cannot" for each end. *)
Activation(e) ==
    LET ds == IF e = "nic" THEN {"nic", "mux"} ELSE {e} IN
    CASE (\E d \in ds : ~Runs(d)) /\ (\A d \in ds : Spare(d)) -> "perform"
      [] \A d \in ds : Runs(d) -> "already"
      [] OTHER -> "cannot"
Rollback(e) ==
    LET ds == IF e = "nic" THEN {"nic", "mux"} ELSE {e} IN
    IF (\E d \in ds : Runs(d)) /\ (\E d \in ds : ~Spare(d)) THEN "perform"
    ELSE IF (\E d \in ds : Spare(d)) /\ (\E d \in ds : ~Runs(d)) THEN "already"
    ELSE "cannot"

(* Mixtures without a "perform": an activation is an error when one end      *)
(* cannot, a rollback returns None unless all agree.                         *)
VerdictOf(op, class) ==
    CASE \E e \in Ends : class[e] = "perform" -> "success"
      [] \A e \in Ends : class[e] = "already" -> "already"
      [] OTHER -> IF op = "rollback" /\ \E e \in Ends : class[e] # "cannot" THEN "none" ELSE "error"

-------------------------------------------------------------------------------
Running(t) == holder = t /\ job.todo # <<>>
Cable == <<host, prompt, cur, next, img, session, bits>>
Silent == out' = "none"

Call(t) ==
    /\ asked[t] = None /\ calls < MaxCalls
    /\ asked' = [asked EXCEPT ![t] = Some]
    /\ Silent
    /\ calls' = calls + 1
    /\ UNCHANGED <<holder, job, dl>> /\ UNCHANGED Cable

(* The lock is reentrant: a thread that was left with it gets it again. *)
Lock(t) ==
    /\ asked[t] = Some /\ holder \in {Nobody, t}
    /\ holder' = t
    /\ \E r \in Requests :
          /\ r \in Upgrades <=> t \in Upgraders
          /\ asked' = [asked EXCEPT ![t] = r]
          /\ job' = [NoJob EXCEPT !.todo = ProgramOf(r), !.settled = (next = cur)]
    /\ Silent
    /\ UNCHANGED <<dl, calls>> /\ UNCHANGED Cable
LockTimesOut(t) ==
    /\ asked[t] = Some /\ holder \notin {Nobody, t}
    /\ asked' = [asked EXCEPT ![t] = None]
    /\ out' = "error"
    /\ UNCHANGED <<holder, job, dl, calls>> /\ UNCHANGED Cable

(* The call returns v and gives the lock up; an exception keeps it. *)
Return(t, v) ==
    /\ asked' = [asked EXCEPT ![t] = None]
    /\ out' = v
    /\ job' = NoJob
    /\ holder' = IF v = "raised" THEN t ELSE Nobody
    /\ UNCHANGED calls

Continue(todo) ==
    /\ job' = [job EXCEPT !.todo = todo]
    /\ Silent /\ UNCHANGED <<asked, holder, calls>>

(* The last step of a program ends the call with the verdict of the job. *)
Proceed(t) == IF Len(job.todo) > 1 THEN Continue(Tail(job.todo)) ELSE Return(t, job.verdict)

Downloading(t) == asked[t].op = "download"
(* An exchange fails: with an error code or with an exception.  A download   *)
(* past its mark is "failed", after an exception it stays in progress.       *)
Fail(t) ==
    \/ Return(t, "error")
       /\ dl' = IF Downloading(t) /\ dl = "inprogress" THEN "failed" ELSE dl
    \/ Return(t, "raised") /\ UNCHANGED dl

Is(t, kinds) == Running(t) /\ Head(job.todo).kind \in kinds
At == Head(job.todo).at
Inactive(d) == Other(cur[d])

(* A download upgrades a destination whose inactive bank does not hold the   *)
(* image.                                                                    *)
Wanted(t, d) ==
    IF Downloading(t) /\ Head(job.todo).kind = "info" /\ img[d][Inactive(d)] # "new"
    THEN cable_fw_upgrade(d) ELSE <<>>

(* The banks of a destination. *)
Info(t) ==
    /\ Is(t, {"parse", "info", "same"})
    /\ LET d == At
           known == [job EXCEPT !.info[d] = [mine |-> cur[d], bank |-> img[d]]]
           todo == Wanted(t, d) \o Tail(job.todo)
       IN  \/ /\ Head(job.todo).kind = "same" => img[d][1] = img[d][2]
              /\ \/ todo # <<>> /\ job' = [known EXCEPT !.todo = todo]
                    /\ Silent /\ UNCHANGED <<asked, holder, calls, dl>>
                 \/ todo = <<>> /\ Return(t, "success")
                    /\ dl' = IF Downloading(t) THEN "idle" ELSE dl
           \/ Head(job.todo).kind = "same" /\ img[d][1] # img[d][2] /\ Return(t, "error") /\ UNCHANGED dl
           \/ Fail(t)
    /\ UNCHANGED Cable

Mark(t) ==
    /\ Is(t, {"mark"})
    /\ dl' = "inprogress"
    /\ Continue(Tail(job.todo)) /\ UNCHANGED Cable

(* START erases the inactive bank. *)
Start(t) ==
    /\ Is(t, {"start"})
    /\ LET erased == [img EXCEPT ![At][Inactive(At)] = "blank"] IN
       \/ img' = erased /\ session' = [at |-> At, packets |-> 0]
          /\ Continue(Tail(job.todo)) /\ UNCHANGED dl
       \/ img' \in {img, erased} /\ session' = NoSession /\ Fail(t)
    /\ UNCHANGED <<host, prompt, cur, next, bits>>

(* TRANSFER: a packet has to be answered before the next one.                *)
Transfer(t) ==
    /\ Is(t, {"packet"})
    /\ \/ session' = [session EXCEPT !.packets = @ + 1]
          /\ Continue(Tail(job.todo)) /\ UNCHANGED dl
       \/ session' \in {session, NoSession} /\ Fail(t)
    /\ UNCHANGED <<host, prompt, cur, next, img, bits>>

(* When the polls for the last packet are used up the flag still says that   *)
(* it was answered, and the driver goes on.                                  *)
LastPacket(t) ==
    /\ Is(t, {"last"})
    /\ \/ session' \in {session, [session EXCEPT !.packets = @ + 1]}
          /\ Continue(Tail(job.todo)) /\ UNCHANGED dl
       \/ session' \in {session, NoSession} /\ Fail(t)
    /\ UNCHANGED <<host, prompt, cur, next, img, bits>>

(* COMPLETE: the MCU checks that it has the whole image. *)
Complete(t) ==
    /\ Is(t, {"complete"})
    /\ session' = NoSession
    /\ LET whole == session = [at |-> At, packets |-> Packets]
           written == [img EXCEPT ![At][Inactive(At)] = "new"]
       IN  \/ /\ whole /\ img' = written
              /\ Proceed(t)
              /\ dl' = IF Len(job.todo) = 1 THEN "idle" ELSE dl
           \/ img' \in (IF whole THEN {img, written} ELSE {img}) /\ Fail(t)
    /\ UNCHANGED <<host, prompt, cur, next, bits>>

(* What to do with each end, in the order of the code. *)
Order(op) == IF op = "activate" THEN <<"peer", "nic", "self">> ELSE <<"nic", "self", "peer">>
Decide(t) ==
    /\ Is(t, {"decide"})
    /\ LET r == asked[t]
           class == [e \in Ends |->
                        IF ~r.file THEN "perform"
                        ELSE IF r.op = "activate" THEN Activation(e) ELSE Rollback(e)]
           toggle(e) == IF class[e] # "perform" THEN <<>>
                        ELSE IF r.hitless THEN cable_fw_warm_boot(e) ELSE cable_fw_bank_toggle(e)
           o == Order(r.op)
           todo == toggle(o[1]) \o toggle(o[2]) \o toggle(o[3])
           v == VerdictOf(r.op, class)
       IN  IF (IF r.file THEN ~Matches ELSE ~SparesGood) THEN Return(t, "error")
           ELSE IF todo = <<>> THEN Return(t, v)
           ELSE job' = [job EXCEPT !.todo = todo, !.verdict = v]
                /\ Silent /\ UNCHANGED <<asked, holder, calls>>
    /\ UNCHANGED dl /\ UNCHANGED Cable

-------------------------------------------------------------------------------
(* SWAP marks the inactive bank as the next one, for the NIC also that of    *)
(* the mux; WARM_BOOT moves there at once.                                   *)
Switched(f, d) == [e \in Dests |-> IF e = d \/ (d = "nic" /\ e = "mux") THEN Inactive(e) ELSE f[e]]
Swap(t) ==
    /\ Is(t, {"swap"})
    /\ \/ next' = Switched(next, At) /\ Continue(Tail(job.todo)) /\ UNCHANGED dl
       \/ next' \in {next, Switched(next, At)} /\ Fail(t)
    /\ UNCHANGED <<host, prompt, cur, img, session, bits>>
WarmBoot(t) ==
    /\ Is(t, {"warm"})
    /\ \/ /\ next' = Switched(next, At) /\ cur' = Switched(cur, At)
          /\ (Continue(Tail(job.todo)) /\ UNCHANGED dl) \/ Fail(t)
       \/ UNCHANGED <<next, cur>> /\ Fail(t)
    /\ UNCHANGED <<host, prompt, img, session, bits>>

(* A reset bit: the register of NIC and peer is written as a whole. *)
SetBit(t) ==
    /\ Is(t, {"bit"})
    /\ \/ /\ bits' = IF At = "self" THEN bits \cup {"self"} ELSE (bits \cap {"self"}) \cup {At}
          /\ job' = [job EXCEPT !.todo = Tail(@), !.reset = {}]
          /\ Silent /\ UNCHANGED <<asked, holder, calls, dl>>
       \/ bits' = bits /\ asked[t].op = "reset" /\ Return(t, "false") /\ UNCHANGED dl
       \/ bits' = bits /\ Fail(t)
    /\ UNCHANGED <<host, prompt, cur, next, img, session>>

(* Defect: a reset waits for bit 0 as a toggle does. *)
BitSeenZero(d, kind) == IF d = "self" THEN d \in bits ELSE host = "b" /\ "peer" \in bits

(* The wait for the MCU.  That of a toggle looks at bit 0 of the register of *)
(* NIC and peer, which is the bit of ToR A, whatever bit it has written.     *)
BitSeen(d, kind) ==
    IF kind = "waitBit0" /\ d # "self" THEN host = "b" /\ "peer" \in bits ELSE d \in bits
Wait(t) ==
    /\ Is(t, {"wait", "waitBit0"})
    /\ \/ /\ ~BitSeen(At, Head(job.todo).kind)
          /\ IF asked[t].op = "reset" THEN Return(t, "true") ELSE Continue(Tail(job.todo))
          /\ UNCHANGED dl
       \/ BitSeen(At, Head(job.todo).kind) /\ asked[t].op = "reset" /\ Return(t, "false") /\ UNCHANGED dl
       \/ Fail(t)
    /\ UNCHANGED Cable

(* BOOT_STATUS, and for the NIC the wait for its diagnostic status. *)
Boot(t) ==
    /\ Is(t, {"boot"})
    /\ \/ (prompt => At \notin bits) /\ Proceed(t) /\ UNCHANGED dl
       \/ Fail(t)
    /\ UNCHANGED Cable

(* The MCU serves a reset bit: the end runs from its next bank, an image     *)
(* that it was receiving is lost.                                            *)
McuReset ==
    /\ \E e \in bits :
          /\ bits' = bits \ {e}
          /\ cur' = [d \in Dests |-> IF d = e \/ (e = "nic" /\ d = "mux") THEN next[d] ELSE cur[d]]
          /\ job' = [job EXCEPT !.reset = IF job.todo = <<>> THEN {} ELSE @ \cup {e}]
          /\ session' = IF session.at = e THEN NoSession ELSE session
    /\ Silent
    /\ UNCHANGED <<host, prompt, next, img, holder, asked, dl, calls>>

ThreadStep(t) ==
    \/ Lock(t) \/ LockTimesOut(t)
    \/ Info(t) \/ Mark(t) \/ Start(t) \/ Transfer(t) \/ LastPacket(t) \/ Complete(t) \/ Decide(t)
    \/ Swap(t) \/ WarmBoot(t) \/ SetBit(t) \/ Wait(t) \/ Boot(t)

Next ==
    \/ \E t \in Threads : Call(t) \/ ThreadStep(t)
    \/ McuReset

Spec == Init /\ [][Next]_vars

-------------------------------------------------------------------------------
Returns(t, ops, vs) == asked[t].op \in ops /\ asked'[t] = None /\ out' \in vs

(* A download leaves the image in the inactive bank of all four              *)
(* destinations.                                                             *)
DownloadedEverywhere(t) ==
    Returns(t, {"download"}, {"success"}) => \A d \in Dests : img'[d][Other(cur'[d])] = "new"

(* After an activation with a file every destination will run the image from *)
(* its next reset, and runs it already when the MCU is prompt.               *)
ActivatedEverywhere(t) ==
    Returns(t, {"activate"}, {"success", "already"}) /\ asked[t].file =>
        \A d \in Dests : /\ img'[d][next'[d]] = "new" \/ img'[d][cur'[d]] = "new"
                         /\ prompt => img'[d][cur'[d]] = "new"

(* After a rollback with a file no ToR end runs the version of the file      *)
(* unless it has nothing else; nor do NIC and mux together.                  *)
RolledBackEverywhere(t) ==
    Returns(t, {"rollback"}, {"success", "already"}) /\ asked[t].file /\ prompt =>
        \A ds \in {{"self"}, {"peer"}, {"nic", "mux"}} :
            (\A d \in ds : img'[d][cur'[d]] = "new") => \A d \in ds : img'[d][Other(cur'[d])] = "new"

(* What a successful download, activation or rollback tells its caller about *)
(* the four destinations is so, although it goes by what it asked them one   *)
(* after the other, skips those it takes to be done and stops halfway when   *)
(* one fails.  It relies on no earlier call having left a switch behind that *)
(* the next reset of the end would still make.                               *)
ToldStep ==
    job.settled => \A t \in Threads : DownloadedEverywhere(t) /\ ActivatedEverywhere(t) /\ RolledBackEverywhere(t)
UpgradesAsTold == [][ToldStep]_vars

(* A hitless activation never changes the version the mux chip runs: the     *)
(* check that its banks agree comes first, its bank moves with that of the   *)
(* NIC several exchanges later.                                              *)
WarmStepKeepsMux == \A t \in Threads : Is(t, {"warm"}) => img["mux"][cur'["mux"]] = img["mux"][cur["mux"]]
HitlessKeepsMux == [][WarmStepKeepsMux]_vars

Swaps(t) == Is(t, {"swap", "warm"}) /\ ~asked[t].file
IntoGoodBank == \A d \in Dests : next'[d] # next[d] => img[d][next'[d]] # "blank"

RunAnImage == \A d \in Dests : job.info[d].bank[job.info[d].mine] # "blank"

(* Without a file no destination is switched to a blank bank, as long as all *)
(* run an image and both ToR ends run from banks of the same number, by what *)
(* they answered: the driver looks up the bank of one by that of the other.  *)
AlignedStep ==
    \A t \in Threads :
        Swaps(t) /\ RunAnImage /\ job.info["self"].mine = job.info["peer"].mine => IntoGoodBank
AlignedNeverBlank == [][AlignedStep]_vars

(* A reset call that returns True has seen its end reset, although the       *)
(* register it polls is shared by two ends and is also written by toggles    *)
(* that do not wait for their own bit.                                       *)
ResetStep == \A t \in Threads : Returns(t, {"reset"}, {"true"}) => asked[t].at \in job.reset
ResetTrueMeansReset == [][ResetStep]_vars
===============================================================================
