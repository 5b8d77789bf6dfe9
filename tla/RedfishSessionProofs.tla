-------------------------- MODULE RedfishSessionProofs --------------------------
(***************************************************************************)
(* Proofs about RedfishSession for every table of sessions, every set of   *)
(* calls and faults without end.                                           *)
(***************************************************************************)
EXTENDS RedfishSession, FiniteSetTheorems, TLAPS

(* What the outcome of a command says about the BMC: an answer that counts   *)
(* as success was given to a command that was carried out, ...               *)
AnswerInv ==
    /\ pc = "relogin" => reply = "401"
    /\ pc = "return" /\ cmd = "change" /\ Success => password = "default"
    /\ pc = "return" /\ cmd = "restore" /\ Success => minLength = saved

(* ... and how far a reset that reports no error has come.                   *)
ResetInv ==
    api = "reset" =>
        /\ pc # "idle" => cmd \in {"getMin", "setMin", "change", "restore", "logout"}
        /\ result = "ok" /\ pc # "idle" /\ cmd \in {"restore", "logout"} => password = "default"
        /\ result = "ok" /\ pc # "idle" /\ cmd = "logout" => minLength = saved

Inv == TypeOK /\ LoggedOutWhenDone /\ AnswerInv /\ ResetInv /\ ResetOkMeansReset

-------------------------------------------------------------------------------
(* A command carried out by cURL. *)

LEMMA CurlType ==
    ASSUME TypeOK, NEW c \in Cmds, Curl(c)
    PROVE  /\ alive' \subseteq Sessions
           /\ minLength' \in {"site", "default"} /\ password' \in {"site", "default"}
           /\ saved' \in {"site", "default"}
           /\ faults' \in 0..MaxFaults /\ reply' \in Replies
<1> USE ConstantsAssumption DEF TypeOK, bmc
<1>1. faults' \in 0..MaxFaults
  BY DEF Curl, Fault
<1>2. Execute(c) \/ Ignore
  BY DEF Curl
<1>3. /\ alive' \subseteq Sessions
      /\ minLength' \in {"site", "default"} /\ password' \in {"site", "default"}
      /\ saved' \in {"site", "default"}
  BY <1>2 DEF Execute, Ignore
<1>4. reply' \in Replies
  BY DEF Curl, Replies
<1> QED
  BY <1>1, <1>3, <1>4

(* Success is reported of commands that were carried out, and passwords and  *)
(* lengths do not change but by them.                                        *)
LEMMA CurlEffect ==
    ASSUME TypeOK, NEW c \in Cmds, Curl(c)
    PROVE  /\ reply' \in {"ok", "empty"} => Execute(c)
           /\ c # "setMin" /\ c # "restore" => minLength' = minLength
           /\ c # "getMin" => saved' = saved
           /\ password = "default" => password' = "default"
           /\ c = "restore" /\ minLength = saved => minLength' = saved'
<1>1. Execute(c) \/ Ignore
  BY DEF Curl
<1>2. reply' \in {"ok", "empty"} => Execute(c)
  BY DEF Curl
<1> QED
  BY <1>1, <1>2 DEF Execute, Ignore, bmc

-------------------------------------------------------------------------------
(* The steps. *)

LEMMA FinishKeeps ==
    ASSUME Inv, NEW r \in Rets, Finish(r), pc = "return",
           api = "reset" /\ r = "ok" => password = "default" /\ minLength = saved
    PROVE  Inv'
<1> USE DEF bmc
<1>1. TypeOK'
  BY DEF Inv, TypeOK, Finish, Cmds
<1>2. LoggedOutWhenDone'
  BY DEF Finish, LoggedOutWhenDone
<1>3. AnswerInv'
  BY DEF Finish, AnswerInv
<1>4. ResetInv' /\ ResetOkMeansReset'
  BY DEF Finish, ResetInv, ResetOkMeansReset
<1> QED
  BY <1>1, <1>2, <1>3, <1>4 DEF Inv

LEMMA ContinueKeeps ==
    ASSUME Inv, NEW c \in Cmds, Continue(c), result' \in Rets,
           api = "reset" => /\ c \in {"setMin", "change", "restore"}
                            /\ result' = "ok" /\ c = "restore" => password = "default"
    PROVE  Inv'
<1> USE DEF bmc
<1>1. TypeOK'
  BY DEF Inv, TypeOK, Continue
<1>2. LoggedOutWhenDone' /\ AnswerInv' /\ ResetOkMeansReset'
  BY DEF Continue, LoggedOutWhenDone, AnswerInv, ResetOkMeansReset
<1>3. ResetInv'
  BY DEF Continue, ResetInv
<1> QED
  BY <1>1, <1>2, <1>3 DEF Inv

LEMMA CommandKeeps ==
    ASSUME Inv, NotLogin \/ TimesOut \/ Answered \/ Unauthorized \/ Rerun
    PROVE  Inv'
<1> USE DEF bmc, CommandStep, Inv
<1>0. cmd \in Cmds /\ MaxRetries = 2 /\ tries \in 0..2
  BY DEF TypeOK, MaxRetries
<1>1. CASE NotLogin
  BY <1>1 DEF NotLogin, TypeOK, Rets, Replies, MaxRetries, LoggedOutWhenDone, AnswerInv, ResetInv,
     ResetOkMeansReset, Success, Checked
<1>2. ASSUME Curl(cmd), TimesOut \/ Answered \/ Unauthorized \/ Rerun
      PROVE  Inv'
  <2>1. TypeOK'
    BY <1>0, <1>2, CurlType
    DEF TypeOK, TimesOut, Answered, Unauthorized, Rerun, Rets, Code, MaxRetries
  <2>2. LoggedOutWhenDone' /\ ResetOkMeansReset'
    BY <1>2 DEF TimesOut, Answered, Unauthorized, Rerun, LoggedOutWhenDone, ResetOkMeansReset
  <2>3. pc' = "return" /\ Success' => Execute(cmd)
    BY <1>0, <1>2, CurlEffect DEF TimesOut, Answered, Unauthorized, Rerun, Success, Checked, Code, Inv
  <2>4. AnswerInv'
    BY <1>2, <2>3
    DEF AnswerInv, Execute, TimesOut, Answered, Unauthorized, Rerun
  <2>5. ResetInv'
    BY <1>0, <1>2, CurlEffect
    DEF ResetInv, TimesOut, Answered, Unauthorized, Rerun
  <2> QED
    BY <2>1, <2>2, <2>4, <2>5
<1> QED
  BY <1>1, <1>2 DEF TimesOut, Answered, Unauthorized, Rerun

LEMMA LoginKeeps ==
    ASSUME Inv, LoginGranted \/ LoginTimesOut \/ LoginFails
    PROVE  Inv'
<1> USE ConstantsAssumption DEF Inv, LoginStep, MakeSession, FreeSessions
<1>1. TypeOK'
  BY DEF TypeOK, LoginGranted, LoginTimesOut, LoginFails, Fault, MaxRetries, Rets
<1>2. LoggedOutWhenDone' /\ ResetOkMeansReset'
  BY DEF LoginGranted, LoginTimesOut, LoginFails, LoggedOutWhenDone, ResetOkMeansReset
<1>3. AnswerInv'
  BY DEF LoginGranted, LoginTimesOut, LoginFails, AnswerInv, Success, Checked
<1>4. ResetInv'
  BY DEF LoginGranted, LoginTimesOut, LoginFails, ResetInv
<1> QED
  BY <1>1, <1>2, <1>3, <1>4

LEMMA ReturnKeeps ==
    ASSUME Inv,
           \/ ReadReturns \/ ListReturns \/ DeleteReturns \/ GetMinReturns \/ SetMinReturns
           \/ ChangeReturns \/ RestoreReturns
    PROVE  Inv'
<1> USE DEF Returned
<1>0. /\ ret \in Rets /\ Checked \in Rets /\ result \in Rets
      /\ "error" \in Rets /\ "ok" \in Rets
  BY DEF Inv, TypeOK, Rets, Checked
<1>1. ASSUME pc = "return", cmd \in {"read", "list", "delete"} PROVE api # "reset"
  BY <1>1 DEF Inv, ResetInv
<1>2. CASE ReadReturns \/ DeleteReturns
  BY <1>0, <1>1, <1>2, FinishKeeps DEF ReadReturns, DeleteReturns
<1>3. CASE ListReturns
  <2>1. CASE Continue("delete") /\ UNCHANGED result
    BY <1>0, <1>1, <1>3, <2>1, ContinueKeeps DEF ListReturns, Cmds
  <2>2. CASE \E r \in {ret, Checked} : Finish(r)
    BY <1>0, <1>1, <1>3, <2>2, FinishKeeps DEF ListReturns
  <2> QED
    BY <1>3, <2>1, <2>2 DEF ListReturns
<1>4. CASE GetMinReturns
  <2>1. CASE Continue("setMin") /\ UNCHANGED result
    BY <1>0, <2>1, ContinueKeeps DEF Cmds
  <2>2. CASE Finish("error")
    BY <1>0, <1>4, <2>2, FinishKeeps DEF GetMinReturns
  <2>3. CASE Checked # "ok" /\ Finish(Checked)
    BY <1>0, <1>4, <2>3, FinishKeeps DEF GetMinReturns
  <2> QED
    BY <1>4, <2>1, <2>2, <2>3 DEF GetMinReturns
<1>5. CASE SetMinReturns
  <2>1. CASE Success
    BY <1>0, <1>5, <2>1, ContinueKeeps DEF SetMinReturns, Cmds
  <2>2. CASE ~Success
    BY <1>0, <1>5, <2>2, FinishKeeps DEF SetMinReturns, Success
  <2> QED
    BY <2>1, <2>2
<1>6. CASE ChangeReturns
  <2>1. Success => password = "default"
    BY <1>6 DEF ChangeReturns, Inv, AnswerInv
  <2>2. result' = "ok" => Success
    BY <1>6 DEF ChangeReturns, Success
  <2>3. result' \in Rets
    BY <1>0, <1>6 DEF ChangeReturns
  <2> QED
    BY <1>6, <2>1, <2>2, <2>3, ContinueKeeps DEF ChangeReturns, Cmds
<1>7. CASE RestoreReturns
  <2> DEFINE r == IF result # "ok" \/ Success THEN result ELSE Checked
  <2>1. r = "ok" => result = "ok" /\ Success
    BY DEF Success
  <2>2. api = "reset" /\ r = "ok" => password = "default" /\ minLength = saved
    BY <1>7, <2>1 DEF RestoreReturns, Inv, ResetInv, AnswerInv
  <2>3. Finish(r) /\ pc = "return" /\ r \in Rets
    BY <1>0, <1>7 DEF RestoreReturns
  <2> HIDE DEF r
  <2> QED
    BY <2>2, <2>3, FinishKeeps
<1> QED
  BY <1>2, <1>3, <1>4, <1>5, <1>6, <1>7

LEMMA InitInv == Init => Inv
BY ConstantsAssumption
DEF Init, Inv, TypeOK, LoggedOutWhenDone, AnswerInv, ResetInv, ResetOkMeansReset, Cmds, Rets,
    Replies, MaxRetries

LEMMA StepKeeps == Inv /\ [Next]_vars => Inv'
<1> SUFFICES ASSUME Inv, [Next]_vars
             PROVE  Inv'
  OBVIOUS
<1> USE DEF bmc
<1>1. ASSUME NEW a \in Apis, Call(a)
      PROVE  Inv'
  <2>1. TypeOK'
    BY <1>1, ConstantsAssumption
    DEF Inv, TypeOK, Call, First, Cmds, Rets, Fault, MaxRetries
  <2>2. LoggedOutWhenDone'
    BY <1>1 DEF Inv, Call, LoggedOutWhenDone
  <2>3. AnswerInv' /\ ResetInv' /\ ResetOkMeansReset'
    BY <1>1 DEF Call, First, AnswerInv, ResetInv, ResetOkMeansReset
  <2> QED
    BY <2>1, <2>2, <2>3 DEF Inv
<1>2. CASE LogoutReturns
  BY <1>2
  DEF LogoutReturns, Returned, Inv, TypeOK, LoggedOutWhenDone, AnswerInv, ResetInv,
      ResetOkMeansReset
<1>3. CASE Drop
  <2>1. alive' \subseteq Sessions /\ faults' \in 0..MaxFaults
    BY <1>3, ConstantsAssumption DEF Drop, Fault, Inv, TypeOK
  <2> QED
    BY <1>3, <2>1
    DEF Drop, Inv, TypeOK, LoggedOutWhenDone, AnswerInv, ResetInv, ResetOkMeansReset, Success,
      Checked
<1>4. CASE UNCHANGED vars
  BY <1>4
  DEF vars, Inv, TypeOK, LoggedOutWhenDone, AnswerInv, ResetInv, ResetOkMeansReset, Success,
      Checked
<1> QED
  BY <1>1, <1>2, <1>3, <1>4, CommandKeeps, LoginKeeps, ReturnKeeps DEF Next, ClientStep

-------------------------------------------------------------------------------
(* The client and the BMC keep their types (redfish_client.py, bmc_base.py). *)
THEOREM TypeCorrect == Spec => []TypeOK
<1>1. Inv => TypeOK
  BY DEF Inv
<1> QED
  BY <1>1, InitInv, StepKeeps, PTL DEF Spec

(* However its commands and logins fail, a wrapped call never leaves the     *)
(* client with a session (bmc_base.py:29-49).                                *)
THEOREM LoggedOut == Spec => []LoggedOutWhenDone
<1>1. Inv => LoggedOutWhenDone
  BY DEF Inv
<1> QED
  BY <1>1, InitInv, StepKeeps, PTL DEF Spec

(* reset_root_password does not claim a success it did not have, whatever    *)
(* answers are lost and sessions dropped (bmc_base.py:443-491).              *)
THEOREM ResetSound == Spec => []ResetOkMeansReset
<1>1. Inv => ResetOkMeansReset
  BY DEF Inv
<1> QED
  BY <1>1, InitInv, StepKeeps, PTL DEF Spec
-------------------------------------------------------------------------------
(* Sessions that the client leaves behind in the BMC are paid for by         *)
(* faults, one each, in every table and with every set of calls.             *)

Open == alive \ {session}

(* A client that has a session the BMC has dropped, or that is to drop it by *)
(* name; and a logout that was not carried out, or was taken up again with   *)
(* a new session: each has been paid for, although nothing is left behind.   *)
Doomed ==
    \/ session # None /\ session \notin alive /\ ~(cmd = "logout" /\ pc = "return")
    \/ session # None /\ target = session /\ pc # "idle" /\ cmd \in {"list", "delete"}
    \/ cmd = "logout" /\ pc \in {"relogin", "rerun"}
    \/ cmd = "logout" /\ pc = "return" /\ session \in alive

Paid == faults < MaxFaults =>
    /\ Cardinality(Open) <= faults
    /\ Doomed => Cardinality(Open) + 1 <= faults

(* The client is about to log in only without a session, and the session it  *)
(* logs out of is its own.                                                   *)
Courses ==
    /\ pc \in {"login", "relogin"} => session = None
    /\ pc = "rerun" => session # None /\ session # target
    /\ pc = "login" => cmd # "logout"
    /\ cmd = "logout" /\ pc = "command" => target = session

AccountInv == IsFiniteSet(alive) /\ Courses /\ Paid

-------------------------------------------------------------------------------
LEMMA Grown ==
    ASSUME NEW S, NEW T, NEW x, IsFiniteSet(S), T \subseteq S \cup {x}
    PROVE  /\ IsFiniteSet(T)
           /\ Cardinality(S) \in Nat /\ Cardinality(T) \in Nat
           /\ Cardinality(T) <= Cardinality(S) + 1
           /\ T \subseteq S => Cardinality(T) <= Cardinality(S)
<1>1. IsFiniteSet(S \cup {x}) /\ Cardinality(S \cup {x}) \in Nat /\ Cardinality(S) \in Nat
      /\ Cardinality(S \cup {x}) <= Cardinality(S) + 1
  BY FS_AddElement, FS_CardinalityType
<1>2. IsFiniteSet(T) /\ Cardinality(T) \in Nat /\ Cardinality(T) <= Cardinality(S \cup {x})
  BY <1>1, FS_Subset, FS_CardinalityType
<1>3. T \subseteq S => Cardinality(T) <= Cardinality(S)
  BY FS_Subset
<1> QED
  BY <1>1, <1>2, <1>3

(* The ways in which a step may leave sessions behind. *)
Quiet == faults' = faults /\ Open' \subseteq Open /\ (Doomed' => Doomed)
Faulty == Fault /\ Open' \subseteq Open
Lost == Fault /\ (\E s : Open' \subseteq Open \cup {s}) /\ (Doomed' => Doomed)
Due == faults' = faults /\ (\E s : Open' \subseteq Open \cup {s}) /\ Doomed /\ ~Doomed'

LEMMA StillPaid ==
    ASSUME IsFiniteSet(alive), Paid, faults \in 0..MaxFaults, Quiet \/ Faulty \/ Lost \/ Due
    PROVE  Paid'
<1> DEFINE n == Cardinality(Open)
           m == Cardinality(Open')
<1>1. PICK s : Open' \subseteq Open \cup {s}
  BY DEF Quiet, Faulty, Lost, Due
<1>2. IsFiniteSet(Open)
  BY FS_Subset DEF Open
<1>3. n \in Nat /\ m \in Nat /\ m <= n + 1 /\ (Open' \subseteq Open => m <= n)
  BY <1>1, <1>2, Grown
<1>4. SUFFICES ASSUME faults' < MaxFaults
               PROVE  m <= faults' /\ (Doomed' => m + 1 <= faults')
  BY DEF Paid
<1>5. MaxFaults \in Nat
  BY ConstantsAssumption
<1>6. Fault => faults' = faults + 1
  BY <1>4, <1>5 DEF Fault
<1>7. faults < MaxFaults
  BY <1>4, <1>5, <1>6 DEF Quiet, Faulty, Lost, Due
<1>8. n <= faults /\ (Doomed => n + 1 <= faults)
  BY <1>7 DEF Paid
<1> HIDE DEF n, m
<1> QED
  BY <1>3, <1>6, <1>8 DEF Quiet, Faulty, Lost, Due

LEMMA InitAccount == Init => AccountInv
BY FS_EmptySet, ConstantsAssumption DEF Init, AccountInv, Courses, Paid, Open, Doomed

LEMMA StepCourses == Inv /\ Courses /\ [Next]_vars => Courses'
<1> SUFFICES ASSUME Inv, Courses, [Next]_vars PROVE Courses'
  OBVIOUS
<1> USE DEF Courses
<1>1. ASSUME NEW a \in Apis, Call(a) PROVE Courses'
  BY <1>1 DEF Call, First
<1>2. CASE LoginGranted
  BY <1>2, ConstantsAssumption DEF LoginGranted, LoginStep, FreeSessions
<1>3. CASE LoginTimesOut \/ LoginFails
  BY <1>3 DEF LoginTimesOut, LoginFails, LoginStep
<1>4. CASE NotLogin \/ TimesOut \/ Answered \/ Unauthorized \/ Rerun
  BY <1>4 DEF NotLogin, TimesOut, Answered, Unauthorized, Rerun, CommandStep
<1>5. ASSUME NEW r, Finish(r), pc = "return" PROVE Courses'
  BY <1>5 DEF Finish
<1>6. ASSUME NEW c, c # "logout", Continue(c) PROVE Courses'
  BY <1>6 DEF Continue
<1>7. CASE \/ ReadReturns \/ ListReturns \/ DeleteReturns \/ GetMinReturns \/ SetMinReturns
           \/ ChangeReturns \/ RestoreReturns
  BY <1>5, <1>6, <1>7
  DEF ReadReturns, ListReturns, DeleteReturns, GetMinReturns, SetMinReturns, ChangeReturns,
      RestoreReturns, Returned
<1>8. CASE LogoutReturns
  BY <1>8 DEF LogoutReturns
<1>9. CASE Drop \/ UNCHANGED vars
  BY <1>9 DEF Drop, vars
<1> QED
  BY <1>1, <1>2, <1>3, <1>4, <1>7, <1>8, <1>9 DEF Next, ClientStep

LEMMA CommandPaid ==
    ASSUME Inv, Courses, NotLogin \/ TimesOut \/ Answered \/ Unauthorized \/ Rerun
    PROVE  alive' \subseteq alive /\ (Quiet \/ Faulty)
<1> USE DEF Open, Doomed, bmc, CommandStep
<1>1. CASE NotLogin
  BY <1>1, ConstantsAssumption DEF NotLogin, Quiet, Inv, TypeOK
<1>2. ASSUME Curl(cmd), TimesOut \/ Answered \/ Unauthorized \/ Rerun
      PROVE  alive' \subseteq alive /\ (Quiet \/ Faulty)
  <2>1. alive' \subseteq alive
    BY <1>2 DEF Curl, Execute, Ignore
  <2>2. session' = session \/ (session' = None /\ session \notin alive')
    BY <1>2 DEF TimesOut, Answered, Unauthorized, Rerun, Curl, Ignore
  <2>3. Open' \subseteq Open
    BY <2>1, <2>2
  <2>4. CASE Fault
    BY <2>1, <2>3, <2>4 DEF Faulty
  <2>5. ASSUME ~Fault PROVE Quiet
    <3>1. faults' = faults /\ reply' # "timeout"
      BY <1>2, <2>5 DEF Curl
    <3>2. CASE session \in alive /\ Allowed(cmd) /\ Execute(cmd) /\ reply' # "401"
      BY <1>2, <2>3, <3>1, <3>2
      DEF Quiet, TimesOut, Answered, Unauthorized, Rerun, Execute, Courses
    <3>3. CASE session \in alive /\ ~Allowed(cmd) /\ Ignore /\ reply' = "refused"
      BY <1>2, <2>3, <3>1, <3>3
      DEF Quiet, TimesOut, Answered, Unauthorized, Rerun, Ignore, Courses, Allowed
    <3>4. CASE session \notin alive /\ Ignore /\ reply' = "401"
      BY <1>2, <2>3, <3>1, <3>4
      DEF Quiet, TimesOut, Answered, Unauthorized, Rerun, Ignore, Courses
    <3> QED
      BY <1>2, <2>5, <3>2, <3>3, <3>4 DEF Curl, Patches
  <2> QED
    BY <2>1, <2>4, <2>5
<1> QED
  BY <1>1, <1>2 DEF TimesOut, Answered, Unauthorized, Rerun

LEMMA LoginPaid ==
    ASSUME Inv, Courses, LoginGranted \/ LoginTimesOut \/ LoginFails
    PROVE  (\E s : alive' \subseteq alive \cup {s}) /\ (Quiet \/ Lost)
<1> USE ConstantsAssumption DEF Open, Doomed, LoginStep, Courses, FreeSessions, Inv, TypeOK
<1>1. CASE LoginGranted
  <2>1. PICK s \in FreeSessions : session' = s /\ alive' = alive \cup {s}
    BY <1>1 DEF LoginGranted
  <2>2. session = None /\ Open = alive /\ Open' = alive
    BY <1>1, <2>1 DEF LoginGranted
  <2>3. Doomed' => Doomed
    BY <1>1, <2>1, <2>2 DEF LoginGranted
  <2> QED
    BY <1>1, <2>1, <2>2, <2>3 DEF Quiet, LoginGranted
<1>2. CASE LoginTimesOut \/ LoginFails
  <2>1. \E s : alive' \subseteq alive \cup {s}
    BY <1>2 DEF LoginTimesOut, LoginFails, MakeSession
  <2>2. session = None /\ session' = None /\ Open = alive /\ Open' = alive'
    BY <1>2 DEF LoginTimesOut, LoginFails, MakeSession
  <2>3. Doomed' => Doomed
    BY <1>2, <2>2 DEF LoginTimesOut, LoginFails, MakeSession
  <2>4. Fault \/ (alive' = alive /\ faults' = faults)
    BY <1>2 DEF LoginTimesOut, LoginFails
  <2> QED
    BY <2>1, <2>2, <2>3, <2>4 DEF Quiet, Lost
<1> QED
  BY <1>1, <1>2

LEMMA ReturnPaid ==
    ASSUME Inv, Courses,
           \/ ReadReturns \/ ListReturns \/ DeleteReturns \/ GetMinReturns \/ SetMinReturns
           \/ ChangeReturns \/ RestoreReturns
    PROVE  alive' = alive /\ Quiet
<1> USE DEF Open, Doomed, bmc, Returned
<1>1. ASSUME NEW r, Finish(r), pc = "return", cmd # "logout" PROVE alive' = alive /\ Quiet
  BY <1>1 DEF Finish, Quiet
<1>2. ASSUME NEW c, c \notin {"list", "logout"}, c = "delete" => cmd = "list",
             Continue(c), pc = "return", cmd # "logout"
      PROVE  alive' = alive /\ Quiet
  BY <1>2 DEF Continue, Quiet
<1> QED
  BY <1>1, <1>2
  DEF ReadReturns, ListReturns, DeleteReturns, GetMinReturns, SetMinReturns, ChangeReturns,
      RestoreReturns

LEMMA StepAccount == Inv /\ AccountInv /\ [Next]_vars => AccountInv'
<1> SUFFICES ASSUME Inv, AccountInv, [Next]_vars PROVE AccountInv'
  OBVIOUS
<1>1. SUFFICES (\E s : alive' \subseteq alive \cup {s}) /\ (Quiet \/ Faulty \/ Lost \/ Due)
  BY StillPaid, StepCourses, Grown DEF AccountInv, Inv, TypeOK
<1> USE DEF AccountInv
<1>2. ASSUME NEW a \in Apis, Call(a) PROVE alive' = alive /\ (Quiet \/ Faulty)
  <2>1. alive' = alive /\ Open' = Open /\ pc = "idle"
    BY <1>2 DEF Call, bmc, Open
  <2>2. (Doomed' => Doomed) \/ (a = "close" /\ target' = session)
    BY <1>2, <2>1 DEF Call, First, Doomed
  <2> QED
    BY <1>2, <2>1, <2>2 DEF Call, Quiet, Faulty
<1>3. CASE LogoutReturns
  <2>1. alive' = alive /\ faults' = faults /\ ~Doomed' /\ Open' \subseteq Open \cup {session}
    BY <1>3, ConstantsAssumption DEF LogoutReturns, bmc, Open, Doomed
  <2>2. CASE session \in alive
    BY <1>3, <2>1, <2>2 DEF LogoutReturns, Returned, Doomed, Due
  <2>3. CASE session \notin alive
    BY <1>3, <2>1, <2>3 DEF Open, Quiet
  <2> QED
    BY <2>1, <2>2, <2>3
<1>4. CASE Drop
  BY <1>4 DEF Drop, Faulty, Open
<1>5. CASE UNCHANGED vars
  BY <1>5 DEF vars, bmc, Quiet, Open, Doomed
<1> QED
  BY <1>2, <1>3, <1>4, <1>5, CommandPaid, LoginPaid, ReturnPaid DEF Next, ClientStep

-------------------------------------------------------------------------------
(* However answers are lost, sessions dropped and commands repeated, the BMC *)
(* holds at most one forgotten session per fault (redfish_client.py:865-920, *)
(* 1091-1106).                                                               *)
THEOREM Accounted == Spec => []SessionsAccounted
<1>1. AccountInv => SessionsAccounted
  BY DEF AccountInv, Paid, Open, SessionsAccounted
<1> QED
  BY <1>1, InitInv, StepKeeps, InitAccount, StepAccount, PTL DEF Spec
===============================================================================
