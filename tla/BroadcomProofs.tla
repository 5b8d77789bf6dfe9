---------------------------- MODULE BroadcomProofs ----------------------------
(***************************************************************************)
(* Proofs about the Broadcom driver, beside those about its firmware.      *)
(* First the configuration calls: all calls of all families, whatever the  *)
(* cable answers.  The invariant says of the running call which end of its *)
(* program is left and what the commands behind it have set or learnt; a   *)
(* setting that is promised is still to be made or holds.                  *)
(* Then the handshakes, for any number of threads and polls: the command   *)
(* mailbox, the mux and the sideband registers.  Each part has its         *)
(* inductive invariant; at the end they are put together for the whole     *)
(* driver, with those of the firmware.                                     *)
(***************************************************************************)
EXTENDS BcmFirmwareProofs

-------------------------------------------------------------------------------
(* The inductive invariant.                                                  *)

(* The commands that a program of a family may have, and the registers that one *)
(* may touch.                                                                    *)
Keys(c) == IF c.at \in Port!Targets THEN {<<c.what, e>> : e \in Port!Ends} ELSE {<<c.what, c.at>>}
AllRegisters == UNION {Port!Registers(f) : f \in Port!Families}
Names == {r[1] : r \in AllRegisters}
Places == Port!Targets \cup {r[2] : r \in AllRegisters}
AnyCommand ==
    [kind : {"set", "get", "take", "learn", "mode"}, what : Names, at : Places, val : 0..3,
     goOn : SUBSET (-1..3), fails : {"stop", "note", "ignore"}]
Commands(f) ==
    {c \in AnyCommand :
        /\ Keys(c) \subseteq Port!Registers(f)
        /\ c.kind = "mode" => c.what = "mode"
        /\ c.kind = "learn" => c.what \in {"mode", "anlt"}
        /\ c.what = "anlt" => c.val \in {0, 1} /\ c.kind \in {"set", "get", "learn"}}

Arguments ==
    [at : Places, val : 0..3] \cup [fec : {0, 1}]
        \cup [speed : {50, 100}, fec : {0, 1}, tor : {0, 1}, nic : {0, 1}]
Befores == {<<>>} \cup [Port!Registers("port") -> 0..3]
Apis == {p.api : p \in UNION {Port!Calls(f) : f \in Port!Families}} \cup {"none", "set_fec_mode by create_port"}
CallsOf(f) ==
    [running : BOOLEAN, api : Apis, arg : Arguments, todo : Seq(Commands(f)), ok : BOOLEAN,
     got : Seq(-1..3), sided : BOOLEAN, sure : BOOLEAN, alone : BOOLEAN, before : Befores]
Attributes == [speed : {50, 100}, fec : {0, 1}, anlt_tor : 0..3, anlt_nic : 0..3, mode : 0..3]

Typed ==
    /\ host \in Port!Ends /\ family \in Port!Families
    /\ reg \in [Port!Registers(family) -> 0..3]
    /\ \A e \in Port!Ends : <<"anlt", e>> \in Port!Registers(family) => reg[<<"anlt", e>>] \in {0, 1}
    /\ matched \in Attributes
    /\ call \in CallsOf(family)
    /\ call.todo # <<>> => call.running
    /\ call.sure => call.ok

Shared == {"create_port", "set_fec_mode", "set_fec_mode by create_port"}
Promising == {"enable_prbs_mode", "disable_prbs_mode", "disable_loopback_mode", "cable_set_squelch",
              "set_target_cursor_values", "set_anlt"}

(* Only set_fec_mode learns. *)
Learners ==
    /\ call.api \in Shared => family = "port"
    /\ \A i \in 1..Len(call.todo) : call.todo[i].kind = "learn" => call.api = "set_fec_mode"

(* A setting that is promised is still to be made or holds, if all went well. *)
Promised ==
    call.api \in Promising =>
        /\ call.arg.at \in Port!Targets
        /\ \A p \in Port!Promise :
              /\ <<p[1], "nic">> \in Port!Registers(family)
              /\ \A i \in 1..Len(call.todo) :
                    /\ call.todo[i].kind = "set" /\ call.todo[i].at = call.arg.at /\ call.todo[i].fails = "stop"
                    /\ call.todo[i].what = p[1] => call.todo[i].val = p[2]
              /\ \/ \E i \in 1..Len(call.todo) : call.todo[i].what = p[1]
                 \/ call.ok /\ call.sided => reg[<<p[1], Port!Meant(call.arg.at)>>] = p[2]

(* The end of a program is left. *)
Suffix(s, whole) ==
    /\ Len(s) <= Len(whole)
    /\ \A i \in 1..Len(s) : s[i] = whole[Len(whole) - Len(s) + i]

(* create_port, by itself or for set_fec_mode: what has been done. *)
Configured(tor, nic) ==
    /\ tor \in {0, 1} /\ nic \in {0, 1}
    /\ Suffix(call.todo, Port!PortCommands(tor, nic))
    /\ LET n == Len(call.todo) IN
       /\ n <= 2 /\ call.ok /\ call.sided => reg[<<"anlt", "nic">>] = nic
       /\ n <= 1 /\ call.ok /\ call.sided => reg[<<"anlt", "a">>] = tor
       /\ n = 0 /\ call.sure /\ call.sided => reg[<<"anlt", "b">>] = tor
       /\ n <= 3 /\ call.sure /\ call.alone => reg[<<"mode", "all">>] = matched.mode

Created == call.api = "create_port" => Configured(call.arg.tor, call.arg.nic)

(* set_fec_mode: what it has learnt of the port as it was. *)
SpeedOf(mode) == IF mode < 2 THEN 100 ELSE 50
FecProgram(f) ==
    <<Port!Only(Port!Learning(Port!cable_get_mode), IF f = 1 THEN {1, 3} ELSE {0, 2}),
      Port!Ignoring(Port!Learning(Port!Get("anlt", "nic"))),
      Port!Ignoring(Port!Learning(Port!Get("anlt", "a"))), Port!Ignoring(Port!Learning(Port!Get("anlt", "b")))>>
Faithful == call.sure /\ call.sided /\ call.alone
Learns ==
    call.api = "set_fec_mode" =>
        /\ call.arg.fec \in {0, 1} /\ call.before \in [Port!Registers("port") -> 0..3]
        /\ \A e \in Port!Ends : call.before[<<"anlt", e>>] \in {0, 1}
        /\ call.running =>
              /\ Suffix(call.todo, FecProgram(call.arg.fec))
              /\ reg = call.before
              /\ LET n == Len(call.todo) IN
                 Faithful =>
                    /\ n <= 3 => matched.fec = call.arg.fec
                                 /\ matched.speed = SpeedOf(call.before[<<"mode", "all">>])
                    /\ n <= 2 => matched.anlt_nic = call.before[<<"anlt", "nic">>]
                    /\ n = 0 => matched.anlt_tor = call.before[<<"anlt", "b">>]

Recreated ==
    call.api = "set_fec_mode by create_port" =>
        /\ call.arg.fec \in {0, 1} /\ call.before \in [Port!Registers("port") -> 0..3]
        /\ \A e \in Port!Ends : call.before[<<"anlt", e>>] \in {0, 1}
        /\ \E tor \in {0, 1}, nic \in {0, 1} :
              /\ Configured(tor, nic)
              /\ Faithful => /\ nic = call.before[<<"anlt", "nic">>] /\ tor = call.before[<<"anlt", "b">>]
                             /\ matched = Port!Entry(SpeedOf(call.before[<<"mode", "all">>]), call.arg.fec)

PortInv == Typed /\ Learners /\ Promised /\ Created /\ Learns /\ Recreated

-------------------------------------------------------------------------------
(* The programs of the calls.                                                *)

(* Those that are not read to be learnt. *)
Simple(f) == {c \in Commands(f) : c.kind # "learn"}

(* A command to a place that the family has is one of its commands. *)
LEMMA StepFits ==
    ASSUME NEW f \in Port!Families, NEW kind \in {"set", "get", "take"}, NEW what, NEW at, NEW val \in 0..3,
           what # "anlt",
           at \in Port!Targets => {what} \X Port!Ends \subseteq Port!Registers(f),
           at \notin Port!Targets => <<what, at>> \in Port!Registers(f)
    PROVE  Port!Step(kind, what, at, val) \in Simple(f)
<1> DEFINE c == Port!Step(kind, what, at, val)
<1>1. c.kind = kind /\ c.what = what /\ c.at = at /\ c.val = val
  BY DEF Port!Step
<1>2. what \in Names /\ at \in Places
  <2>1. CASE at \in Port!Targets
    <3>1. <<what, "nic">> \in AllRegisters /\ <<what, "nic">>[1] = what
      BY <2>1 DEF Port!Ends, AllRegisters
    <3> QED BY <2>1, <3>1 DEF Names, Places
  <2>2. CASE at \notin Port!Targets
    <3>1. <<what, at>> \in AllRegisters /\ <<what, at>>[1] = what /\ <<what, at>>[2] = at
      BY <2>2 DEF AllRegisters
    <3> QED BY <3>1 DEF Names, Places
  <2> QED BY <2>1, <2>2
<1>3. c \in AnyCommand
  BY <1>2 DEF Port!Step, AnyCommand
<1> HIDE DEF c
<1>4. Keys(c) \subseteq Port!Registers(f)
  BY <1>1 DEF Keys
<1>5. c \in Simple(f)
  BY <1>1, <1>3, <1>4 DEF Simple, Commands
<1> QED BY <1>5 DEF c

(* A program that nothing is promised of.                                    *)
Plain(f, p) ==
    /\ p.api \notin Shared \cup Promising
    /\ p.arg \in Arguments /\ p.todo \in Seq(Commands(f)) /\ p.todo # <<>>
    /\ \A i \in 1..Len(p.todo) : p.todo[i].kind # "learn"

(* A call of one command that nothing is promised of. *)
LEMMA OnePlain ==
    ASSUME NEW f \in Port!Families, NEW c \in Simple(f), NEW api, api \notin Shared \cup Promising
    PROVE  Plain(f, Port!One(api, c))
<1>1. c.at \in Places /\ c.val \in 0..3
  BY DEF Simple, Commands, AnyCommand
<1>2. Port!One(api, c) = [api |-> api, arg |-> [at |-> c.at, val |-> c.val], todo |-> <<c>>]
  BY DEF Port!One, Port!Program
<1>3. [at |-> c.at, val |-> c.val] \in Arguments
  BY <1>1 DEF Arguments
<1>4. <<c>> \in Seq(Commands(f)) /\ <<c>> # <<>> /\ \A i \in 1..Len(<<c>>) : <<c>>[i].kind # "learn"
  BY DEF Simple
<1> QED BY <1>2, <1>3, <1>4 DEF Plain

(* Commands to the cable as a whole, *)
LEMMA PlaceFits ==
    ASSUME NEW f \in Port!Families, NEW what, NEW at, at \notin Port!Targets, NEW val \in 0..3, what # "anlt",
           <<what, at>> \in Port!Registers(f)
    PROVE  {Port!Set(what, at, val), Port!Get(what, at), Port!Take(what, at)} \subseteq Simple(f)
BY StepFits DEF Port!Set, Port!Get, Port!Take

(* to one of its ends, *)
LEMMA EndFits ==
    ASSUME NEW f \in Port!Families, NEW what, NEW at \in Port!Targets, NEW val \in 0..3, what # "anlt",
           {what} \X Port!Ends \subseteq Port!Registers(f)
    PROVE  {Port!Set(what, at, val), Port!Get(what, at), Port!Take(what, at)} \subseteq Simple(f)
<1>1. at \in Port!Targets => {what} \X Port!Ends \subseteq Port!Registers(f)
  OBVIOUS
<1>2. at \notin Port!Targets => <<what, at>> \in Port!Registers(f)
  OBVIOUS
<1>3. \A k \in {"set", "get", "take"}, v \in 0..3 : Port!Step(k, what, at, v) \in Simple(f)
  BY ONLY StepFits, <1>1, <1>2, f \in Port!Families, what # "anlt"
<1> QED BY <1>3 DEF Port!Set, Port!Get, Port!Take

(* and for auto-negotiation. *)
LEMMA AnltFits ==
    ASSUME NEW f \in {"anlt", "port"}, NEW at \in Port!Targets, NEW val \in {0, 1}
    PROVE  /\ {Port!Set("anlt", at, val), Port!Get("anlt", at)} \subseteq Simple(f)
           /\ Port!Learning(Port!Get("anlt", at)) \in Commands(f)
<1>1. f \in Port!Families /\ \A e \in Port!Ends : <<"anlt", e>> \in Port!Registers(f)
  BY DEF Port!Families, Port!Registers
<1>2. "anlt" \in Names /\ at \in Places
  <2>1. <<"anlt", "nic">> \in AllRegisters /\ <<"anlt", "nic">>[1] = "anlt"
    BY <1>1 DEF Port!Ends, AllRegisters
  <2> QED BY <2>1 DEF Names, Places
<1>3. ASSUME NEW k \in {"set", "get", "learn"}, NEW v \in {0, 1}
      PROVE  [kind |-> k, what |-> "anlt", at |-> at, val |-> v, goOn |-> -1..3,
            fails |-> "stop"] \in Commands(f)
  <2> DEFINE c == [kind |-> k, what |-> "anlt", at |-> at, val |-> v, goOn |-> -1..3, fails |-> "stop"]
  <2>1. c \in AnyCommand /\ c.what = "anlt" /\ c.at = at /\ c.kind = k /\ c.val = v
    BY <1>2 DEF AnyCommand
  <2> HIDE DEF c
  <2>2. Keys(c) \subseteq Port!Registers(f)
    BY <1>1, <2>1 DEF Keys
  <2>3. c \in Commands(f)
    BY <2>1, <2>2 DEF Commands
  <2> QED BY <2>3 DEF c
<1> QED BY <1>3 DEF Simple, Port!Set, Port!Get, Port!Step, Port!Learning

(* What a failure or a value does to the program leaves the command as it is. *)
LEMMA SimpleKept ==
    ASSUME NEW f, NEW c \in Simple(f), NEW vs \in SUBSET (-1..3)
    PROVE  Port!Only(c, vs) \in Simple(f) /\ Port!Ignoring(c) \in Simple(f) /\ Port!Noting(c) \in Simple(f)
BY DEF Simple, Commands, AnyCommand, Keys, Port!Only, Port!Ignoring, Port!Noting

(* A call of several commands that nothing is promised of. *)
LEMMA ListPlain ==
    ASSUME NEW f, NEW api, api \notin Shared \cup Promising, NEW given \in Arguments,
           NEW todo \in Seq(Simple(f)), todo # <<>>
    PROVE  Plain(f, Port!Program(api, given, todo))
<1> DEFINE p == Port!Program(api, given, todo)
<1>1. p.api = api /\ p.arg = given /\ p.todo = todo
  BY DEF Port!Program
<1>2. \A i \in 1..Len(todo) : todo[i] \in Simple(f)
  BY ElementOfSeq
<1>3. todo \in Seq(Commands(f))
  <2>1. todo = [i \in 1..Len(todo) |-> todo[i]] /\ Len(todo) \in Nat
    BY SeqDef
  <2>2. \A i \in 1..Len(todo) : todo[i] \in Commands(f)
    BY <1>2 DEF Simple
  <2> QED BY <2>1, <2>2
<1> HIDE DEF p
<1>4. Plain(f, p)
  BY <1>1, <1>2, <1>3 DEF Plain, Simple
<1> QED BY <1>4 DEF p

(* The calls of each family: switching, *)
LEMMA SwitchingCalls == ASSUME NEW p \in Port!Calls("switching") PROVE Plain("switching", p)
<1> DEFINE f == "switching"
           apis == {"set_switching_mode", "get_switching_mode", "set_autoswitch_hysteresis_timer",
                 "get_autoswitch_hysteresis_timer"}
<1>1. f \in Port!Families /\ <<"hmux", "all">> \in Port!Registers(f)
  BY DEF Port!Registers, Port!Families
<1>2. \A v \in 0..3 :
      /\ {Port!Set("hmux", "all", v), Port!Get("hmux", "all"), Port!Take("hmux", "all")} \subseteq Simple(f)
  BY <1>1, PlaceFits DEF Port!Targets, Port!Ends
<1>3. \A api \in apis : api \notin Shared \cup Promising
  BY DEF Shared, Promising
<1> HIDE DEF f
<1>4. \A api \in apis, c \in Simple(f) : Plain(f, Port!One(api, c))
  BY <1>1, <1>3, OnePlain
<1>5. \A api \in apis, v \in 0..3 :
      /\ Plain(f, Port!One(api, Port!Set("hmux", "all", v))) /\ Plain(f, Port!One(api, Port!Get("hmux", "all")))
      /\ Plain(f, Port!One(api, Port!Take("hmux", "all")))
  BY <1>2, <1>4
<1>6. \A q \in Port!set_switching_mode \cup Port!get_switching_mode \cup Port!set_autoswitch_hysteresis_timer
      \cup Port!get_autoswitch_hysteresis_timer : Plain(f, q)
  BY ONLY <1>5 DEF Port!set_switching_mode, Port!get_switching_mode, Port!set_autoswitch_hysteresis_timer,
     Port!get_autoswitch_hysteresis_timer
<1> QED BY <1>6 DEF Port!Calls, f

(* counters, *)
LEMMA CountsCalls == ASSUME NEW p \in Port!Calls("counts") PROVE Plain("counts", p)
<1> DEFINE f == "counts"
           apis == {"get_switch_count_total", "get_switch_count_tor_a", "get_switch_count_tor_b",
                 "get_switch_count_target"}
<1>1. f \in Port!Families /\ <<"count", "all">> \in Port!Registers(f)
  BY DEF Port!Registers, Port!Families
<1>2. \A v \in 0..3 :
      /\ {Port!Set("count", "all", v), Port!Get("count", "all"), Port!Take("count", "all")} \subseteq Simple(f)
  BY <1>1, PlaceFits DEF Port!Targets, Port!Ends
<1>3. \A api \in apis : api \notin Shared \cup Promising
  BY DEF Shared, Promising
<1> HIDE DEF f
<1>4. \A api \in apis, c \in Simple(f) : Plain(f, Port!One(api, c))
  BY <1>1, <1>3, OnePlain
<1>5. \A api \in apis, v \in 0..3 :
      /\ Plain(f, Port!One(api, Port!Set("count", "all", v)))
          /\ Plain(f, Port!One(api, Port!Get("count", "all")))
      /\ Plain(f, Port!One(api, Port!Take("count", "all")))
  BY <1>2, <1>4
<1>6. \A q \in Port!get_switch_count_total \cup Port!get_switch_count_tor_a \cup Port!get_switch_count_tor_b
      \cup Port!get_switch_count_target : Plain(f, q)
  BY ONLY <1>5 DEF Port!get_switch_count_total, Port!get_switch_count_tor_a, Port!get_switch_count_tor_b,
     Port!get_switch_count_target, Port!util_get_switch_count
<1> QED BY <1>6 DEF Port!Calls, f

(* the chip, *)
LEMMA ChipCalls == ASSUME NEW p \in Port!Calls("chip") PROVE Plain("chip", p)
<1> DEFINE f == "chip"
           apis == {"set_debug_mode", "get_debug_mode", "rd_reg_ex", "wr_reg_ex",
                 "cable_set_enadis_phy_chip_idle_loop", "cable_enable_disable_watchdog_nic",
                       "enable_disable_watchdog_tor"}
<1>1. f \in Port!Families /\ <<"debug", "all">> \in Port!Registers(f)
      /\ <<"word", "all">> \in Port!Registers(f) /\ <<"idle", "all">> \in Port!Registers(f)
          /\ <<"watchdog", "all">> \in Port!Registers(f)
  BY DEF Port!Registers, Port!Families
<1>2. \A v \in 0..3 :
      /\ {Port!Set("debug", "all", v), Port!Get("debug", "all"), Port!Take("debug", "all")} \subseteq Simple(f)
      /\ {Port!Set("word", "all", v), Port!Get("word", "all"), Port!Take("word", "all")} \subseteq Simple(f)
      /\ {Port!Set("idle", "all", v), Port!Get("idle", "all"), Port!Take("idle", "all")} \subseteq Simple(f)
      /\ {Port!Set("watchdog", "all", v), Port!Get("watchdog", "all"),
          Port!Take("watchdog", "all")} \subseteq Simple(f)
  BY <1>1, PlaceFits DEF Port!Targets, Port!Ends
<1>3. \A api \in apis : api \notin Shared \cup Promising
  BY DEF Shared, Promising
<1> HIDE DEF f
<1>4. \A api \in apis, c \in Simple(f) : Plain(f, Port!One(api, c))
  BY <1>1, <1>3, OnePlain
<1>5. \A api \in apis, v \in 0..3 :
      /\ Plain(f, Port!One(api, Port!Set("debug", "all", v)))
          /\ Plain(f, Port!One(api, Port!Get("debug", "all")))
      /\ Plain(f, Port!One(api, Port!Take("debug", "all")))
      /\ Plain(f, Port!One(api, Port!Set("word", "all", v))) /\ Plain(f, Port!One(api, Port!Get("word", "all")))
      /\ Plain(f, Port!One(api, Port!Take("word", "all")))
      /\ Plain(f, Port!One(api, Port!Set("idle", "all", v))) /\ Plain(f, Port!One(api, Port!Get("idle", "all")))
      /\ Plain(f, Port!One(api, Port!Take("idle", "all")))
      /\ Plain(f, Port!One(api, Port!Set("watchdog", "all", v)))
          /\ Plain(f, Port!One(api, Port!Get("watchdog", "all")))
      /\ Plain(f, Port!One(api, Port!Take("watchdog", "all")))
  BY <1>2, <1>4
<1>6. \A q \in Port!set_debug_mode \cup Port!get_debug_mode \cup Port!rd_reg_ex \cup Port!wr_reg_ex
      \cup Port!cable_set_enadis_phy_chip_idle_loop \cup Port!cable_enable_disable_watchdog_nic
            \cup Port!enable_disable_watchdog_tor : Plain(f, q)
  BY ONLY <1>5 DEF Port!set_debug_mode, Port!get_debug_mode, Port!rd_reg_ex, Port!wr_reg_ex,
     Port!cable_set_enadis_phy_chip_idle_loop, Port!cable_enable_disable_watchdog_nic,
     Port!enable_disable_watchdog_tor
<1> QED BY <1>6 DEF Port!Calls, f

(* readings, *)
LEMMA ReadingsCalls == ASSUME NEW p \in Port!Calls("readings") PROVE Plain("readings", p)
<1> DEFINE f == "readings"
           apis == {"get_alive_status", "get_part_number", "get_serial_number", "get_date_code", "get_vendor",
                 "get_local_temperature", "get_local_voltage", "get_nic_temperature"}
<1>1. f \in Port!Families /\ <<"alive", "all">> \in Port!Registers(f)
      /\ <<"identity", "all">> \in Port!Registers(f) /\ <<"monitor", "all">> \in Port!Registers(f)
  BY DEF Port!Registers, Port!Families
<1>2. \A v \in 0..3 :
      /\ {Port!Set("alive", "all", v), Port!Get("alive", "all"), Port!Take("alive", "all")} \subseteq Simple(f)
      /\ {Port!Set("identity", "all", v), Port!Get("identity", "all"),
          Port!Take("identity", "all")} \subseteq Simple(f)
      /\ {Port!Set("monitor", "all", v), Port!Get("monitor", "all"),
          Port!Take("monitor", "all")} \subseteq Simple(f)
  BY <1>1, PlaceFits DEF Port!Targets, Port!Ends
<1>3. \A api \in apis : api \notin Shared \cup Promising
  BY DEF Shared, Promising
<1> HIDE DEF f
<1>4. \A api \in apis, c \in Simple(f) : Plain(f, Port!One(api, c))
  BY <1>1, <1>3, OnePlain
<1>5. \A api \in apis, v \in 0..3 :
      /\ Plain(f, Port!One(api, Port!Set("alive", "all", v)))
          /\ Plain(f, Port!One(api, Port!Get("alive", "all")))
      /\ Plain(f, Port!One(api, Port!Take("alive", "all")))
      /\ Plain(f, Port!One(api, Port!Set("identity", "all", v)))
          /\ Plain(f, Port!One(api, Port!Get("identity", "all")))
      /\ Plain(f, Port!One(api, Port!Take("identity", "all")))
      /\ Plain(f, Port!One(api, Port!Set("monitor", "all", v)))
          /\ Plain(f, Port!One(api, Port!Get("monitor", "all")))
      /\ Plain(f, Port!One(api, Port!Take("monitor", "all")))
  BY <1>2, <1>4
<1>6. \A q \in Port!get_alive_status \cup Port!get_part_number \cup Port!get_serial_number
      \cup Port!get_date_code \cup Port!get_vendor \cup Port!get_local_temperature \cup Port!get_local_voltage
            \cup Port!get_nic_temperature : Plain(f, q)
  BY ONLY <1>5 DEF Port!get_alive_status, Port!get_part_number, Port!get_serial_number, Port!get_date_code,
     Port!get_vendor, Port!get_local_temperature, Port!get_local_voltage, Port!get_nic_temperature
<1> QED BY <1>6 DEF Port!Calls, f

(* interrupts, *)
LEMMA InterruptsCalls == ASSUME NEW p \in Port!Calls("interrupts") PROVE Plain("interrupts", p)
<1> DEFINE f == "interrupts"
           apis == {"cable_get_intr_status", "cable_get_intr_mask", "cable_set_intr_mask",
                    "cable_check_intr_active_status"}
           given(v) == [at |-> "all", val |-> v]
<1>1. /\ f \in Port!Families /\ <<"active", "all">> \in Port!Registers(f)
      /\ \A m \in Port!Masks : <<"mask", m>> \in Port!Registers(f)
      /\ \A m \in Port!Flags : <<"flag", m>> \in Port!Registers(f)
  BY DEF Port!Registers, Port!Families
<1>2. \A m \in Port!Masks, v \in 0..3 : {Port!Set("mask", m, v), Port!Get("mask", m)} \subseteq Simple(f)
  BY <1>1, PlaceFits DEF Port!Targets, Port!Ends, Port!Masks
<1>3. \A m \in Port!Flags, v \in 0..3 : {Port!Set("flag", m, v), Port!Take("flag", m)} \subseteq Simple(f)
  BY <1>1, PlaceFits DEF Port!Targets, Port!Ends, Port!Flags
<1>4. Port!Get("active", "all") \in Simple(f)
  BY <1>1, PlaceFits DEF Port!Targets, Port!Ends
<1>5. \A v \in 0..3 : given(v) \in Arguments
  <2>1. <<"active", "all">> \in AllRegisters /\ <<"active", "all">>[2] = "all"
    BY <1>1 DEF AllRegisters
  <2> QED BY <2>1 DEF Arguments, Places
<1>6. \A api \in apis : api \notin Shared \cup Promising
  BY DEF Shared, Promising
<1> HIDE DEF f
<1>7. \A q \in Port!cable_get_intr_status : Plain(f, q)
  <2> DEFINE s == <<Port!Take("flag", "cdr"), Port!Take("flag", "loss"), Port!Take("flag", "temp")>>
  <2>1. s \in Seq(Simple(f)) /\ s # <<>>
    <3>1. 0 \in 0..3 /\ {"cdr", "loss", "temp"} = Port!Flags
      BY DEF Port!Flags
    <3> QED BY <1>3, <3>1
  <2> HIDE DEF s
  <2>2. Plain(f, Port!Program("cable_get_intr_status", given(0), s))
    BY <1>5, <1>6, <2>1, ListPlain
  <2> QED BY <2>2 DEF Port!cable_get_intr_status, s
<1>8. \A q \in Port!cable_get_intr_mask : Plain(f, q)
  <2> DEFINE s == <<Port!Get("mask", "cdr"), Port!Get("mask", "second"), Port!Get("mask", "loss"),
        Port!Get("mask", "chip"),
                    Port!Get("mask", "updown"), Port!Get("mask", "fault"), Port!Get("mask", "bip")>>
  <2>1. s \in Seq(Simple(f)) /\ s # <<>>
    BY <1>2 DEF Port!Masks
  <2> HIDE DEF s
  <2>2. Plain(f, Port!Program("cable_get_intr_mask", given(0), s))
    BY <1>5, <1>6, <2>1, ListPlain
  <2> QED BY <2>2 DEF Port!cable_get_intr_mask, s
<1>9. \A q \in Port!cable_set_intr_mask : Plain(f, q)
  <2> DEFINE all(v) == <<Port!Set("mask", "cdr", v), Port!Set("mask", "second", v), Port!Set("mask", "loss", v),
                         Port!Set("mask", "chip", v), Port!Set("mask", "fault", v),
                               Port!Set("mask", "updown", v),
                         Port!Set("mask", "bip", v)>>
  <2> SUFFICES ASSUME NEW v \in {0, 1} PROVE Plain(f, Port!Program("cable_set_intr_mask", given(v), all(v)))
    BY DEF Port!cable_set_intr_mask
  <2> DEFINE s == all(v)
  <2>1. s \in Seq(Simple(f)) /\ s # <<>>
    BY <1>2 DEF Port!Masks
  <2> HIDE DEF s
  <2>2. Plain(f, Port!Program("cable_set_intr_mask", given(v), s))
    BY <1>5, <1>6, <2>1, ListPlain
  <2> QED BY <2>2 DEF s
<1>10. \A q \in Port!cable_check_intr_active_status : Plain(f, q)
  BY <1>1, <1>4, <1>6, OnePlain DEF Port!cable_check_intr_active_status
<1> QED BY <1>7, <1>8, <1>9, <1>10 DEF Port!Calls, f

(* logs and dumps, *)
LEMMA LogsCalls == ASSUME NEW p \in Port!Calls("logs") PROVE Plain("logs", p)
<1> DEFINE f == "logs"
           apis == {"cable_read_nic_mcu_ram", "cable_clear_nic_mcu_dump", "cable_print_nic_mcu_dump",
                 "get_event_log"}
           given == [at |-> "all", val |-> 0]
<1>1. f \in Port!Families /\ <<"crash", "all">> \in Port!Registers(f) /\ <<"log", "all">> \in Port!Registers(f)
  BY DEF Port!Registers, Port!Families
<1>2. {Port!Set("crash", "all", 0), Port!Get("crash", "all"), Port!Get("log", "all")} \subseteq Simple(f)
  BY <1>1, PlaceFits DEF Port!Targets, Port!Ends
<1>3. given \in Arguments
  <2>1. <<"log", "all">> \in AllRegisters /\ <<"log", "all">>[2] = "all"
    BY <1>1 DEF AllRegisters
  <2> QED BY <2>1 DEF Arguments, Places
<1>4. \A api \in apis : api \notin Shared \cup Promising
  BY DEF Shared, Promising
<1> HIDE DEF f, given
<1>5. \A api \in apis, c \in Simple(f) : Plain(f, Port!One(api, c))
  BY <1>1, <1>4, OnePlain
<1>6. \A q \in Port!cable_read_nic_mcu_ram \cup Port!cable_clear_nic_mcu_dump : Plain(f, q)
  BY <1>2, <1>5 DEF Port!cable_read_nic_mcu_ram, Port!cable_clear_nic_mcu_dump
<1>7. \A q \in Port!cable_print_nic_mcu_dump : Plain(f, q)
  <2> DEFINE a == <<Port!Only(Port!Get("crash", "all"), {1})>>
             b == [i \in 1..(Port!DumpWords - 1) |-> Port!Get("crash", "all")]
  <2>1. a \in Seq(Simple(f)) /\ a # <<>>
    BY <1>2, SimpleKept
  <2>2. b \in Seq(Simple(f))
    BY <1>2, IsASeq DEF Port!DumpWords
  <2> HIDE DEF a, b
  <2>3. a \o b \in Seq(Simple(f)) /\ a \o b # <<>>
    BY <2>1, <2>2, ConcatProperties, ConcatEqualIffEmpty, EmptySeq
  <2>4. Plain(f, Port!Program("cable_print_nic_mcu_dump", given, a \o b))
    BY <1>3, <1>4, <2>3, ListPlain
  <2> QED BY <2>4 DEF Port!cable_print_nic_mcu_dump, a, b, given
<1>8. \A q \in Port!get_event_log : Plain(f, q)
  <2> DEFINE a == Port!cable_get_phy_chip_event_log
             b == Port!cable_get_nic_mcu_event_log
  <2>1. Port!Ignoring(Port!Get("log", "all")) \in Simple(f)
    BY <1>2, SimpleKept
  <2>2. a \in Seq(Simple(f)) /\ Len(a) = 6
    BY <2>1, IsASeq DEF Port!cable_get_phy_chip_event_log, Port!__get_phy_chip_event_log
  <2>3. b \in Seq(Simple(f))
    BY <2>1 DEF Port!cable_get_nic_mcu_event_log, Port!__get_mcu_event_log
  <2> HIDE DEF a, b
  <2>4. b \o b \in Seq(Simple(f)) /\ a # <<>>
    BY SMTT(60), <2>2, <2>3, ConcatProperties
  <2>5. a \o (b \o b) \in Seq(Simple(f)) /\ a \o (b \o b) # <<>>
    BY <2>2, <2>4, ConcatProperties, ConcatEqualIffEmpty, EmptySeq
  <2>6. (a \o (b \o b)) \o (b \o b) \in Seq(Simple(f)) /\ (a \o (b \o b)) \o (b \o b) # <<>>
    BY <2>4, <2>5, ConcatProperties, ConcatEqualIffEmpty, EmptySeq
  <2>7. Plain(f, Port!Program("get_event_log", given, (a \o (b \o b)) \o (b \o b)))
    BY <1>3, <1>4, <2>6, ListPlain
  <2> QED BY <2>7 DEF Port!get_event_log, a, b, given
<1> QED BY <1>6, <1>7, <1>8 DEF Port!Calls, f

(* statistics, *)
LEMMA StatsCalls == ASSUME NEW p \in Port!Calls("stats") PROVE Plain("stats", p)
<1> DEFINE f == "stats"
           apis == {"get_pcs_stats", "get_fec_stats"}
<1>1. f \in Port!Families /\ {"stats"} \X Port!Ends \subseteq Port!Registers(f)
      /\ <<"mode", "all">> \in Port!Registers(f)
  BY DEF Port!Registers, Port!Families
<1>2. \A t \in Port!Targets : Port!Take("stats", t) \in Simple(f)
  BY <1>1, EndFits
<1>3. Port!Get("mode", "all") \in Simple(f)
  BY <1>1, PlaceFits DEF Port!Targets, Port!Ends
<1>4. \A api \in apis : api \notin Shared \cup Promising
  BY DEF Shared, Promising
<1> HIDE DEF f
<1>5. ASSUME NEW t \in Port!Targets, NEW vs \in SUBSET (-1..3), NEW api \in apis
      PROVE  Plain(f, Port!Program(api, [at |-> t, val |-> 0],
            <<Port!Only(Port!Get("mode", "all"), vs)>> \o Port!cable_get_pcsfec_stats(t)))
  <2> DEFINE a == <<Port!Only(Port!Get("mode", "all"), vs)>>
             b == Port!cable_get_pcsfec_stats(t)
  <2>6. Port!Only(Port!Get("mode", "all"), vs) \in Simple(f)
    BY <1>3, SimpleKept
  <2>1. a \in Seq(Simple(f)) /\ a # <<>>
    BY <2>6
  <2>2. b \in Seq(Simple(f))
    BY <1>2, SimpleKept DEF Port!cable_get_pcsfec_stats
  <2>3. [at |-> t, val |-> 0] \in Arguments
    BY DEF Arguments, Places
  <2> HIDE DEF a, b
  <2>4. a \o b \in Seq(Simple(f)) /\ a \o b # <<>>
    BY <2>1, <2>2, ConcatProperties, ConcatEqualIffEmpty, EmptySeq
  <2>5. Plain(f, Port!Program(api, [at |-> t, val |-> 0], a \o b))
    BY <1>4, <2>3, <2>4, ListPlain
  <2> QED BY <2>5 DEF a, b
<1>6. {1, 3} \in SUBSET (-1..3) /\ {0, 2} \in SUBSET (-1..3) /\ {"a", "b"} \subseteq Port!Targets
  BY DEF Port!Targets, Port!Ends
<1>7. \A q \in Port!get_pcs_stats \cup Port!get_fec_stats : Plain(f, q)
  BY ONLY <1>5, <1>6 DEF Port!get_pcs_stats, Port!get_fec_stats
<1> QED BY <1>7 DEF Port!Calls, f

(* A call that promises one setting.                                         *)
Settings ==
    {<<"enable_prbs_mode", "prbs", 1>>, <<"disable_prbs_mode", "prbs", 0>>}
        \cup {"cable_set_squelch"} \X {"squelch"} \X {0, 1}
        \cup {"set_target_cursor_values"} \X {"fir"} \X {0, 1}
        \cup {"set_anlt"} \X {"anlt"} \X {0, 1}
SetsOne(f, p) ==
    \E s \in Settings, t \in Port!Targets :
        /\ p = Port!One(s[1], Port!Set(s[2], t, s[3]))
        /\ {s[2]} \X Port!Ends \subseteq Port!Registers(f) /\ Port!Set(s[2], t, s[3]) \in Simple(f)

(* test patterns, *)
LEMMA PrbsCalls == ASSUME NEW p \in Port!Calls("prbs") PROVE Plain("prbs", p) \/ SetsOne("prbs", p)
<1> DEFINE f == "prbs"
           apis == {"cable_check_prbs", "get_ber_info"}
<1>1. f \in Port!Families /\ {"prbs"} \X Port!Ends \subseteq Port!Registers(f)
  BY DEF Port!Registers, Port!Families
<1>2. \A t \in Port!Targets, v \in 0..3 : {Port!Set("prbs", t, v), Port!Get("prbs", t)} \subseteq Simple(f)
  BY <1>1, EndFits
<1>3. \A api \in apis : api \notin Shared \cup Promising
  BY DEF Shared, Promising
<1> HIDE DEF f
<1>4. \A q \in Port!enable_prbs_mode \cup Port!disable_prbs_mode : SetsOne(f, q)
  <2>1. \A s \in {<<"enable_prbs_mode", "prbs", 1>>, <<"disable_prbs_mode", "prbs", 0>>}, t \in Port!Targets :
           s \in Settings /\ s[2] = "prbs" /\ s[3] \in 0..3
    BY DEF Settings
  <2>2. \A s \in {<<"enable_prbs_mode", "prbs", 1>>, <<"disable_prbs_mode", "prbs", 0>>}, t \in Port!Targets :
           SetsOne(f, Port!One(s[1], Port!Set(s[2], t, s[3])))
    BY <1>1, <1>2, <2>1 DEF SetsOne
  <2>3. \A t \in Port!Targets : /\ SetsOne(f, Port!One("enable_prbs_mode", Port!Set("prbs", t, 1)))
                                /\ SetsOne(f, Port!One("disable_prbs_mode", Port!Set("prbs", t, 0)))
    BY <2>2
  <2> QED BY <2>3 DEF Port!enable_prbs_mode, Port!disable_prbs_mode
<1>5. \A q \in Port!cable_check_prbs : Plain(f, q)
  <2>1. \A t \in Port!Targets : Plain(f, Port!One("cable_check_prbs", Port!Get("prbs", t)))
    <3>1. \A t \in Port!Targets : Port!Get("prbs", t) \in Simple(f)
      <4>1. 0 \in 0..3
        OBVIOUS
      <4> QED BY <1>2, <4>1
    <3> QED BY <1>1, <1>3, <3>1, OnePlain
  <2> QED BY <2>1 DEF Port!cable_check_prbs
<1>6. \A q \in Port!get_ber_info : Plain(f, q)
  <2> SUFFICES ASSUME NEW t \in Port!Targets
               PROVE  Plain(f, Port!Program("get_ber_info", [at |-> t, val |-> 0],
                     <<Port!Get("prbs", t), Port!Get("prbs", t)>>))
    BY DEF Port!get_ber_info
  <2> DEFINE s == <<Port!Get("prbs", t), Port!Get("prbs", t)>>
  <2>1. Port!Get("prbs", t) \in Simple(f)
    <3>1. 0 \in 0..3
      OBVIOUS
    <3> QED BY <1>2, <3>1
  <2>2. s \in Seq(Simple(f)) /\ s # <<>>
    BY <2>1
  <2>3. [at |-> t, val |-> 0] \in Arguments
    BY DEF Arguments, Places
  <2> HIDE DEF s
  <2>4. Plain(f, Port!Program("get_ber_info", [at |-> t, val |-> 0], s))
    BY <1>3, <2>2, <2>3, ListPlain
  <2> QED BY <2>4 DEF s
<1> QED BY <1>4, <1>5, <1>6 DEF Port!Calls, f

(* lane settings, *)
LEMMA LanesCalls == ASSUME NEW p \in Port!Calls("lanes") PROVE Plain("lanes", p) \/ SetsOne("lanes", p)
<1> DEFINE f == "lanes"
           apis == {"internal_get_eye_heights", "get_target_cursor_values", "cable_get_snr"}
<1>1. /\ f \in Port!Families /\ {"fir"} \X Port!Ends \subseteq Port!Registers(f)
          /\ {"eye"} \X Port!Ends \subseteq Port!Registers(f)
      /\ <<"quality", "all">> \in Port!Registers(f)
  BY DEF Port!Registers, Port!Families
<1>2. \A t \in Port!Targets, v \in 0..3 : {Port!Set("fir", t, v), Port!Get("fir", t)} \subseteq Simple(f)
  BY <1>1, EndFits
<1>3. \A t \in Port!Targets, v \in 0..3 : {Port!Set("eye", t, v), Port!Get("eye", t)} \subseteq Simple(f)
  BY <1>1, EndFits
<1>4. \A v \in 0..3 : {Port!Set("quality", "all", v), Port!Get("quality", "all")} \subseteq Simple(f)
  BY <1>1, PlaceFits DEF Port!Targets, Port!Ends
<1>5. \A api \in apis : api \notin Shared \cup Promising
  BY DEF Shared, Promising
<1> HIDE DEF f
<1>6. \A api \in apis, c \in Simple(f) : Plain(f, Port!One(api, c))
  BY <1>1, <1>5, OnePlain
<1>7. /\ \A api \in apis, t \in Port!Targets : Plain(f, Port!One(api, Port!Get("fir", t)))
          /\ Plain(f, Port!One(api, Port!Get("eye", t)))
      /\ \A api \in apis : Plain(f, Port!One(api, Port!Get("quality", "all")))
  <2>1. 0 \in 0..3
    OBVIOUS
  <2> QED BY <1>2, <1>3, <1>4, <1>6, <2>1
<1>8. \A q \in Port!internal_get_eye_heights \cup Port!get_target_cursor_values
      \cup Port!cable_get_snr : Plain(f, q)
  BY ONLY <1>7 DEF Port!internal_get_eye_heights, Port!get_target_cursor_values, Port!cable_get_snr
<1>9. \A q \in Port!set_target_cursor_values : SetsOne(f, q)
  <2> SUFFICES ASSUME NEW t \in Port!Targets, NEW v \in {0, 1}
               PROVE  SetsOne(f, Port!One("set_target_cursor_values", Port!Set("fir", t, v)))
    BY DEF Port!set_target_cursor_values
  <2> DEFINE s == <<"set_target_cursor_values", "fir", v>>
  <2>1. s \in Settings /\ s[1] = "set_target_cursor_values" /\ s[2] = "fir" /\ s[3] = v
    BY DEF Settings
  <2> HIDE DEF s
  <2> QED BY <1>1, <1>2, <2>1 DEF SetsOne
<1> QED BY <1>8, <1>9 DEF Port!Calls, f

(* squelch, *)
LEMMA SquelchCalls == ASSUME NEW p \in Port!Calls("squelch") PROVE Plain("squelch", p) \/ SetsOne("squelch", p)
<1> DEFINE f == "squelch"
<1>1. f \in Port!Families /\ {"squelch"} \X Port!Ends \subseteq Port!Registers(f)
      /\ <<"quality", "all">> \in Port!Registers(f)
  BY DEF Port!Registers, Port!Families
<1>2. \A t \in Port!Targets,
      v \in 0..3 : {Port!Set("squelch", t, v), Port!Get("squelch", t)} \subseteq Simple(f)
  BY <1>1, EndFits
<1>3. \A v \in 0..3 : {Port!Set("quality", "all", v), Port!Get("quality", "all")} \subseteq Simple(f)
  BY <1>1, PlaceFits DEF Port!Targets, Port!Ends
<1>4. "cable_get_squelch" \notin Shared \cup Promising
  BY DEF Shared, Promising
<1> HIDE DEF f
<1>5. \A q \in Port!cable_get_squelch : Plain(f, q)
  <2>1. Port!Get("quality", "all") \in Simple(f)
    <3>1. 0 \in 0..3
      OBVIOUS
    <3> QED BY <1>3, <3>1
  <2>2. Plain(f, Port!One("cable_get_squelch", Port!Get("quality", "all")))
    BY <1>1, <1>4, <2>1, OnePlain
  <2> QED BY <2>2 DEF Port!cable_get_squelch
<1>6. \A q \in Port!cable_set_squelch : SetsOne(f, q)
  <2> SUFFICES ASSUME NEW t \in Port!Targets, NEW v \in {0, 1}
               PROVE  SetsOne(f, Port!One("cable_set_squelch", Port!Set("squelch", t, v)))
    BY DEF Port!cable_set_squelch
  <2> DEFINE s == <<"cable_set_squelch", "squelch", v>>
  <2>1. s \in Settings /\ s[1] = "cable_set_squelch" /\ s[2] = "squelch" /\ s[3] = v
    BY DEF Settings
  <2> HIDE DEF s
  <2> QED BY <1>1, <1>2, <2>1 DEF SetsOne
<1> QED BY <1>5, <1>6 DEF Port!Calls, f

(* loopbacks, *)
LEMMA LoopbackCalls ==
    ASSUME NEW p \in Port!Calls("loopback")
    PROVE  Plain("loopback", p) \/ p \in Port!disable_loopback_mode
<1> DEFINE f == "loopback"
           apis == {"enable_loopback_mode", "get_loopback_mode"}
<1>1. f \in Port!Families /\ \A m \in {"near", "far"} : {m} \X Port!Ends \subseteq Port!Registers(f)
  BY DEF Port!Registers, Port!Families
<1>2. \A m \in {"near", "far"}, t \in Port!Targets,
      v \in 0..3 : {Port!Set(m, t, v), Port!Get(m, t)} \subseteq Simple(f)
  BY <1>1, EndFits
<1>3. \A api \in apis : api \notin Shared \cup Promising
  BY DEF Shared, Promising
<1> HIDE DEF f
<1>4. \A q \in Port!enable_loopback_mode : Plain(f, q)
  <2>1. \A m \in {"near", "far"}, t \in Port!Targets : Port!Set(m, t, 1) \in Simple(f)
    <3>1. 1 \in 0..3
      OBVIOUS
    <3> QED BY <1>2, <3>1
  <2>2. \A m \in {"near", "far"},
        t \in Port!Targets : Plain(f, Port!One("enable_loopback_mode", Port!Set(m, t, 1)))
    BY <1>1, <1>3, <2>1, OnePlain
  <2> QED BY <2>2 DEF Port!enable_loopback_mode
<1>5. \A q \in Port!get_loopback_mode : Plain(f, q)
  <2> SUFFICES ASSUME NEW t \in Port!Targets
               PROVE  Plain(f, Port!Program("get_loopback_mode", [at |-> t, val |-> 0],
                     <<Port!Only(Port!Get("far", t), {0}), Port!Get("near", t)>>))
    BY DEF Port!get_loopback_mode
  <2> DEFINE s == <<Port!Only(Port!Get("far", t), {0}), Port!Get("near", t)>>
  <2>1. Port!Get("far", t) \in Simple(f) /\ Port!Get("near", t) \in Simple(f) /\ {0} \in SUBSET (-1..3)
    <3>1. 0 \in 0..3
      OBVIOUS
    <3> QED BY <1>2, <3>1
  <2>2. Port!Only(Port!Get("far", t), {0}) \in Simple(f)
    BY <2>1, SimpleKept
  <2>3. s \in Seq(Simple(f)) /\ s # <<>>
    BY <2>1, <2>2
  <2>4. [at |-> t, val |-> 0] \in Arguments
    BY DEF Arguments, Places
  <2> HIDE DEF s
  <2>5. Plain(f, Port!Program("get_loopback_mode", [at |-> t, val |-> 0], s))
    BY <1>3, <2>3, <2>4, ListPlain
  <2> QED BY <2>5 DEF s
<1> QED BY <1>4, <1>5 DEF Port!Calls, f

(* auto-negotiation, *)
LEMMA AnltCalls == ASSUME NEW p \in Port!Calls("anlt") PROVE Plain("anlt", p) \/ SetsOne("anlt", p)
<1> DEFINE f == "anlt"
           apis == {"get_anlt", "restart_anlt", "get_anlt_stats"}
<1>1. f \in Port!Families /\ {"anlt"} \X Port!Ends \subseteq Port!Registers(f)
  BY DEF Port!Registers, Port!Families
<1>2. \A t \in Port!Targets, v \in {0, 1} : {Port!Set("anlt", t, v), Port!Get("anlt", t)} \subseteq Simple(f)
  BY AnltFits
<1>3. \A api \in apis : api \notin Shared \cup Promising
  BY DEF Shared, Promising
<1> HIDE DEF f
<1>4. \A api \in apis, t \in Port!Targets : Plain(f, Port!One(api, Port!Get("anlt", t)))
  <2>1. 0 \in {0, 1}
    OBVIOUS
  <2> QED BY <1>1, <1>2, <1>3, <2>1, OnePlain
<1>5. \A q \in Port!get_anlt \cup Port!restart_anlt \cup Port!get_anlt_stats : Plain(f, q)
  BY ONLY <1>4 DEF Port!get_anlt, Port!restart_anlt, Port!get_anlt_stats
<1>6. \A q \in Port!set_anlt : SetsOne(f, q)
  <2> SUFFICES ASSUME NEW t \in Port!Targets, NEW v \in {0, 1}
               PROVE  SetsOne(f, Port!One("set_anlt", Port!Set("anlt", t, v)))
    BY DEF Port!set_anlt, Port!Anlt
  <2> DEFINE s == <<"set_anlt", "anlt", v>>
  <2>1. s \in Settings /\ s[1] = "set_anlt" /\ s[2] = "anlt" /\ s[3] = v
    BY DEF Settings
  <2> HIDE DEF s
  <2> QED BY <1>1, <1>2, <2>1 DEF SetsOne
<1> QED BY <1>5, <1>6 DEF Port!Calls, f

(* speed and FEC. *)
LEMMA PortCalls ==
    ASSUME NEW p \in Port!Calls("port")
    PROVE  Plain("port", p) \/ p \in Port!create_port \/ p \in Port!set_fec_mode
<1> DEFINE f == "port"
           apis == {"get_speed", "get_fec_mode"}
<1>1. f \in Port!Families /\ <<"mode", "all">> \in Port!Registers(f)
  BY DEF Port!Registers, Port!Families
<1>2. Port!Get("mode", "all") \in Simple(f)
  <2>1. 0 \in 0..3
    OBVIOUS
  <2> QED BY <1>1, <2>1, PlaceFits DEF Port!Targets, Port!Ends
<1>3. \A api \in apis : api \notin Shared \cup Promising
  BY DEF Shared, Promising
<1> HIDE DEF f
<1>4. \A api \in apis : Plain(f, Port!One(api, Port!Get("mode", "all")))
  BY <1>1, <1>2, <1>3, OnePlain
<1>5. \A q \in Port!get_speed \cup Port!get_fec_mode : Plain(f, q)
  BY ONLY <1>4 DEF Port!get_speed, Port!get_fec_mode, Port!cable_get_mode
<1> QED BY <1>5 DEF Port!Calls, f

(* What a call may begin with.                                               *)
LEMMA CallsFit ==
    ASSUME NEW f \in Port!Families, NEW p \in Port!Calls(f)
    PROVE  \/ Plain(f, p) \/ SetsOne(f, p)
           \/ f = "loopback" /\ p \in Port!disable_loopback_mode
           \/ f = "port" /\ (p \in Port!create_port \/ p \in Port!set_fec_mode)
BY SwitchingCalls, CountsCalls, ChipCalls, ReadingsCalls, InterruptsCalls, LogsCalls, StatsCalls, PrbsCalls,
   LanesCalls, SquelchCalls, LoopbackCalls, AnltCalls, PortCalls DEF Port!Families

-------------------------------------------------------------------------------
(* Steps that carry out no command.                                          *)

(* The next command of a program, and the rest. *)
LEMMA RestOf ==
    ASSUME NEW S, NEW s \in Seq(S), s # <<>>
    PROVE  /\ Head(s) \in S /\ Head(s) = s[1] /\ Len(s) \in Nat \ {0}
           /\ Tail(s) \in Seq(S) /\ Len(Tail(s)) = Len(s) - 1
           /\ \A i \in 1..Len(Tail(s)) : Tail(s)[i] = s[i + 1]
<1>1. Len(s) \in Nat \ {0} /\ Head(s) = s[1] /\ Head(s) \in S
  BY EmptySeq, LenProperties, HeadTailProperties
<1>2. Tail(s) \in Seq(S) /\ Len(Tail(s)) = Len(s) - 1 /\ \A i \in 1..Len(Tail(s)) : Tail(s)[i] = s[i + 1]
  BY HeadTailProperties
<1> QED BY <1>1, <1>2

(* The lanes of a command are those of a register, and the right ones when the *)
(* side is known.                                                              *)
LEMMA LanesOf ==
    ASSUME NEW f, NEW c \in Commands(f), host \in Port!Ends, NEW s0 \in {host, "unknown"}
    PROVE  LET r == <<c.what, IF c.at \in Port!Targets THEN Port!PhyEnd(c.at, s0) ELSE c.at>> IN
           /\ r \in Port!Registers(f)
           /\ c.at \in Port!Targets /\ s0 = host => r = <<c.what, Port!Meant(c.at)>>
<1>1. c.at \in Port!Targets => Port!PhyEnd(c.at, s0) \in Port!Ends
  BY DEF Port!PhyEnd, Port!Ends
<1>2. c.at \in Port!Targets => Port!PhyEnd(c.at, host) = Port!Meant(c.at)
  BY DEF Port!PhyEnd, Port!Meant, Port!Targets, Port!Ends
<1>3. Keys(c) \subseteq Port!Registers(f)
  BY DEF Commands
<1> QED BY <1>1, <1>2, <1>3 DEF Keys

(* Nobody calling is a call, *)
LEMMA IdleType == \A f : Port!Idle \in CallsOf(f)
<1>1. [at |-> "all", val |-> 0] \in Arguments
  <2>1. <<"hmux", "all">> \in AllRegisters /\ <<"hmux", "all">>[2] = "all"
    <3>1. <<"hmux", "all">> \in Port!Registers("switching")
      BY DEF Port!Registers
    <3> QED BY <3>1 DEF AllRegisters, Port!Families
  <2> QED BY <2>1 DEF Arguments, Places
<1>2. "none" \in Apis /\ <<>> \in Befores
  BY DEF Apis, Befores
<1>3. \A S : <<>> \in Seq(S)
  BY EmptySeq
<1> QED BY <1>1, <1>2, <1>3 DEF Port!Idle, CallsOf

(* and an entry of the table a set of attributes. *)
LEMMA EntryType == \A s \in {50, 100}, f \in {0, 1} : Port!Entry(s, f) \in Attributes
BY DEF Port!Entry, Attributes

(* A call that is over, or none: nothing is promised of what is idle.        *)
LEMMA IdleInv ==
    ASSUME call = Port!Idle, Typed
    PROVE  PortInv
<1>1. call.api = "none" /\ call.todo = <<>> /\ Len(call.todo) = 0
  BY DEF Port!Idle
<1> QED BY <1>1 DEF PortInv, Learners, Promised, Created, Learns, Recreated, Shared, Promising

(* The initial states, *)
LEMMA PortInitInv == Port!Init => PortInv
<1> SUFFICES ASSUME Port!Init PROVE PortInv
  OBVIOUS
<1>1. PICK mode \in 0..3, anlt \in [Port!Ends -> {0, 1}] :
        reg = [r \in Port!Registers(family) |-> IF r[1] = "mode" THEN mode ELSE IF r[1] = "anlt"
              THEN anlt[r[2]] ELSE 0]
  BY DEF Port!Init
<1>2. reg \in [Port!Registers(family) -> 0..3]
  <2>1. ASSUME NEW r \in Port!Registers(family) PROVE reg[r] \in 0..3
    <3>1. r[1] = "anlt" => r[2] \in Port!Ends
      BY DEF Port!Registers, Port!Init, Port!Families
    <3> QED BY <1>1, <3>1
  <2> QED BY <1>1, <2>1
<1>3. \A e \in Port!Ends : <<"anlt", e>> \in Port!Registers(family) => reg[<<"anlt", e>>] \in {0, 1}
  BY <1>1
<1>4. call \in CallsOf(family) /\ call = Port!Idle /\ call.todo = <<>> /\ call.sure = TRUE /\ call.ok = TRUE
  BY IdleType DEF Port!Init, Port!Idle
<1>5. matched \in Attributes
  BY EntryType DEF Port!Init
<1>6. Typed
  BY <1>2, <1>3, <1>4, <1>5 DEF Typed, Port!Init
<1> QED BY <1>4, <1>6, IdleInv

(* a result that was seen, *)
LEMMA SeenStep == ASSUME PortInv, Port!Seen PROVE PortInv'
<1>1. call' = Port!Idle /\ call' \in CallsOf(family) /\ call'.todo = <<>> /\ call'.sure = TRUE
      /\ call'.ok = TRUE
  BY IdleType DEF Port!Seen, Port!Idle
<1>2. Typed'
  BY <1>1 DEF PortInv, Typed, Port!Seen
<1>3. call'.api = "none" /\ Len(call'.todo) = 0 /\ 1..0 = {}
  BY <1>1 DEF Port!Idle
<1>4. Learners'
  BY <1>1, <1>3 DEF Learners, Shared
<1>5. Promised'
  BY ONLY <1>3 DEF Promised, Promising
<1>6. Created' /\ Learns' /\ Recreated'
  BY ONLY <1>3 DEF Created, Learns, Recreated
<1> QED BY ONLY <1>2, <1>4, <1>5, <1>6 DEF PortInv

(* what the cable does by itself, *)
LEMMA HappensStep == ASSUME PortInv, Port!Happens PROVE PortInv'
<1>1. call' = call /\ call = Port!Idle /\ call.api = "none" /\ Len(call.todo) = 0
      /\ UNCHANGED <<host, family, matched, call>>
  BY DEF Port!Happens, Port!Idle
<1>2. PICK r \in DOMAIN reg : r[1] # "anlt" /\ reg[r] < 1 /\ reg' = [reg EXCEPT ![r] = @ + 1]
  BY DEF Port!Happens, Port!MaxCount
<1>3. DOMAIN reg = Port!Registers(family) /\ reg \in [Port!Registers(family) -> 0..3]
  BY DEF PortInv, Typed
<1>4. reg[r] + 1 \in 0..3
  BY <1>2, <1>3
<1>5. reg' \in [Port!Registers(family) -> 0..3]
  BY <1>2, <1>3, <1>4
<1>6. \A e \in Port!Ends : <<"anlt", e>> # r
  BY <1>2
<1>7. \A e \in Port!Ends : <<"anlt", e>> \in Port!Registers(family) => reg'[<<"anlt", e>>] \in {0, 1}
  BY <1>2, <1>3, <1>6 DEF PortInv, Typed
<1>8. Typed'
  BY <1>1, <1>5, <1>7 DEF PortInv, Typed
<1> QED BY <1>1, <1>8 DEF PortInv, Learners, Promised, Created, Learns, Recreated, Shared, Promising

(* the end of a call, and *)
LEMMA ReturnStep == ASSUME PortInv, Port!Return PROVE PortInv'
<1> DEFINE old == call
<1>1. /\ call.running /\ call.todo = <<>> /\ call.api # "set_fec_mode"
          /\ UNCHANGED <<host, family, reg, matched>>
      /\ call' = [call EXCEPT !.running = FALSE]
  BY DEF Port!Return
<1>2. call \in CallsOf(family)
  BY DEF PortInv, Typed
<1>3. /\ call' \in CallsOf(family) /\ call'.api = call.api /\ call'.arg = call.arg /\ call'.todo = call.todo
      /\ call'.ok = call.ok /\ call'.sided = call.sided /\ call'.sure = call.sure /\ call'.alone = call.alone
      /\ call'.before = call.before
  BY <1>1, <1>2 DEF CallsOf
<1>4. Typed'
  BY <1>1, <1>3 DEF PortInv, Typed
<1>5. Learners' /\ Promised'
  BY <1>1, <1>3 DEF PortInv, Learners, Promised, Port!Promise, Port!Meant
<1>6. \A tor, nic : Configured(tor, nic) => Configured(tor, nic)'
  BY <1>1, <1>3 DEF Configured, Suffix
<1>7. Created'
  BY <1>3, <1>6 DEF PortInv, Created
<1>8. Recreated' /\ Learns'
  BY ZenonT(60), <1>1, <1>3, <1>6 DEF PortInv, Recreated, Learns, Faithful
<1> QED BY <1>4, <1>5, <1>7, <1>8 DEF PortInv

(* another port's call, which only spoils the shared attributes. *)
LEMMA OtherPortStep == ASSUME PortInv, Port!OtherPort PROVE PortInv'
<1>1. PICK s \in {50, 100}, f \in {0, 1} :
        matched' \in {Port!Entry(s, f), [Port!Entry(s, f) EXCEPT !.mode = matched.mode]}
  BY DEF Port!OtherPort
<1>2. call \in CallsOf(family) /\ call' = [call EXCEPT !.alone = FALSE] /\ UNCHANGED <<host, family, reg>>
  BY DEF PortInv, Typed, Port!OtherPort
<1>3. /\ call' \in CallsOf(family) /\ call'.api = call.api /\ call'.arg = call.arg /\ call'.todo = call.todo
      /\ call'.ok = call.ok /\ call'.sided = call.sided /\ call'.sure = call.sure /\ call'.alone = FALSE
      /\ call'.before = call.before /\ call'.running = call.running
  BY <1>2 DEF CallsOf
<1>4. Typed'
  <2>1. Port!Entry(s, f) \in Attributes /\ matched.mode \in 0..3
    BY EntryType DEF PortInv, Typed, Attributes
  <2>2. matched' \in Attributes
    BY <1>1, <2>1 DEF Attributes
  <2> QED BY <1>2, <1>3, <2>2 DEF PortInv, Typed
<1>5. Learners' /\ Promised'
  BY <1>2, <1>3 DEF PortInv, Learners, Promised, Port!Promise, Port!Meant
<1>6. \A tor, nic : Configured(tor, nic) => Configured(tor, nic)'
  BY <1>2, <1>3 DEF Configured, Suffix
<1>7. Created'
  BY <1>3, <1>6 DEF PortInv, Created
<1>8. Recreated' /\ Learns'
  BY <1>2, <1>3, <1>6 DEF PortInv, Recreated, Learns, Faithful
<1> QED BY <1>4, <1>5, <1>7, <1>8 DEF PortInv

-------------------------------------------------------------------------------
(* A call begins.                                                            *)

(* A call begins with the program p.                                         *)
Starts(p) ==
    /\ call = Port!Idle
    /\ call' = [Port!Idle EXCEPT !.running = TRUE, !.api = p.api, !.arg = p.arg, !.todo = p.todo,
                            !.before = IF p.api = "set_fec_mode" THEN reg ELSE <<>>]
    /\ matched' = IF p.api = "create_port" THEN Port!Entry(p.arg.speed, p.arg.fec) ELSE matched
    /\ UNCHANGED <<host, family, reg>>

(* The call as it begins, *)
LEMMA StartFields ==
    ASSUME NEW p, Starts(p)
    PROVE  /\ call'.running = TRUE /\ call'.api = p.api /\ call'.arg = p.arg /\ call'.todo = p.todo
           /\ call'.ok = TRUE /\ call'.sided = TRUE /\ call'.sure = TRUE /\ call'.alone = TRUE
           /\ call'.got = <<>> /\ call'.before = IF p.api = "set_fec_mode" THEN reg ELSE <<>>
           /\ UNCHANGED <<host, family, reg>>
BY DEF Starts, Port!Idle

(* its type, *)
LEMMA StartType ==
    ASSUME PortInv, NEW p \in Port!Calls(family), Starts(p), p.arg \in Arguments,
          p.todo \in Seq(Commands(family)),
           p.api = "set_fec_mode" => family = "port",
           p.api = "create_port" => p.arg.speed \in {50, 100} /\ p.arg.fec \in {0, 1}
    PROVE  Typed'
<1>1. p.api \in Apis
  <2>1. p \in UNION {Port!Calls(f) : f \in Port!Families}
    BY DEF PortInv, Typed
  <2> QED BY <2>1 DEF Apis
<1>2. (IF p.api = "set_fec_mode" THEN reg ELSE <<>>) \in Befores
  BY DEF Befores, PortInv, Typed
<1>3. call' = [Port!Idle EXCEPT !.running = TRUE, !.api = p.api, !.arg = p.arg, !.todo = p.todo,
                            !.before = IF p.api = "set_fec_mode" THEN reg ELSE <<>>]
  BY DEF Starts
<1>4. call' \in CallsOf(family)
  <2>1. Port!Idle \in CallsOf(family)
    BY IdleType
  <2> HIDE DEF Port!Idle
  <2> QED BY ONLY <1>1, <1>2, <1>3, <2>1, p.arg \in Arguments, p.todo \in Seq(Commands(family)) DEF CallsOf
<1>5. matched' \in Attributes
  BY EntryType DEF Starts, PortInv, Typed
<1>6. UNCHANGED <<host, family, reg>> /\ call'.running = TRUE /\ call'.sure = TRUE /\ call'.ok = TRUE
  BY StartFields
<1> QED BY ONLY PortInv, <1>4, <1>5, <1>6 DEF PortInv, Typed

(* a call that nothing is promised of, *)
LEMMA PlainStart == ASSUME PortInv, NEW p \in Port!Calls(family), Starts(p), Plain(family, p) PROVE PortInv'
<1>1. /\ p.api \notin Shared \cup Promising /\ p.arg \in Arguments /\ p.todo \in Seq(Commands(family))
      /\ \A i \in 1..Len(p.todo) : p.todo[i].kind # "learn"
  BY DEF Plain
<1>2. p.api # "set_fec_mode" /\ p.api # "create_port" /\ p.api # "set_fec_mode by create_port"
  BY <1>1 DEF Shared
<1>3. Typed'
  BY <1>1, <1>2, StartType
<1>4. call'.api = p.api /\ call'.todo = p.todo
  BY StartFields
<1>5. Learners'
  BY <1>1, <1>4 DEF Learners
<1>6. Promised'
  BY ONLY <1>1, <1>4 DEF Promised
<1>7. Created' /\ Learns' /\ Recreated'
  BY ONLY <1>2, <1>4 DEF Created, Learns, Recreated
<1> QED BY ONLY <1>3, <1>5, <1>6, <1>7 DEF PortInv

(* a call that promises a setting: the one command is still to be carried out, *)
LEMMA SetsOneStart == ASSUME PortInv, NEW p \in Port!Calls(family), Starts(p), SetsOne(family, p) PROVE PortInv'
<1>1. PICK s \in Settings, t \in Port!Targets :
        /\ p = Port!One(s[1], Port!Set(s[2], t, s[3]))
        /\ {s[2]} \X Port!Ends \subseteq Port!Registers(family) /\ Port!Set(s[2], t, s[3]) \in Simple(family)
  BY DEF SetsOne
<1> DEFINE c == Port!Set(s[2], t, s[3])
<1>2. c.kind = "set" /\ c.what = s[2] /\ c.at = t /\ c.val = s[3] /\ c.fails = "stop"
  BY DEF Port!Set, Port!Step
<1> HIDE DEF c
<1>3. p = [api |-> s[1], arg |-> [at |-> t, val |-> s[3]], todo |-> <<c>>]
  BY <1>1, <1>2 DEF Port!One, Port!Program, c
<1>4. /\ s[3] \in 0..3 /\ s[1] \in Promising /\ s[1] \notin Shared
      /\ s[1] = "enable_prbs_mode" => s[2] = "prbs" /\ s[3] = 1
      /\ s[1] = "disable_prbs_mode" => s[2] = "prbs" /\ s[3] = 0
      /\ s[1] = "cable_set_squelch" => s[2] = "squelch"
      /\ s[1] = "set_target_cursor_values" => s[2] = "fir"
      /\ s[1] = "set_anlt" => s[2] = "anlt"
      /\ s[1] # "disable_loopback_mode"
  <2>1. \/ s = <<"enable_prbs_mode", "prbs", 1>>
        \/ s = <<"disable_prbs_mode", "prbs", 0>>
        \/ s = <<"cable_set_squelch", "squelch", s[3]>> /\ s[3] \in {0, 1}
        \/ s = <<"set_target_cursor_values", "fir", s[3]>> /\ s[3] \in {0, 1}
        \/ s = <<"set_anlt", "anlt", s[3]>> /\ s[3] \in {0, 1}
    BY DEF Settings
  <2>2. s[3] \in 0..3
    BY <2>1
  <2>3. s[1] \in {"enable_prbs_mode", "disable_prbs_mode", "cable_set_squelch", "set_target_cursor_values",
        "set_anlt"}
    BY <2>1
  <2>4. s[1] \in Promising /\ s[1] \notin Shared /\ s[1] # "disable_loopback_mode"
    BY <2>3 DEF Promising, Shared
  <2>5. /\ s[1] = "enable_prbs_mode" => s[2] = "prbs" /\ s[3] = 1
        /\ s[1] = "disable_prbs_mode" => s[2] = "prbs" /\ s[3] = 0
        /\ s[1] = "cable_set_squelch" => s[2] = "squelch"
        /\ s[1] = "set_target_cursor_values" => s[2] = "fir"
        /\ s[1] = "set_anlt" => s[2] = "anlt"
    BY <2>1
  <2> QED BY <2>2, <2>4, <2>5
<1>5. c \in Commands(family) /\ t \in Places
  BY <1>1 DEF Simple, Places, c
<1>6. /\ p.api = s[1] /\ p.arg = [at |-> t, val |-> s[3]] /\ p.arg.at = t /\ p.arg.val = s[3]
      /\ p.arg \in Arguments /\ p.todo = <<c>> /\ p.todo \in Seq(Commands(family)) /\ Len(p.todo) = 1
          /\ p.todo[1] = c
  BY <1>3, <1>4, <1>5 DEF Arguments
<1>7. p.api # "set_fec_mode" /\ p.api # "create_port" /\ p.api # "set_fec_mode by create_port"
  BY <1>4, <1>6 DEF Shared
<1>8. Typed'
  BY <1>6, <1>7, StartType
<1>9. call'.api = p.api /\ call'.arg = p.arg /\ call'.todo = p.todo /\ UNCHANGED family
  BY StartFields
<1>10. \A i \in 1..Len(p.todo) : p.todo[i] = c
  BY <1>6
<1>11. Learners'
  BY <1>2, <1>4, <1>6, <1>9, <1>10 DEF Learners
<1>12. Port!Promise' = {<<s[2], s[3]>>}
  BY ONLY <1>4, <1>6, <1>9 DEF Port!Promise, Promising
<1>13. <<s[2], "nic">> \in Port!Registers(family)
  BY <1>1 DEF Port!Ends
<1>14. Promised'
  <2>1. \A q \in Port!Promise' : q[1] = s[2] /\ q[2] = s[3]
    BY <1>12
  <2>2. 1 \in 1..Len(p.todo)
    BY <1>6
  <2> QED BY ONLY <1>2, <1>6, <1>9, <1>10, <1>13, <2>1, <2>2, t \in Port!Targets DEF Promised
<1>15. Created' /\ Learns' /\ Recreated'
  BY ONLY <1>7, <1>9 DEF Created, Learns, Recreated
<1> QED BY ONLY <1>8, <1>11, <1>14, <1>15 DEF PortInv

(* or two are, *)
LEMMA LoopbackStart ==
    ASSUME PortInv, NEW p \in Port!Calls(family), Starts(p), family = "loopback",
          p \in Port!disable_loopback_mode
    PROVE  PortInv'
<1>1. PICK t \in Port!Targets :
        p = Port!Program("disable_loopback_mode", [at |-> t, val |-> 0],
              <<Port!Set("near", t, 0), Port!Set("far", t, 0)>>)
  BY DEF Port!disable_loopback_mode
<1> DEFINE near == Port!Set("near", t, 0)
           far == Port!Set("far", t, 0)
<1>2. /\ near.kind = "set" /\ near.what = "near" /\ near.at = t /\ near.val = 0 /\ near.fails = "stop"
      /\ far.kind = "set" /\ far.what = "far" /\ far.at = t /\ far.val = 0 /\ far.fails = "stop"
  BY DEF Port!Set, Port!Step
<1>3. family \in Port!Families /\ \A m \in {"near", "far"} : {m} \X Port!Ends \subseteq Port!Registers(family)
  BY DEF Port!Registers, Port!Families
<1>4. near \in Simple(family) /\ far \in Simple(family)
  <2>1. \A m \in {"near", "far"}, v \in 0..3 : Port!Set(m, t, v) \in Simple(family)
    BY <1>3, EndFits
  <2>2. 0 \in 0..3
    OBVIOUS
  <2> QED BY <2>1, <2>2
<1> HIDE DEF near, far
<1>5. /\ p.api = "disable_loopback_mode" /\ p.arg = [at |-> t, val |-> 0] /\ p.todo = <<near, far>>
      /\ p.arg.at = t
  BY <1>1 DEF Port!Program, near, far
<1>6. p.arg \in Arguments /\ p.todo \in Seq(Commands(family))
  BY <1>4, <1>5 DEF Arguments, Places, Simple
<1>7. /\ Len(p.todo) = 2 /\ p.todo[1] = near /\ p.todo[2] = far /\ 1 \in 1..Len(p.todo) /\ 2 \in 1..Len(p.todo)
      /\ \A i \in 1..Len(p.todo) : p.todo[i] = near \/ p.todo[i] = far
  BY <1>5
<1>8. Typed'
  BY <1>5, <1>6, StartType
<1>9. call'.api = p.api /\ call'.arg = p.arg /\ call'.todo = p.todo /\ UNCHANGED family
  BY StartFields
<1>10. Learners'
  BY <1>2, <1>5, <1>7, <1>9 DEF Learners, Shared
<1>11. Port!Promise' = {<<"near", 0>>, <<"far", 0>>}
  BY ONLY <1>5, <1>9 DEF Port!Promise
<1>12. Promised'
  <2>1. \A q \in Port!Promise' : q[2] = 0 /\ (q[1] = "near" \/ q[1] = "far")
    BY <1>11
  <2>2. <<"near", "nic">> \in Port!Registers(family) /\ <<"far", "nic">> \in Port!Registers(family)
    BY <1>3 DEF Port!Ends
  <2> QED BY ONLY <1>2, <1>5, <1>7, <1>9, <2>1, <2>2, t \in Port!Targets DEF Promised
<1>13. Created' /\ Learns' /\ Recreated'
  BY ONLY <1>5, <1>9 DEF Created, Learns, Recreated
<1> QED BY ONLY <1>8, <1>10, <1>12, <1>13 DEF PortInv

(* The programs of create_port and of set_fec_mode.                          *)
LEMMA PortCommandsFit ==
    ASSUME NEW tor \in {0, 1}, NEW nic \in {0, 1}
    PROVE  /\ Port!PortCommands(tor, nic) \in Seq(Commands("port")) /\ Len(Port!PortCommands(tor, nic)) = 7
           /\ \A i \in 1..7 : Port!PortCommands(tor, nic)[i].kind # "learn"
<1> DEFINE mode == Port!Step("mode", "mode", "all", 0)
<1>1. \A t \in Port!Targets, v \in {0, 1} : Port!Anlt(t, v) \in Simple("port")
  BY AnltFits DEF Port!Anlt
<1>2. \A t \in Port!Targets, v \in {0, 1} : Port!Noting(Port!Anlt(t, v)) \in Simple("port")
      /\ Port!Ignoring(Port!Anlt(t, v)) \in Simple("port")
  BY <1>1, SimpleKept
<1>3. Port!Ignoring(mode) \in Simple("port")
  <2>1. "port" \in Port!Families /\ <<"mode", "all">> \in Port!Registers("port")
        /\ <<"mode", "all">>[1] = "mode" /\ <<"mode", "all">>[2] = "all"
    BY DEF Port!Registers, Port!Families
  <2>2. "mode" \in Names /\ "all" \in Places /\ "all" \notin Port!Targets
    <3>1. <<"mode", "all">> \in AllRegisters
      BY <2>1 DEF AllRegisters
    <3> QED BY <2>1, <3>1 DEF Names, Places, Port!Targets, Port!Ends
  <2>3. Port!Ignoring(mode) = [kind |-> "mode", what |-> "mode", at |-> "all", val |-> 0, goOn |-> -1..3,
        fails |-> "ignore"]
    BY DEF Port!Ignoring, Port!Step
  <2>4. Port!Ignoring(mode) \in AnyCommand /\ Port!Ignoring(mode).kind = "mode"
        /\ Port!Ignoring(mode).what = "mode" /\ Port!Ignoring(mode).at = "all"
    BY <2>2, <2>3 DEF AnyCommand
  <2> HIDE DEF mode
  <2>5. Keys(Port!Ignoring(mode)) \subseteq Port!Registers("port")
    BY <2>1, <2>2, <2>4 DEF Keys
  <2> QED BY <2>4, <2>5 DEF Simple, Commands
<1> HIDE DEF mode
<1>4. Port!PortCommands(tor, nic) =
         <<Port!Noting(Port!Anlt("nic", 0)), Port!Noting(Port!Anlt("a", 0)), Port!Noting(Port!Anlt("b", 0)),
               Port!Ignoring(mode),
           Port!Noting(Port!Anlt("nic", nic)), Port!Noting(Port!Anlt("a", tor)),
                 Port!Ignoring(Port!Anlt("b", tor))>>
  BY DEF Port!PortCommands, mode
<1>5. /\ Port!Noting(Port!Anlt("nic", 0)) \in Simple("port")
          /\ Port!Noting(Port!Anlt("a", 0)) \in Simple("port")
      /\ Port!Noting(Port!Anlt("b", 0)) \in Simple("port")
          /\ Port!Noting(Port!Anlt("nic", nic)) \in Simple("port")
      /\ Port!Noting(Port!Anlt("a", tor)) \in Simple("port")
          /\ Port!Ignoring(Port!Anlt("b", tor)) \in Simple("port")
  BY <1>2 DEF Port!Targets, Port!Ends
<1>6. Port!PortCommands(tor, nic) \in Seq(Commands("port")) /\ Len(Port!PortCommands(tor, nic)) = 7
  <2>1. \A x \in Simple("port") : x \in Commands("port")
    BY DEF Simple
  <2> QED BY ONLY <1>3, <1>4, <1>5, <2>1
<1>7. \A i \in 1..7 : Port!PortCommands(tor, nic)[i] \in Simple("port")
  BY ONLY <1>3, <1>4, <1>5
<1> QED BY <1>6, <1>7 DEF Simple

(* and that of set_fec_mode. *)
LEMMA FecProgramFits ==
    ASSUME NEW f \in {0, 1}
    PROVE  FecProgram(f) \in Seq(Commands("port")) /\ Len(FecProgram(f)) = 4
<1> DEFINE first == Port!Only(Port!Learning(Port!cable_get_mode), IF f = 1 THEN {1, 3} ELSE {0, 2})
           read(e) == Port!Ignoring(Port!Learning(Port!Get("anlt", e)))
<1>1. \A e \in Port!Ends : read(e) \in Commands("port")
  <2>1. \A e \in Port!Ends : Port!Learning(Port!Get("anlt", e)) \in Commands("port")
        /\ Port!Learning(Port!Get("anlt", e)).what = "anlt"
    <3>1. \A e \in Port!Ends : Port!Learning(Port!Get("anlt", e)) \in Commands("port")
      BY AnltFits DEF Port!Targets
    <3> QED BY <3>1 DEF Port!Learning, Port!Get, Port!Step
  <2>2. ASSUME NEW c \in Commands("port") PROVE Port!Ignoring(c) \in Commands("port")
    BY DEF Commands, AnyCommand, Keys, Port!Ignoring
  <2> QED BY <2>1, <2>2
<1>2. first \in Commands("port")
  <2>1. "port" \in Port!Families /\ <<"mode", "all">> \in Port!Registers("port")
        /\ <<"mode", "all">>[1] = "mode" /\ <<"mode", "all">>[2] = "all"
    BY DEF Port!Registers, Port!Families
  <2>2. "mode" \in Names /\ "all" \in Places /\ "all" \notin Port!Targets
    <3>1. <<"mode", "all">> \in AllRegisters
      BY <2>1 DEF AllRegisters
    <3> QED BY <2>1, <3>1 DEF Names, Places, Port!Targets, Port!Ends
  <2> DEFINE vs == IF f = 1 THEN {1, 3} ELSE {0, 2}
  <2>3. vs \in SUBSET (-1..3)
    OBVIOUS
  <2> HIDE DEF vs
  <2>4. first = [kind |-> "learn", what |-> "mode", at |-> "all", val |-> 0, goOn |-> vs, fails |-> "stop"]
    <3>1. Port!cable_get_mode = [kind |-> "get", what |-> "mode", at |-> "all", val |-> 0, goOn |-> -1..3,
          fails |-> "stop"]
      BY DEF Port!cable_get_mode, Port!Get, Port!Step
    <3>2. Port!Learning(Port!cable_get_mode) = [kind |-> "learn", what |-> "mode", at |-> "all", val |-> 0,
          goOn |-> -1..3, fails |-> "stop"]
      BY <3>1 DEF Port!Learning
    <3> QED BY <3>2 DEF Port!Only, vs
  <2> HIDE DEF first
  <2>5. first \in AnyCommand /\ first.kind = "learn" /\ first.what = "mode" /\ first.at = "all"
    BY <2>2, <2>3, <2>4 DEF AnyCommand
  <2>6. Keys(first) \subseteq Port!Registers("port")
    BY <2>1, <2>2, <2>5 DEF Keys
  <2> QED BY <2>5, <2>6 DEF Commands
<1>3. FecProgram(f) = <<first, read("nic"), read("a"), read("b")>>
  BY DEF FecProgram
<1>4. read("nic") \in Commands("port") /\ read("a") \in Commands("port") /\ read("b") \in Commands("port")
  BY <1>1 DEF Port!Ends
<1> HIDE DEF first, read
<1> QED BY <1>2, <1>3, <1>4

(* All of a program is left when none is done. *)
LEMMA WholeSuffix == ASSUME NEW S, NEW s \in Seq(S) PROVE Suffix(s, s)
BY LenProperties DEF Suffix

(* create_port begins, *)
LEMMA CreateStart ==
    ASSUME PortInv, NEW p \in Port!Calls(family), Starts(p), family = "port", p \in Port!create_port
    PROVE  PortInv'
<1>1. PICK s \in {50, 100}, f \in {0, 1}, tor \in {0, 1}, nic \in {0, 1} :
        p = Port!Program("create_port", [speed |-> s, fec |-> f, tor |-> tor, nic |-> nic],
              Port!PortCommands(tor, nic))
  BY DEF Port!create_port
<1>2. /\ p.api = "create_port" /\ p.arg = [speed |-> s, fec |-> f, tor |-> tor, nic |-> nic]
      /\ p.todo = Port!PortCommands(tor, nic) /\ p.arg.tor = tor /\ p.arg.nic = nic /\ p.arg.speed = s
          /\ p.arg.fec = f
      /\ p.arg \in Arguments
  BY <1>1 DEF Port!Program, Arguments
<1>3. p.todo \in Seq(Commands(family)) /\ Len(p.todo) = 7 /\ \A i \in 1..7 : p.todo[i].kind # "learn"
  BY <1>2, PortCommandsFit
<1>4. Typed'
  BY <1>2, <1>3, StartType
<1>5. call'.api = p.api /\ call'.arg = p.arg /\ call'.todo = p.todo /\ UNCHANGED family
  BY StartFields
<1>6. Learners'
  BY ZenonT(60), <1>2, <1>3, <1>5 DEF Learners
<1>7. Promised'
  BY ONLY <1>2, <1>5 DEF Promised, Promising
<1>8. Configured(tor, nic)'
  <2>1. Suffix(p.todo, Port!PortCommands(tor, nic))
    BY <1>2, <1>3, WholeSuffix
  <2>2. Suffix(call.todo, Port!PortCommands(tor, nic))'
    BY ONLY <1>5, <2>1 DEF Suffix, Port!PortCommands
  <2>3. Len(call'.todo) = 7
    BY <1>3, <1>5
  <2> QED BY ONLY <2>2, <2>3, tor \in {0, 1}, nic \in {0, 1} DEF Configured
<1>9. Created' /\ Learns' /\ Recreated'
  BY ONLY <1>2, <1>5, <1>8 DEF Created, Learns, Recreated
<1> QED BY ONLY <1>4, <1>6, <1>7, <1>9 DEF PortInv

(* set_fec_mode begins, *)
LEMMA FecStart ==
    ASSUME PortInv, NEW p \in Port!Calls(family), Starts(p), family = "port", p \in Port!set_fec_mode
    PROVE  PortInv'
<1>1. PICK f \in {0, 1} : p = Port!Program("set_fec_mode", [fec |-> f], FecProgram(f))
  BY DEF Port!set_fec_mode, FecProgram
<1>2. /\ p.api = "set_fec_mode" /\ p.arg = [fec |-> f] /\ p.todo = FecProgram(f) /\ p.arg.fec = f
      /\ p.arg \in Arguments
  BY <1>1 DEF Port!Program, Arguments
<1>3. p.todo \in Seq(Commands(family)) /\ Len(p.todo) = 4
  BY <1>2, FecProgramFits
<1>4. Typed'
  BY <1>2, <1>3, StartType
<1>5. call'.api = p.api /\ call'.arg = p.arg /\ call'.todo = p.todo /\ call'.before = reg
      /\ UNCHANGED <<family, reg>>
  BY <1>2, StartFields
<1>6. Learners'
  BY <1>2, <1>5 DEF Learners
<1>7. Promised'
  BY ONLY <1>2, <1>5 DEF Promised, Promising
<1>8. Learns'
  <2>1. Suffix(p.todo, FecProgram(f))
    BY <1>2, <1>3, WholeSuffix
  <2>2. reg \in [Port!Registers("port") -> 0..3]
        /\ \A e \in Port!Ends : <<"anlt", e>> \in Port!Registers("port") /\ reg[<<"anlt", e>>] \in {0, 1}
    <3>1. \A e \in Port!Ends : <<"anlt", e>> \in Port!Registers("port")
      BY DEF Port!Registers
    <3> QED BY <3>1 DEF PortInv, Typed
  <2>3. Suffix(call'.todo, FecProgram(call'.arg.fec)) /\ reg' = call'.before
    BY ONLY <1>2, <1>5, <2>1
  <2>4. Suffix(call.todo, FecProgram(call.arg.fec))'
    BY ONLY <2>3 DEF Suffix, FecProgram
  <2>5. Len(call'.todo) = 4
    BY <1>3, <1>5
  <2> QED BY ONLY <1>2, <1>5, <2>2, <2>3, <2>4, <2>5, f \in {0, 1} DEF Learns
<1>9. Created' /\ Recreated'
  BY ONLY <1>2, <1>5 DEF Created, Recreated
<1> QED BY ONLY <1>4, <1>6, <1>7, <1>8, <1>9 DEF PortInv

(* any call begins. *)
LEMMA BeginStep == ASSUME PortInv, Port!Begin PROVE PortInv'
<1>1. PICK p \in Port!Calls(family) : Starts(p)
  BY DEF Port!Begin, Starts
<1>2. family \in Port!Families
  BY DEF PortInv, Typed
<1> QED BY <1>1, <1>2, CallsFit, PlainStart, SetsOneStart, LoopbackStart, CreateStart, FecStart

-------------------------------------------------------------------------------
(* A command.                                                                *)

(* A command is carried out.                                                 *)
Stops(c, how, v) ==
    IF how = "done" THEN c.kind \in {"get", "take", "learn"} /\ v \notin c.goOn ELSE c.fails = "stop"
Reads(c, r, how) == IF how = "done" THEN reg[r] ELSE Port!Lost
Carries(c, r, s0, how) ==
    /\ call.todo # <<>> /\ c = Head(call.todo)
    /\ s0 \in {host, "unknown"} /\ how \in {"done", "refused", "unheard"}
    /\ r = <<c.what, IF c.at \in Port!Targets THEN Port!PhyEnd(c.at, s0) ELSE c.at>>
    /\ c.at \notin Port!Targets => s0 = host
    /\ reg' = IF how = "refused" \/ c.kind \in {"get", "learn"} THEN reg ELSE [reg EXCEPT ![r] = Port!Value(c)]
    /\ matched' = IF c.kind = "learn" THEN Port!Learned(c, Reads(c, r, how)) ELSE matched
    /\ call' = [call EXCEPT !.todo = IF Stops(c, how, Reads(c, r, how)) THEN <<>> ELSE Tail(call.todo),
                            !.running = ~Stops(c, how, Reads(c, r, how)),
                            !.ok = @ /\ (how = "done" \/ c.fails = "ignore"),
                            !.got = IF c.kind \in {"get", "take", "learn"}
                                  /\ c.kind # "learn" THEN Append(@, Reads(c, r, how)) ELSE @,
                            !.sided = @ /\ s0 = host,
                            !.sure = @ /\ how = "done"]
    /\ UNCHANGED <<host, family>>

(* The body of Command, of one side and one answer. *)
CommandOf(s0, how) ==
          LET c == Head(call.todo)
              r == <<c.what, IF c.at \in Port!Targets THEN Port!PhyEnd(c.at, s0) ELSE c.at>>
              isRead == c.kind \in {"get", "take", "learn"}
              v == IF how = "done" THEN reg[r] ELSE Port!Lost
              stop == IF how = "done" THEN isRead /\ v \notin c.goOn ELSE c.fails = "stop"
          IN  /\ c.at \notin Port!Targets => s0 = host
              /\ Port!SameLanes(c) => (s0 = host <=> call.sided)
              /\ c.kind \in {"get", "learn"} => how # "unheard"
              /\ reg' = IF how = "refused" \/ c.kind \in {"get", "learn"} THEN reg
                        ELSE [reg EXCEPT ![r] = Port!Value(c)]
              /\ matched' = IF c.kind = "learn" THEN Port!Learned(c, v) ELSE matched
              /\ call' = [call EXCEPT !.todo = IF stop THEN <<>> ELSE Tail(call.todo),
                                      !.running = ~stop,
                                      !.ok = @ /\ (how = "done" \/ c.fails = "ignore"),
                                      !.got = IF isRead /\ c.kind # "learn" THEN Append(@, v) ELSE @,
                                      !.sided = @ /\ s0 = host,
                                      !.sure = @ /\ how = "done"]

(* That is what Command does. *)
LEMMA CommandCarries == Port!Command => \E c, r, s0, how : Carries(c, r, s0, how)
<1> SUFFICES ASSUME Port!Command PROVE \E c, r, s0, how : Carries(c, r, s0, how)
  OBVIOUS
<1>1. PICK s0 \in {host, "unknown"}, how \in {"done", "refused", "unheard"} : CommandOf(s0, how)
  BY Zenon DEF Port!Command, CommandOf
<1>2. call.todo # <<>> /\ UNCHANGED <<host, family>>
  BY DEF Port!Command
<1> DEFINE c == Head(call.todo)
           r == <<c.what, IF c.at \in Port!Targets THEN Port!PhyEnd(c.at, s0) ELSE c.at>>
<1>3. Carries(c, r, s0, how)
  BY <1>1, <1>2 DEF Carries, CommandOf, Stops, Reads
<1> QED BY <1>3

(* The command, and the register it goes to; *)
LEMMA CarriesFields ==
    ASSUME PortInv, NEW c, NEW r, NEW s0, NEW how, Carries(c, r, s0, how)
    PROVE  /\ c \in Commands(family) /\ c = call.todo[1] /\ call.running
           /\ Len(call.todo) \in Nat \ {0} /\ Tail(call.todo) \in Seq(Commands(family))
           /\ Len(Tail(call.todo)) = Len(call.todo) - 1
           /\ \A i \in 1..Len(Tail(call.todo)) : Tail(call.todo)[i] = call.todo[i + 1]
           /\ r \in Port!Registers(family)
           /\ c.at \in Port!Targets /\ s0 = host => r = <<c.what, Port!Meant(c.at)>>
           /\ c.at \notin Port!Targets => r = <<c.what, c.at>>
           /\ r[1] = c.what
<1>1. call \in CallsOf(family) /\ host \in Port!Ends /\ call.running
  BY DEF PortInv, Typed, Carries
<1>2. call.todo \in Seq(Commands(family)) /\ call.todo # <<>>
  BY <1>1 DEF CallsOf, Carries
<1> DEFINE S == Commands(family)
           todo == call.todo
<1> HIDE DEF S, todo
<1>3. todo \in Seq(S) /\ todo # <<>> /\ c = Head(todo)
  BY <1>2 DEF S, todo, Carries
<1>4. /\ c \in S /\ c = todo[1]
      /\ Len(todo) \in Nat \ {0} /\ Tail(todo) \in Seq(S) /\ Len(Tail(todo)) = Len(todo) - 1
      /\ \A i \in 1..Len(Tail(todo)) : Tail(todo)[i] = todo[i + 1]
  BY <1>3, RestOf
<1>5. /\ r \in Port!Registers(family)
      /\ c.at \in Port!Targets /\ s0 = host => r = <<c.what, Port!Meant(c.at)>>
  BY <1>1, <1>4, LanesOf DEF S, Carries
<1>6. r[1] = c.what /\ c.at \notin Port!Targets => r = <<c.what, c.at>>
  BY DEF Carries
<1>7. r[1] = c.what
  BY DEF Carries
<1> QED BY <1>1, <1>4, <1>5, <1>6, <1>7 DEF S, todo

(* the call after it; *)
LEMMA CarriesCall ==
    ASSUME PortInv, NEW c, NEW r, NEW s0, NEW how, Carries(c, r, s0, how)
    PROVE  /\ call'.api = call.api /\ call'.arg = call.arg /\ call'.alone = call.alone
               /\ call'.before = call.before
           /\ call'.todo = IF Stops(c, how, Reads(c, r, how)) THEN <<>> ELSE Tail(call.todo)
           /\ call'.running = ~Stops(c, how, Reads(c, r, how))
           /\ call'.ok = (call.ok /\ (how = "done" \/ c.fails = "ignore"))
           /\ call'.sided = (call.sided /\ s0 = host)
           /\ call'.sure = (call.sure /\ how = "done")
           /\ Reads(c, r, how) \in -1..3
           /\ call'.got \in Seq(-1..3)
<1>1. call \in CallsOf(family) /\ reg \in [Port!Registers(family) -> 0..3] /\ r \in Port!Registers(family)
  BY CarriesFields DEF PortInv, Typed
<1>2. Reads(c, r, how) \in -1..3
  BY <1>1 DEF Reads, Port!Lost
<1> DEFINE todo == IF Stops(c, how, Reads(c, r, how)) THEN <<>> ELSE Tail(call.todo)
           running == ~Stops(c, how, Reads(c, r, how))
           heard == IF c.kind \in {"get", "take", "learn"}
                 /\ c.kind # "learn" THEN Append(call.got, Reads(c, r, how)) ELSE call.got
<1>3. call' = [call EXCEPT !.todo = todo, !.running = running,
                            !.ok = @ /\ (how = "done" \/ c.fails = "ignore"), !.got = heard,
                            !.sided = @ /\ s0 = host, !.sure = @ /\ how = "done"]
  BY DEF Carries
<1>4. heard \in Seq(-1..3)
  <2>1. call.got \in Seq(-1..3)
    BY <1>1 DEF CallsOf
  <2> QED BY <1>2, <2>1, AppendProperties
<1> HIDE DEF todo, running, heard
<1>5. /\ call'.api = call.api /\ call'.arg = call.arg /\ call'.alone = call.alone /\ call'.before = call.before
      /\ call'.todo = todo /\ call'.running = running /\ call'.got = heard
      /\ call'.ok = (call.ok /\ (how = "done" \/ c.fails = "ignore"))
      /\ call'.sided = (call.sided /\ s0 = host)
      /\ call'.sure = (call.sure /\ how = "done")
  BY ONLY <1>1, <1>3 DEF CallsOf
<1> QED BY <1>2, <1>4, <1>5 DEF todo, running

(* the shared attributes keep their type *)
LEMMA AttributesKept ==
    ASSUME NEW m \in Attributes
    PROVE  /\ \A x \in 0..3 : [m EXCEPT !.mode = x] \in Attributes
           /\ \A x \in 0..3, f \in {0, 1}, s \in {50, 100} :
                 [m EXCEPT !.mode = x, !.fec = f, !.speed = s] \in Attributes
           /\ \A x \in {0, 1} : /\ [m EXCEPT !.anlt_nic = x] \in Attributes
                                /\ [m EXCEPT !.anlt_tor = x] \in Attributes
<1>1. \A x \in {0, 1} : x \in 0..3
  OBVIOUS
<1>2. \A x \in 0..3 : [m EXCEPT !.mode = x] \in Attributes
  BY DEF Attributes
<1>3. \A x \in 0..3, f \in {0, 1},
      s \in {50, 100} : [m EXCEPT !.mode = x, !.fec = f, !.speed = s] \in Attributes
  BY DEF Attributes
<1>4. \A x \in 0..3 : [m EXCEPT !.anlt_nic = x] \in Attributes /\ [m EXCEPT !.anlt_tor = x] \in Attributes
  BY DEF Attributes
<1> QED BY <1>1, <1>2, <1>3, <1>4

(* and so does everything else. *)
LEMMA CarriesTyped ==
    ASSUME PortInv, NEW c, NEW r, NEW s0, NEW how, Carries(c, r, s0, how)
    PROVE  Typed'
<1>1. /\ call \in CallsOf(family) /\ reg \in [Port!Registers(family) -> 0..3] /\ matched \in Attributes
      /\ host \in Port!Ends /\ family \in Port!Families /\ UNCHANGED <<host, family>>
      /\ \A e \in Port!Ends : <<"anlt", e>> \in Port!Registers(family) => reg[<<"anlt", e>>] \in {0, 1}
      /\ call.sure => call.ok
  BY DEF PortInv, Typed, Carries
<1>2. c \in Commands(family) /\ r \in Port!Registers(family) /\ r[1] = c.what
  BY CarriesFields
<1>3. /\ c \in AnyCommand /\ c.val \in 0..3 /\ c.kind \in {"set", "get", "take", "learn", "mode"}
      /\ c.kind = "mode" => c.what = "mode"
      /\ c.kind = "learn" => c.what \in {"mode", "anlt"}
      /\ c.what = "anlt" => c.val \in {0, 1} /\ c.kind \in {"set", "get", "learn"}
  BY <1>2 DEF Commands, AnyCommand
<1>4. Port!Value(c) \in 0..3 /\ c.what = "anlt" => Port!Value(c) \in {0, 1}
  BY <1>1, <1>3 DEF Port!Value, Attributes
<1>5. Port!Value(c) \in 0..3
  BY <1>1, <1>3 DEF Port!Value, Attributes
<1>6. reg' = reg \/ reg' = [reg EXCEPT ![r] = Port!Value(c)]
  BY DEF Carries
<1>7. reg' \in [Port!Registers(family) -> 0..3]
  BY <1>1, <1>2, <1>5, <1>6
<1>8. \A e \in Port!Ends : <<"anlt", e>> \in Port!Registers(family) => reg'[<<"anlt", e>>] \in {0, 1}
  <2> SUFFICES ASSUME NEW e \in Port!Ends, <<"anlt", e>> \in Port!Registers(family)
        PROVE reg'[<<"anlt", e>>] \in {0, 1}
    OBVIOUS
  <2>1. CASE r = <<"anlt", e>>
    BY <1>1, <1>2, <1>4, <1>5, <1>6, <2>1
  <2>2. CASE r # <<"anlt", e>>
    BY <1>1, <1>2, <1>6, <2>2
  <2> QED BY <2>1, <2>2
<1> DEFINE v == Reads(c, r, how)
<1>9. v \in -1..3
  BY CarriesCall
<1> HIDE DEF v
<1>10. matched' \in Attributes
  <2>1. CASE c.kind # "learn"
    BY <1>1, <2>1 DEF Carries
  <2>2. CASE c.kind = "learn"
    <3>1. call.api = "set_fec_mode"
      <4>1. c = call.todo[1] /\ 1 \in 1..Len(call.todo)
        BY CarriesFields
      <4> QED BY <2>2, <4>1 DEF PortInv, Learners
    <3>2. call.arg.fec \in {0, 1}
      BY <3>1 DEF PortInv, Learns
    <3>3. matched' = Port!Learned(c, v)
      BY <2>2 DEF Carries, v
    <3>4. /\ \A x \in 0..3 : [matched EXCEPT !.mode = x] \in Attributes
          /\ \A x \in 0..3, f \in {0, 1}, s \in {50, 100} :
                [matched EXCEPT !.mode = x, !.fec = f, !.speed = s] \in Attributes
          /\ \A x \in {0, 1} : /\ [matched EXCEPT !.anlt_nic = x] \in Attributes
                               /\ [matched EXCEPT !.anlt_tor = x] \in Attributes
      BY <1>1, AttributesKept
    <3>5. v # Port!Lost => v \in 0..3
      BY <1>9 DEF Port!Lost
    <3> DEFINE s == IF v < 2 THEN 100 ELSE 50
               b == IF v = 1 THEN 1 ELSE 0
    <3>6. s \in {50, 100} /\ b \in {0, 1}
      OBVIOUS
    <3>7. Port!Learned(c, v) = IF c.what = "mode"
             THEN IF v = Port!Lost THEN matched
                  ELSE IF v \notin c.goOn THEN [matched EXCEPT !.mode = v]
                  ELSE [matched EXCEPT !.mode = v, !.fec = call.arg.fec, !.speed = s]
             ELSE IF c.at = "nic" THEN [matched EXCEPT !.anlt_nic = b]
             ELSE [matched EXCEPT !.anlt_tor = b]
      BY DEF Port!Learned
    <3> HIDE DEF s, b
    <3>8. v # Port!Lost => /\ [matched EXCEPT !.mode = v] \in Attributes
                           /\ [matched EXCEPT !.mode = v, !.fec = call.arg.fec, !.speed = s] \in Attributes
      BY <3>2, <3>4, <3>5, <3>6
    <3>9. [matched EXCEPT !.anlt_nic = b] \in Attributes /\ [matched EXCEPT !.anlt_tor = b] \in Attributes
      BY <3>4, <3>6
    <3>10. matched \in Attributes
      BY <1>1
    <3> QED BY ONLY <3>3, <3>7, <3>8, <3>9, <3>10
  <2> QED BY <2>1, <2>2
<1> DEFINE todo == IF Stops(c, how, Reads(c, r, how)) THEN <<>> ELSE Tail(call.todo)
           running == ~Stops(c, how, Reads(c, r, how))
           heard == IF c.kind \in {"get", "take", "learn"}
                 /\ c.kind # "learn" THEN Append(call.got, Reads(c, r, how)) ELSE call.got
<1>11. call' = [call EXCEPT !.todo = todo, !.running = running,
                            !.ok = @ /\ (how = "done" \/ c.fails = "ignore"), !.got = heard,
                            !.sided = @ /\ s0 = host, !.sure = @ /\ how = "done"]
  BY DEF Carries
<1>12. todo \in Seq(Commands(family)) /\ running \in BOOLEAN /\ (todo # <<>> => running)
  <2>1. Tail(call.todo) \in Seq(Commands(family))
    BY CarriesFields
  <2>2. <<>> \in Seq(Commands(family))
    BY EmptySeq
  <2> QED BY <2>1, <2>2 DEF Stops
<1>13. heard \in Seq(-1..3)
  <2>1. call.got \in Seq(-1..3) /\ Reads(c, r, how) \in -1..3
    BY <1>1, CarriesCall DEF CallsOf
  <2> QED BY <2>1, AppendProperties
<1> HIDE DEF todo, running, heard
<1>14. call' \in CallsOf(family) /\ call'.todo = todo /\ call'.running = running
  BY ONLY ZenonT(60), <1>1, <1>11, <1>12, <1>13 DEF CallsOf
<1>15. call'.sure => call'.ok
  BY <1>1, CarriesCall
<1> QED BY ONLY <1>1, <1>7, <1>8, <1>10, <1>12, <1>14, <1>15 DEF Typed

(* Nothing is learnt that was not before. *)
LEMMA CarriesLearners ==
    ASSUME PortInv, NEW c, NEW r, NEW s0, NEW how, Carries(c, r, s0, how)
    PROVE  Learners'
<1>1. /\ call'.api = call.api /\ family' = family
      /\ call'.todo = <<>> \/ call'.todo = Tail(call.todo)
  <2>1. family' = family
    BY DEF Carries
  <2> QED BY <2>1, CarriesCall
<1>2. \A i \in 1..Len(call'.todo) : i + 1 \in 1..Len(call.todo) /\ call'.todo[i] = call.todo[i + 1]
  <2>1. CASE call'.todo = <<>>
    BY <2>1
  <2>2. CASE call'.todo = Tail(call.todo)
    BY <2>2, CarriesFields
  <2> QED BY <1>1, <2>1, <2>2
<1> QED BY <1>1, <1>2 DEF PortInv, Learners

(* A setting that one end has, every end has.                                *)
LEMMA EndsTogether ==
    ASSUME NEW f \in Port!Families, NEW what, <<what, "nic">> \in Port!Registers(f), NEW e \in Port!Ends
    PROVE  <<what, e>> \in Port!Registers(f)
<1>1. f \notin {"switching", "counts", "chip", "interrupts", "readings", "logs"}
  BY DEF Port!Registers, Port!Masks, Port!Flags
<1>2. f \in {"prbs", "lanes", "squelch", "loopback", "stats", "anlt", "port"}
  BY <1>1 DEF Port!Families
<1> QED BY <1>2 DEF Port!Registers, Port!Ends

(* A promised setting is made by a command that is heard, and kept by the *)
(* others, which go to another register.                                  *)
LEMMA CarriesPromised ==
    ASSUME PortInv, NEW c, NEW r, NEW s0, NEW how, Carries(c, r, s0, how)
    PROVE  Promised'
<1>1. /\ call'.api = call.api /\ call'.arg = call.arg /\ UNCHANGED <<host, family>>
      /\ call'.todo = IF Stops(c, how, Reads(c, r, how)) THEN <<>> ELSE Tail(call.todo)
      /\ call'.ok = (call.ok /\ (how = "done" \/ c.fails = "ignore"))
      /\ call'.sided = (call.sided /\ s0 = host)
  <2>1. UNCHANGED <<host, family>>
    BY DEF Carries
  <2> QED BY <2>1, CarriesCall
<1>2. Port!Promise' = Port!Promise
  BY ONLY <1>1 DEF Port!Promise
<1>3. \A t : (Port!Meant(t))' = Port!Meant(t)
  BY ONLY <1>1 DEF Port!Meant
<1>4. /\ c = call.todo[1] /\ Len(call.todo) \in Nat \ {0} /\ Len(Tail(call.todo)) = Len(call.todo) - 1
      /\ \A i \in 1..Len(Tail(call.todo)) : Tail(call.todo)[i] = call.todo[i + 1]
      /\ r \in Port!Registers(family)
      /\ c.at \in Port!Targets /\ s0 = host => r = <<c.what, Port!Meant(c.at)>>
      /\ r[1] = c.what
  BY CarriesFields
<1>5. reg \in [Port!Registers(family) -> 0..3]
  BY DEF PortInv, Typed
<1> SUFFICES ASSUME call.api \in Promising
             PROVE  Promised'
  BY <1>1 DEF Promised
<1>6. /\ call.arg.at \in Port!Targets
      /\ \A p \in Port!Promise :
            /\ <<p[1], "nic">> \in Port!Registers(family)
            /\ \A i \in 1..Len(call.todo) :
                  /\ call.todo[i].kind = "set" /\ call.todo[i].at = call.arg.at /\ call.todo[i].fails = "stop"
                  /\ call.todo[i].what = p[1] => call.todo[i].val = p[2]
            /\ \/ \E i \in 1..Len(call.todo) : call.todo[i].what = p[1]
               \/ call.ok /\ call.sided => reg[<<p[1], Port!Meant(call.arg.at)>>] = p[2]
  BY DEF PortInv, Promised
<1>7. ASSUME NEW p \in Port!Promise
      PROVE  /\ <<p[1], "nic">> \in Port!Registers(family)
             /\ \A i \in 1..Len(call'.todo) :
                   /\ call'.todo[i].kind = "set" /\ call'.todo[i].at = call.arg.at
                       /\ call'.todo[i].fails = "stop"
                   /\ call'.todo[i].what = p[1] => call'.todo[i].val = p[2]
             /\ \/ \E i \in 1..Len(call'.todo) : call'.todo[i].what = p[1]
                \/ call'.ok /\ call'.sided => reg'[<<p[1], Port!Meant(call.arg.at)>>] = p[2]
  <2>1. 1 \in 1..Len(call.todo)
    BY <1>4
  <2>2. c.kind = "set" /\ c.at = call.arg.at /\ c.at \in Port!Targets /\ c.fails = "stop"
        /\ (c.what = p[1] => c.val = p[2])
    BY <1>4, <1>6, <2>1
  <2>3. CASE how # "done"
    <3>1. Stops(c, how, Reads(c, r, how)) /\ call'.todo = <<>> /\ ~call'.ok
      BY <1>1, <2>2, <2>3 DEF Stops
    <3>2. 1..Len(<<>>) = {}
      OBVIOUS
    <3> QED BY <1>6, <3>1, <3>2
  <2>4. CASE how = "done"
    <3>1. ~Stops(c, how, Reads(c, r, how)) /\ call'.todo = Tail(call.todo)
      BY <1>1, <2>2, <2>4 DEF Stops
    <3>2. reg' = [reg EXCEPT ![r] = c.val]
      BY <2>2, <2>4 DEF Carries, Port!Value
    <3>3. \A i \in 1..Len(call'.todo) : i + 1 \in 1..Len(call.todo) /\ call'.todo[i] = call.todo[i + 1]
      BY <1>4, <3>1
    <3>4. \A i \in 1..Len(call'.todo) :
             /\ call'.todo[i].kind = "set" /\ call'.todo[i].at = call.arg.at /\ call'.todo[i].fails = "stop"
             /\ call'.todo[i].what = p[1] => call'.todo[i].val = p[2]
      BY ZenonT(60), <1>6, <3>3
    <3>5. CASE c.what = p[1]
      <4>1. call'.sided => reg'[<<p[1], Port!Meant(call.arg.at)>>] = p[2]
        BY <1>1, <1>4, <1>5, <2>2, <3>2, <3>5
      <4> QED BY <1>6, <3>4, <4>1
    <3>6. CASE c.what # p[1]
      <4>1. CASE \E i \in 1..Len(call.todo) : call.todo[i].what = p[1]
        <5>1. PICK i \in 1..Len(call.todo) : call.todo[i].what = p[1]
          BY <4>1
        <5>2. i # 1 /\ i - 1 \in 1..Len(call'.todo) /\ (i - 1) + 1 = i
          BY <1>4, <3>1, <3>6, <5>1
        <5>3. call'.todo[i - 1].what = p[1]
          BY <3>3, <5>1, <5>2
        <5> QED BY <1>6, <3>4, <5>2, <5>3
      <4>2. CASE call.ok /\ call.sided => reg[<<p[1], Port!Meant(call.arg.at)>>] = p[2]
        <5>1. <<p[1], Port!Meant(call.arg.at)>> # r
          BY <1>4, <3>6
        <5>2. reg'[<<p[1], Port!Meant(call.arg.at)>>] = reg[<<p[1], Port!Meant(call.arg.at)>>]
          <6> DEFINE q == <<p[1], Port!Meant(call.arg.at)>>
          <6>1. q \in Port!Registers(family)
            <7>1. Port!Meant(call.arg.at) \in Port!Ends
              BY <1>6 DEF Port!Meant, Port!Targets, PortInv, Typed
            <7>2. <<p[1], "nic">> \in Port!Registers(family) /\ family \in Port!Families
              BY <1>6 DEF PortInv, Typed
            <7> QED BY <7>1, <7>2, EndsTogether
          <6> HIDE DEF q
          <6>2. reg'[q] = reg[q]
            BY <1>5, <3>2, <5>1, <6>1 DEF q
          <6> QED BY <6>2 DEF q
        <5> QED BY <1>1, <1>6, <3>4, <4>2, <5>2
      <4> QED BY <1>6, <4>1, <4>2
    <3> QED BY <3>5, <3>6
  <2> QED BY <2>3, <2>4
<1>8. call'.arg.at \in Port!Targets
  BY <1>1, <1>6
<1> QED BY ONLY ZenonT(60), <1>1, <1>2, <1>3, <1>7, <1>8 DEF Promised

-------------------------------------------------------------------------------
(* create_port.                                                              *)

(* The seven commands of create_port. *)
LEMMA PortCommandsAre ==
    ASSUME NEW tor, NEW nic
    PROVE  LET s == Port!PortCommands(tor, nic) IN
           /\ Len(s) = 7
           /\ \A i \in {1, 2, 3, 5, 6, 7} : s[i].kind = "set" /\ s[i].what = "anlt"
           /\ \A i \in 1..7 : s[i].fails # "stop"
           /\ s[4].kind = "mode" /\ s[4].what = "mode" /\ s[4].at = "all"
           /\ s[5].at = "nic" /\ s[5].val = nic /\ s[5].fails = "note"
           /\ s[6].at = "a" /\ s[6].val = tor /\ s[6].fails = "note"
           /\ s[7].at = "b" /\ s[7].val = tor
<1> DEFINE s == Port!PortCommands(tor, nic)
           Note(t, x) == [kind |-> "set", what |-> "anlt", at |-> t, val |-> x, goOn |-> -1..3,
                 fails |-> "note"]
           mode == [kind |-> "mode", what |-> "mode", at |-> "all", val |-> 0, goOn |-> -1..3,
                 fails |-> "ignore"]
           last == [kind |-> "set", what |-> "anlt", at |-> "b", val |-> tor, goOn |-> -1..3,
                 fails |-> "ignore"]
<1>1. \A t, x : Port!Noting(Port!Anlt(t, x)) = Note(t, x)
  BY DEF Port!Noting, Port!Anlt, Port!Set, Port!Step
<1>2. Port!Ignoring(Port!Step("mode", "mode", "all", 0)) = mode /\ Port!Ignoring(Port!Anlt("b", tor)) = last
  BY DEF Port!Ignoring, Port!Anlt, Port!Set, Port!Step
<1>3. s = <<Note("nic", 0), Note("a", 0), Note("b", 0), mode, Note("nic", nic), Note("a", tor), last>>
  BY <1>1, <1>2 DEF Port!PortCommands
<1> DEFINE n1 == Note("nic", 0)
           n2 == Note("a", 0)
           n3 == Note("b", 0)
           n5 == Note("nic", nic)
           n6 == Note("a", tor)
<1>4. /\ \A n \in {n1, n2, n3, n5, n6} : n.kind = "set" /\ n.what = "anlt" /\ n.fails = "note"
      /\ n5.at = "nic" /\ n5.val = nic /\ n6.at = "a" /\ n6.val = tor
      /\ mode.kind = "mode" /\ mode.what = "mode" /\ mode.at = "all" /\ mode.fails = "ignore"
      /\ last.kind = "set" /\ last.what = "anlt" /\ last.at = "b" /\ last.val = tor /\ last.fails = "ignore"
  OBVIOUS
<1>5. s = <<n1, n2, n3, mode, n5, n6, last>>
  BY <1>3
<1> HIDE DEF s, n1, n2, n3, n5, n6, mode, last
<1>6. Len(s) = 7 /\ s[1] = n1 /\ s[2] = n2 /\ s[3] = n3 /\ s[4] = mode /\ s[5] = n5 /\ s[6] = n6 /\ s[7] = last
  BY <1>5
<1>7. \A i \in 1..7 : s[i].fails # "stop"
  BY <1>4, <1>6
<1> QED BY <1>4, <1>6, <1>7 DEF s

(* One command more of create_port.                                          *)
LEMMA CarriesConfigured ==
    ASSUME PortInv, NEW c, NEW r, NEW s0, NEW how, Carries(c, r, s0, how), family = "port",
           NEW tor, NEW nic, Configured(tor, nic)
    PROVE  Configured(tor, nic)' /\ UNCHANGED matched
<1> DEFINE n == Len(call.todo)
           whole == Port!PortCommands(tor, nic)
<1>1. /\ c = call.todo[1] /\ n \in Nat \ {0} /\ Len(Tail(call.todo)) = n - 1
      /\ \A i \in 1..Len(Tail(call.todo)) : Tail(call.todo)[i] = call.todo[i + 1]
      /\ r \in Port!Registers(family)
      /\ c.at \in Port!Targets /\ s0 = host => r = <<c.what, Port!Meant(c.at)>>
      /\ c.at \notin Port!Targets => r = <<c.what, c.at>>
      /\ r[1] = c.what
  BY CarriesFields
<1>2. /\ tor \in {0, 1} /\ nic \in {0, 1}
      /\ n <= Len(whole) /\ \A i \in 1..n : call.todo[i] = whole[Len(whole) - n + i]
  BY DEF Configured, Suffix
<1>3. /\ n <= 2 /\ call.ok /\ call.sided => reg[<<"anlt", "nic">>] = nic
      /\ n <= 1 /\ call.ok /\ call.sided => reg[<<"anlt", "a">>] = tor
      /\ n <= 3 /\ call.sure /\ call.alone => reg[<<"mode", "all">>] = matched.mode
  BY DEF Configured
<1> HIDE DEF n
<1>4. /\ Len(whole) = 7
      /\ \A i \in {1, 2, 3, 5, 6, 7} : whole[i].kind = "set" /\ whole[i].what = "anlt"
      /\ \A i \in 1..7 : whole[i].fails # "stop"
      /\ whole[4].kind = "mode" /\ whole[4].what = "mode" /\ whole[4].at = "all"
      /\ whole[5].at = "nic" /\ whole[5].val = nic /\ whole[5].fails = "note"
      /\ whole[6].at = "a" /\ whole[6].val = tor /\ whole[6].fails = "note"
      /\ whole[7].at = "b" /\ whole[7].val = tor
  BY PortCommandsAre
<1>5. reg \in [Port!Registers(family) -> 0..3] /\ \A e \in Port!Ends : <<"anlt", e>> \in Port!Registers(family)
  BY DEF PortInv, Typed, Port!Registers
<1>6. <<"mode", "all">> \in Port!Registers(family)
  BY DEF Port!Registers
<1>7. /\ call'.alone = call.alone
      /\ call'.todo = IF Stops(c, how, Reads(c, r, how)) THEN <<>> ELSE Tail(call.todo)
      /\ call'.ok = (call.ok /\ (how = "done" \/ c.fails = "ignore"))
      /\ call'.sided = (call.sided /\ s0 = host)
      /\ call'.sure = (call.sure /\ how = "done")
  BY CarriesCall
<1>8. /\ reg' = IF how = "refused"
          \/ c.kind \in {"get", "learn"} THEN reg ELSE [reg EXCEPT ![r] = Port!Value(c)]
      /\ matched' = IF c.kind = "learn" THEN Port!Learned(c, Reads(c, r, how)) ELSE matched
  BY DEF Carries
<1> HIDE DEF whole
<1>9. c = whole[8 - n] /\ 8 - n \in 1..7 /\ n \in 1..7
  <2>1. 1 \in 1..n /\ n \in 1..7 /\ 7 - n + 1 = 8 - n
    BY <1>1, <1>2, <1>4
  <2> QED BY <1>1, <1>2, <1>4, <2>1
<1>10. c.kind \in {"set", "mode"} /\ c.fails # "stop"
  BY <1>4, <1>9
<1>11. ~Stops(c, how, Reads(c, r, how)) /\ call'.todo = Tail(call.todo) /\ Len(call'.todo) = n - 1
  BY <1>1, <1>7, <1>10 DEF Stops
<1>12. UNCHANGED matched
  BY <1>8, <1>10
<1>13. Suffix(call'.todo, whole)
  <2>1. \A i \in 1..(n - 1) : call'.todo[i] = call.todo[i + 1] /\ i + 1 \in 1..n
    BY <1>1, <1>11
  <2>2. \A i \in 1..(n - 1) : 7 - n + (i + 1) = 7 - (n - 1) + i
    BY <1>9
  <2>3. \A i \in 1..(n - 1) : call'.todo[i] = whole[7 - (n - 1) + i]
    BY <1>2, <1>4, <2>1, <2>2
  <2> DEFINE new == call'.todo
  <2>4. Len(new) = n - 1 /\ Len(whole) = 7 /\ n \in 1..7
        /\ \A i \in 1..(n - 1) : new[i] = whole[7 - (n - 1) + i]
    BY <1>4, <1>9, <1>11, <2>3
  <2> HIDE DEF new
  <2>5. Suffix(new, whole)
    BY ONLY <2>4 DEF Suffix
  <2> QED BY <2>5 DEF new
<1>14. Suffix(call.todo, Port!PortCommands(tor, nic))'
  BY ONLY <1>13 DEF Suffix, Port!PortCommands, whole
<1>15. call'.sided => call.sided /\ s0 = host
  BY <1>7
<1>16. call'.sure => call.sure /\ how = "done"
  BY <1>7
<1>17. Port!Meant("nic") = "nic" /\ Port!Meant("a") = "a" /\ Port!Meant("b") = "b"
      /\ {"nic", "a", "b"} \subseteq Port!Targets /\ "all" \notin Port!Targets
  BY DEF Port!Meant, Port!Targets, Port!Ends
<1> DEFINE Set1(e, x) == r = <<"anlt", e>> /\ (how = "done" => reg' = [reg EXCEPT ![r] = x])
<1>18. n = 3 => /\ call'.ok => call.ok /\ how = "done"
                /\ s0 = host => r = <<"anlt", "nic">>
                /\ how = "done" => reg' = [reg EXCEPT ![r] = nic]
                /\ r[1] = "anlt"
  <2> SUFFICES ASSUME n = 3 PROVE /\ call'.ok => call.ok /\ how = "done"
                                  /\ s0 = host => r = <<"anlt", "nic">>
                                  /\ how = "done" => reg' = [reg EXCEPT ![r] = nic]
                                  /\ r[1] = "anlt"
    OBVIOUS
  <2>1. c = whole[5]
    BY <1>9
  <2>2. c.at = "nic" /\ c.val = nic /\ c.fails = "note" /\ c.kind = "set" /\ c.what = "anlt"
    BY <1>4, <2>1
  <2> QED BY <1>1, <1>7, <1>8, <1>17, <2>2 DEF Port!Value
<1>19. n = 2 => /\ call'.ok => call.ok /\ how = "done"
                /\ s0 = host => r = <<"anlt", "a">>
                /\ how = "done" => reg' = [reg EXCEPT ![r] = tor]
                /\ r[1] = "anlt"
  <2> SUFFICES ASSUME n = 2 PROVE /\ call'.ok => call.ok /\ how = "done"
                                  /\ s0 = host => r = <<"anlt", "a">>
                                  /\ how = "done" => reg' = [reg EXCEPT ![r] = tor]
                                  /\ r[1] = "anlt"
    OBVIOUS
  <2>1. c = whole[6]
    BY <1>9
  <2>2. c.at = "a" /\ c.val = tor /\ c.fails = "note" /\ c.kind = "set" /\ c.what = "anlt"
    BY <1>4, <2>1
  <2> QED BY <1>1, <1>7, <1>8, <1>17, <2>2 DEF Port!Value
<1>20. n = 1 => /\ call'.ok => call.ok
                /\ s0 = host => r = <<"anlt", "b">>
                /\ reg' = reg \/ reg' = [reg EXCEPT ![r] = tor]
                /\ how = "done" => reg' = [reg EXCEPT ![r] = tor]
                /\ r[1] = "anlt"
  <2> SUFFICES ASSUME n = 1 PROVE /\ call'.ok => call.ok
                                  /\ s0 = host => r = <<"anlt", "b">>
                                  /\ reg' = reg \/ reg' = [reg EXCEPT ![r] = tor]
                                  /\ how = "done" => reg' = [reg EXCEPT ![r] = tor]
                                  /\ r[1] = "anlt"
    OBVIOUS
  <2>1. c = whole[7]
    BY <1>9
  <2>2. c.at = "b" /\ c.val = tor /\ c.kind = "set" /\ c.what = "anlt"
    BY <1>4, <2>1
  <2> QED BY <1>1, <1>7, <1>8, <1>17, <2>2 DEF Port!Value
<1>21. n = 4 => (how = "done" => r = <<"mode", "all">> /\ reg' = [reg EXCEPT ![r] = matched.mode])
  <2> SUFFICES ASSUME n = 4, how = "done" PROVE r = <<"mode", "all">> /\ reg' = [reg EXCEPT ![r] = matched.mode]
    OBVIOUS
  <2>1. c = whole[4]
    BY <1>9
  <2>2. c.at = "all" /\ c.kind = "mode" /\ c.what = "mode"
    BY <1>4, <2>1
  <2> QED BY <1>1, <1>8, <1>17, <2>2 DEF Port!Value
<1>22. n - 1 <= 3 /\ call'.sure /\ call'.alone => reg'[<<"mode", "all">>] = matched'.mode
  <2> HAVE n - 1 <= 3 /\ call'.sure /\ call'.alone
  <2>1. n \in {1, 2, 3, 4}
    BY <1>9
  <2>2. CASE n = 4
    BY <1>5, <1>6, <1>12, <1>16, <1>21, <2>2
  <2>3. CASE n \in {1, 2, 3}
    <3>1. r # <<"mode", "all">> /\ reg[<<"mode", "all">>] = matched.mode
      BY <1>3, <1>7, <1>16, <1>18, <1>19, <1>20, <2>3
    <3> QED BY <1>5, <1>6, <1>8, <1>12, <3>1
  <2> QED BY <2>1, <2>2, <2>3
<1>23. n - 1 <= 2 /\ call'.ok /\ call'.sided => reg'[<<"anlt", "nic">>] = nic
  <2> HAVE n - 1 <= 2 /\ call'.ok /\ call'.sided
  <2>1. n \in {1, 2, 3} /\ <<"anlt", "nic">> \in Port!Registers(family)
    BY <1>5, <1>9 DEF Port!Ends
  <2>2. CASE n = 3
    BY <1>5, <1>15, <1>18, <2>1, <2>2
  <2>3. CASE n \in {1, 2}
    <3>1. r # <<"anlt", "nic">> /\ reg[<<"anlt", "nic">>] = nic
      BY <1>3, <1>15, <1>19, <1>20, <2>3
    <3> QED BY <1>5, <1>8, <2>1, <3>1
  <2> QED BY <2>1, <2>2, <2>3
<1>24. n - 1 <= 1 /\ call'.ok /\ call'.sided => reg'[<<"anlt", "a">>] = tor
  <2> HAVE n - 1 <= 1 /\ call'.ok /\ call'.sided
  <2>1. n \in {1, 2} /\ <<"anlt", "a">> \in Port!Registers(family)
    BY <1>5, <1>9 DEF Port!Ends
  <2>2. CASE n = 2
    BY <1>5, <1>15, <1>19, <2>1, <2>2
  <2>3. CASE n = 1
    <3>1. r # <<"anlt", "a">> /\ reg[<<"anlt", "a">>] = tor
      BY <1>3, <1>15, <1>20, <2>3
    <3> QED BY <1>5, <1>8, <2>1, <3>1
  <2> QED BY <2>1, <2>2, <2>3
<1>25. n - 1 = 0 /\ call'.sure /\ call'.sided => reg'[<<"anlt", "b">>] = tor
  <2> HAVE n - 1 = 0 /\ call'.sure /\ call'.sided
  <2>1. n = 1 /\ <<"anlt", "b">> \in Port!Registers(family)
    BY <1>5, <1>9 DEF Port!Ends
  <2> QED BY <1>5, <1>15, <1>16, <1>20, <2>1
<1> QED BY ONLY <1>2, <1>11, <1>12, <1>14, <1>22, <1>23, <1>24, <1>25 DEF Configured

-------------------------------------------------------------------------------
(* set_fec_mode.                                                             *)

(* The four reads of set_fec_mode. *)
LEMMA FecProgramIs ==
    ASSUME NEW f
    PROVE  LET s == FecProgram(f) IN
           /\ Len(s) = 4
           /\ \A i \in 1..4 : s[i].kind = "learn"
           /\ s[1].what = "mode" /\ s[1].at = "all" /\ s[1].fails = "stop"
           /\ \A i \in 2..4 : s[i].what = "anlt" /\ s[i].fails = "ignore" /\ s[i].goOn = -1..3
           /\ s[2].at = "nic" /\ s[3].at = "a" /\ s[4].at = "b"
<1> DEFINE s == FecProgram(f)
           vs == IF f = 1 THEN {1, 3} ELSE {0, 2}
           first == [kind |-> "learn", what |-> "mode", at |-> "all", val |-> 0, goOn |-> vs, fails |-> "stop"]
           read(e) == [kind |-> "learn", what |-> "anlt", at |-> e, val |-> 0, goOn |-> -1..3,
                 fails |-> "ignore"]
<1>1. \A e : Port!Ignoring(Port!Learning(Port!Get("anlt", e))) = read(e)
  <2> SUFFICES ASSUME NEW e PROVE Port!Ignoring(Port!Learning(Port!Get("anlt", e))) = read(e)
    OBVIOUS
  <2>1. Port!Get("anlt", e) = [kind |-> "get", what |-> "anlt", at |-> e, val |-> 0, goOn |-> -1..3,
        fails |-> "stop"]
    BY DEF Port!Get, Port!Step
  <2>2. Port!Learning(Port!Get("anlt", e)) = [kind |-> "learn", what |-> "anlt", at |-> e, val |-> 0,
        goOn |-> -1..3, fails |-> "stop"]
    BY <2>1 DEF Port!Learning
  <2> QED BY <2>2 DEF Port!Ignoring
<1>2. Port!Only(Port!Learning(Port!cable_get_mode), vs) = first
  <2> HIDE DEF vs
  <2>1. Port!cable_get_mode = [kind |-> "get", what |-> "mode", at |-> "all", val |-> 0, goOn |-> -1..3,
        fails |-> "stop"]
    BY DEF Port!cable_get_mode, Port!Get, Port!Step
  <2>2. Port!Learning(Port!cable_get_mode) = [kind |-> "learn", what |-> "mode", at |-> "all", val |-> 0,
        goOn |-> -1..3, fails |-> "stop"]
    BY <2>1 DEF Port!Learning
  <2> QED BY <2>2 DEF Port!Only
<1> DEFINE n == read("nic")
           a == read("a")
           b == read("b")
<1>3. s = <<first, n, a, b>>
  BY <1>1, <1>2 DEF FecProgram
<1>4. /\ first.kind = "learn" /\ first.what = "mode" /\ first.at = "all" /\ first.fails = "stop"
      /\ \A x \in {n, a, b} : x.kind = "learn" /\ x.what = "anlt" /\ x.fails = "ignore" /\ x.goOn = -1..3
      /\ n.at = "nic" /\ a.at = "a" /\ b.at = "b"
  OBVIOUS
<1> HIDE DEF s, first, n, a, b
<1>5. Len(s) = 4 /\ s[1] = first /\ s[2] = n /\ s[3] = a /\ s[4] = b
  BY <1>3
<1>6. \A i \in 1..4 : s[i].kind = "learn"
  BY <1>4, <1>5
<1>7. \A i \in 2..4 : s[i].what = "anlt" /\ s[i].fails = "ignore" /\ s[i].goOn = -1..3
  BY <1>4, <1>5
<1> QED BY <1>4, <1>5, <1>6, <1>7 DEF s

(* What set_fec_mode knows of the port when so many reads are left.          *)
Knows(n) ==
    Faithful =>
       /\ n <= 3 => matched.fec = call.arg.fec
                    /\ matched.speed = SpeedOf(call.before[<<"mode", "all">>])
       /\ n <= 2 => matched.anlt_nic = call.before[<<"anlt", "nic">>]
       /\ n = 0 => matched.anlt_tor = call.before[<<"anlt", "b">>]

(* One read more of set_fec_mode. *)
LEMMA CarriesLearns ==
    ASSUME PortInv, NEW c, NEW r, NEW s0, NEW how, Carries(c, r, s0, how)
    PROVE  Learns'
<1> DEFINE n == Len(call.todo)
           whole == FecProgram(call.arg.fec)
           v == Reads(c, r, how)
<1>1. /\ c = call.todo[1] /\ n \in Nat \ {0} /\ Len(Tail(call.todo)) = n - 1
      /\ \A i \in 1..Len(Tail(call.todo)) : Tail(call.todo)[i] = call.todo[i + 1]
      /\ r \in Port!Registers(family)
      /\ c.at \in Port!Targets /\ s0 = host => r = <<c.what, Port!Meant(c.at)>>
      /\ c.at \notin Port!Targets => r = <<c.what, c.at>>
      /\ call.running
  BY CarriesFields
<1>2. /\ call'.api = call.api /\ call'.arg = call.arg /\ call'.alone = call.alone /\ call'.before = call.before
      /\ call'.todo = IF Stops(c, how, v) THEN <<>> ELSE Tail(call.todo)
      /\ call'.running = ~Stops(c, how, v)
      /\ call'.sided = (call.sided /\ s0 = host)
      /\ call'.sure = (call.sure /\ how = "done")
      /\ v \in -1..3
  BY CarriesCall
<1>3. /\ reg' = IF how = "refused"
          \/ c.kind \in {"get", "learn"} THEN reg ELSE [reg EXCEPT ![r] = Port!Value(c)]
      /\ matched' = IF c.kind = "learn" THEN Port!Learned(c, v) ELSE matched
  BY DEF Carries
<1> SUFFICES ASSUME call.api = "set_fec_mode"
             PROVE  Learns'
  BY <1>2 DEF Learns
<1>4. /\ call.arg.fec \in {0, 1} /\ call.before \in [Port!Registers("port") -> 0..3]
      /\ \A e \in Port!Ends : call.before[<<"anlt", e>>] \in {0, 1}
      /\ Suffix(call.todo, whole) /\ reg = call.before /\ Knows(n)
  BY <1>1 DEF PortInv, Learns, Knows
<1>5. matched \in Attributes
  BY DEF PortInv, Typed
<1> HIDE DEF n, v
<1>6. n <= Len(whole) /\ \A i \in 1..n : call.todo[i] = whole[Len(whole) - n + i]
  BY <1>4 DEF Suffix, n
<1>7. /\ Len(whole) = 4
      /\ \A i \in 1..4 : whole[i].kind = "learn"
      /\ whole[1].what = "mode" /\ whole[1].at = "all" /\ whole[1].fails = "stop"
      /\ \A i \in 2..4 : whole[i].what = "anlt" /\ whole[i].fails = "ignore" /\ whole[i].goOn = -1..3
      /\ whole[2].at = "nic" /\ whole[3].at = "a" /\ whole[4].at = "b"
  BY FecProgramIs
<1> HIDE DEF whole
<1>8. c = whole[5 - n] /\ 5 - n \in 1..4 /\ n \in 1..4
  <2>1. 1 \in 1..n /\ n \in 1..4 /\ 4 - n + 1 = 5 - n
    BY <1>1, <1>6, <1>7
  <2> QED BY <1>1, <1>6, <1>7, <2>1
<1>9. c.kind = "learn" /\ reg' = reg /\ matched' = Port!Learned(c, v)
  BY <1>3, <1>7, <1>8
<1>10. /\ call'.arg.fec \in {0, 1} /\ call'.before \in [Port!Registers("port") -> 0..3]
       /\ \A e \in Port!Ends : call'.before[<<"anlt", e>>] \in {0, 1}
  BY <1>2, <1>4
<1> SUFFICES ASSUME ~Stops(c, how, v)
             PROVE  Learns'
  BY <1>2, <1>10 DEF Learns
<1>11. call'.todo = Tail(call.todo) /\ Len(call'.todo) = n - 1
  BY <1>1, <1>2
<1>12. Suffix(call'.todo, whole)
  <2>1. \A i \in 1..(n - 1) : call'.todo[i] = call.todo[i + 1] /\ i + 1 \in 1..n
    BY <1>1, <1>11
  <2>2. \A i \in 1..(n - 1) : 4 - n + (i + 1) = 4 - (n - 1) + i
    BY <1>8
  <2>3. \A i \in 1..(n - 1) : call'.todo[i] = whole[4 - (n - 1) + i]
    BY <1>6, <1>7, <2>1, <2>2
  <2> DEFINE new == call'.todo
  <2>4. Len(new) = n - 1 /\ Len(whole) = 4 /\ n \in 1..4
        /\ \A i \in 1..(n - 1) : new[i] = whole[4 - (n - 1) + i]
    BY <1>7, <1>8, <1>11, <2>3
  <2> HIDE DEF new
  <2>5. Suffix(new, whole)
    BY ONLY <2>4 DEF Suffix
  <2> QED BY <2>5 DEF new
<1>13. Suffix(call.todo, FecProgram(call.arg.fec))'
  <2>1. whole = FecProgram(call'.arg.fec)
    BY <1>2 DEF whole
  <2> QED BY ONLY <1>12, <2>1 DEF Suffix, FecProgram
<1>14. Port!Meant("nic") = "nic" /\ Port!Meant("a") = "a" /\ Port!Meant("b") = "b"
      /\ {"nic", "a", "b"} = Port!Ends /\ "all" \notin Port!Targets
       /\ Port!Ends \subseteq Port!Targets
  BY DEF Port!Meant, Port!Targets, Port!Ends
<1> DEFINE was == call.before
<1>15. ASSUME Faithful'
       PROVE  Faithful /\ s0 = host /\ how = "done" /\ v = was[r]
              /\ r = <<c.what, c.at>>
  <2>1. Faithful /\ s0 = host /\ how = "done"
    BY <1>2, <1>15 DEF Faithful
  <2>2. v = was[r]
    BY <1>4, <2>1 DEF Reads, v
  <2>3. c.at \in {"all", "nic", "a", "b"}
    BY <1>7, <1>8
  <2> QED BY <1>1, <1>14, <2>1, <2>2, <2>3
<1>16. Faithful' => /\ n - 1 <= 3 => matched'.fec = call.arg.fec
                        /\ matched'.speed = SpeedOf(was[<<"mode", "all">>])
                    /\ n - 1 <= 2 => matched'.anlt_nic = was[<<"anlt", "nic">>]
                    /\ n - 1 = 0 => matched'.anlt_tor = was[<<"anlt", "b">>]
  <2> SUFFICES ASSUME Faithful'
               PROVE  /\ n - 1 <= 3 => matched'.fec = call.arg.fec
                          /\ matched'.speed = SpeedOf(was[<<"mode", "all">>])
                      /\ n - 1 <= 2 => matched'.anlt_nic = was[<<"anlt", "nic">>]
                      /\ n - 1 = 0 => matched'.anlt_tor = was[<<"anlt", "b">>]
    OBVIOUS
  <2>1. /\ n <= 3 => matched.fec = call.arg.fec /\ matched.speed = SpeedOf(was[<<"mode", "all">>])
        /\ n <= 2 => matched.anlt_nic = was[<<"anlt", "nic">>]
    BY <1>4, <1>15 DEF Knows
  <2>2. CASE n = 4
    <3>1. c = whole[1]
      BY <1>8, <2>2
    <3>2. r = <<"mode", "all">> /\ how = "done" /\ v = was[r] /\ c.what = "mode"
      BY <1>7, <1>15, <3>1
    <3>3. v \in c.goOn
      BY <1>9, <3>2 DEF Stops
    <3>4. r \in Port!Registers("port")
      BY <3>2 DEF Port!Registers
    <3>5. v # Port!Lost
      BY <1>4, <3>2, <3>4 DEF Port!Lost
    <3>6. matched' = [matched EXCEPT !.mode = v, !.fec = call.arg.fec, !.speed = IF v < 2 THEN 100 ELSE 50]
      BY <1>9, <3>2, <3>3, <3>5 DEF Port!Learned
    <3>7. matched'.fec = call.arg.fec /\ matched'.speed = IF v < 2 THEN 100 ELSE 50
      BY ONLY <1>5, <3>6 DEF Attributes
    <3> QED BY <2>2, <3>2, <3>7 DEF SpeedOf
  <2>3. CASE n \in {1, 2, 3}
    <3>1. c.what = "anlt" /\ r = <<"anlt", c.at>> /\ v = was[r]
      BY <1>7, <1>8, <1>15, <2>3
    <3>2. n = 3 => c.at = "nic"
      BY <1>7, <1>8
    <3>3. n = 2 => c.at = "a"
      BY <1>7, <1>8
    <3>4. n = 1 => c.at = "b"
      BY <1>7, <1>8
    <3>5. c.at \in Port!Ends /\ v \in {0, 1} /\ (IF v = 1 THEN 1 ELSE 0) = v
      BY <1>4, <1>14, <2>3, <3>1, <3>2, <3>3, <3>4
    <3>6. n = 3 => matched' = [matched EXCEPT !.anlt_nic = v]
      BY <1>9, <3>1, <3>2, <3>5 DEF Port!Learned
    <3>7. n \in {1, 2} => matched' = [matched EXCEPT !.anlt_tor = v]
      BY <1>9, <3>1, <3>3, <3>4, <3>5 DEF Port!Learned
    <3>8. matched'.fec = matched.fec /\ matched'.speed = matched.speed
      BY ONLY <1>5, <2>3, <3>6, <3>7 DEF Attributes
    <3>9. /\ n = 3 => matched'.anlt_nic = v
          /\ n \in {1, 2} => matched'.anlt_tor = v /\ matched'.anlt_nic = matched.anlt_nic
      BY ONLY <1>5, <3>6, <3>7 DEF Attributes
    <3> QED BY <2>1, <2>3, <3>1, <3>2, <3>4, <3>8, <3>9
  <2> QED BY <1>8, <2>2, <2>3
<1> HIDE DEF was
<1>17. reg' = call'.before /\ was = call'.before
  BY <1>2, <1>4, <1>9 DEF was
<1>18. Len(call'.todo) = n - 1 /\ call'.arg = call.arg
  BY <1>2, <1>11
<1> QED BY ONLY <1>10, <1>13, <1>16, <1>17, <1>18 DEF Learns

-------------------------------------------------------------------------------
(* All steps, and what they promise.                                         *)

(* Any command of any call. *)
LEMMA CommandStep == ASSUME PortInv, Port!Command PROVE PortInv'
<1>1. PICK c, r, s0, how : Carries(c, r, s0, how)
  BY CommandCarries
<1>2. Typed' /\ Learners' /\ Promised' /\ Learns'
  BY <1>1, CarriesTyped, CarriesLearners, CarriesPromised, CarriesLearns
<1>3. call'.api = call.api /\ call'.arg = call.arg /\ call'.before = call.before /\ call'.alone = call.alone
      /\ (call'.sided => call.sided) /\ (call'.sure => call.sure)
  BY <1>1, CarriesCall
<1>4. call.api \in Shared => family = "port"
  BY DEF PortInv, Learners
<1>5. \A tor, nic : family = "port" /\ Configured(tor, nic) => Configured(tor, nic)' /\ UNCHANGED matched
  BY <1>1, CarriesConfigured
<1>6. Created'
  <2>1. SUFFICES ASSUME call.api = "create_port" PROVE Created'
    BY <1>3 DEF Created
  <2>2. family = "port" /\ Configured(call.arg.tor, call.arg.nic)
    BY <1>4, <2>1 DEF PortInv, Created, Shared
  <2>3. PICK tor, nic : tor = call.arg.tor /\ nic = call.arg.nic
    OBVIOUS
  <2>4. Configured(tor, nic)
    BY <2>2, <2>3
  <2>5. Configured(tor, nic)'
    BY <1>5, <2>2, <2>4
  <2>6. call'.arg.tor = tor /\ call'.arg.nic = nic
    BY <1>3, <2>3
  <2> QED BY ONLY <2>5, <2>6 DEF Created, Configured, Suffix, Port!PortCommands
<1>7. Recreated'
  <2>1. SUFFICES ASSUME call.api = "set_fec_mode by create_port" PROVE Recreated'
    BY <1>3 DEF Recreated
  <2>2. family = "port"
    BY <1>4, <2>1 DEF Shared
  <2>3. /\ call.arg.fec \in {0, 1} /\ call.before \in [Port!Registers("port") -> 0..3]
        /\ \A e \in Port!Ends : call.before[<<"anlt", e>>] \in {0, 1}
    BY <2>1 DEF PortInv, Recreated
  <2>4. PICK tor \in {0, 1}, nic \in {0, 1} :
          /\ Configured(tor, nic)
          /\ Faithful => /\ nic = call.before[<<"anlt", "nic">>] /\ tor = call.before[<<"anlt", "b">>]
                         /\ matched = Port!Entry(SpeedOf(call.before[<<"mode", "all">>]), call.arg.fec)
    BY <2>1 DEF PortInv, Recreated
  <2>5. Configured(tor, nic)' /\ UNCHANGED matched
    BY <1>5, <2>2, <2>4
  <2>6. Faithful' => Faithful
    BY <1>3 DEF Faithful
  <2> QED BY ONLY <1>3, <2>3, <2>4, <2>5, <2>6 DEF Recreated
<1> QED BY <1>2, <1>6, <1>7 DEF PortInv

(* set_fec_mode goes on as create_port with what it has learnt. *)
LEMMA CreateForFecStep == ASSUME PortInv, Port!CreateForFec PROVE PortInv'
<1>0. PICK tor \in {0, 1}, nic \in {0, 1} :
        tor = (IF matched.anlt_tor = 1 THEN 1 ELSE 0) /\ nic = (IF matched.anlt_nic = 1 THEN 1 ELSE 0)
  OBVIOUS
<1> DEFINE todo == Port!PortCommands(tor, nic)
<1>1. /\ call.running /\ call.todo = <<>> /\ call.api = "set_fec_mode"
      /\ call' = [call EXCEPT !.api = "set_fec_mode by create_port", !.todo = todo]
      /\ matched' = Port!Entry(matched.speed, matched.fec) /\ UNCHANGED <<host, family, reg>>
  BY <1>0 DEF Port!CreateForFec
<1>3. call \in CallsOf(family) /\ matched \in Attributes /\ family = "port"
  BY <1>1 DEF PortInv, Typed, Learners, Shared
<1>4. todo \in Seq(Commands("port")) /\ Len(todo) = 7 /\ \A i \in 1..7 : todo[i].kind # "learn"
  BY PortCommandsFit
<1>5. /\ call.arg.fec \in {0, 1} /\ call.before \in [Port!Registers("port") -> 0..3]
      /\ \A e \in Port!Ends : call.before[<<"anlt", e>>] \in {0, 1}
      /\ Faithful => /\ matched.fec = call.arg.fec
                     /\ matched.speed = SpeedOf(call.before[<<"mode", "all">>])
                     /\ matched.anlt_nic = call.before[<<"anlt", "nic">>]
                     /\ matched.anlt_tor = call.before[<<"anlt", "b">>]
  <2>1. Len(call.todo) = 0
    BY <1>1
  <2> QED BY <1>1, <2>1 DEF PortInv, Learns
<1> HIDE DEF todo
<1>6. /\ call'.api = "set_fec_mode by create_port" /\ call'.todo = todo /\ call'.arg = call.arg
      /\ call'.before = call.before /\ call'.sure = call.sure /\ call'.ok = call.ok
          /\ call'.running = call.running
      /\ call'.sided = call.sided /\ call'.alone = call.alone /\ call' \in CallsOf("port")
  <2>1. "set_fec_mode by create_port" \in Apis
    BY DEF Apis
  <2> QED BY ONLY <1>1, <1>3, <1>4, <2>1 DEF CallsOf
<1>7. Typed'
  <2>1. matched' \in Attributes
    <3>1. matched.speed \in {50, 100} /\ matched.fec \in {0, 1}
      BY <1>3 DEF Attributes
    <3> QED BY <1>1, <3>1, EntryType
  <2> QED BY <1>1, <1>3, <1>6, <2>1 DEF PortInv, Typed
<1>8. Learners'
  BY <1>1, <1>3, <1>4, <1>6 DEF Learners
<1>9. Promised' /\ Created' /\ Learns'
  BY ONLY <1>6 DEF Promised, Promising, Created, Learns
<1>10. Configured(tor, nic)'
  <2>1. Suffix(todo, Port!PortCommands(tor, nic))
    BY <1>4, WholeSuffix DEF todo
  <2>2. Suffix(call.todo, Port!PortCommands(tor, nic))'
    BY ONLY <1>6, <2>1 DEF Suffix, Port!PortCommands
  <2>3. Len(call'.todo) = 7
    BY <1>4, <1>6
  <2> QED BY ONLY <2>2, <2>3, tor \in {0, 1}, nic \in {0, 1} DEF Configured
<1>11. Recreated'
  <2>1. Faithful' => Faithful
    BY <1>6 DEF Faithful
  <2>2. Faithful => /\ nic = call.before[<<"anlt", "nic">>] /\ tor = call.before[<<"anlt", "b">>]
                    /\ matched' = Port!Entry(SpeedOf(call.before[<<"mode", "all">>]), call.arg.fec)
    <3>1. call.before[<<"anlt", "nic">>] \in {0, 1} /\ call.before[<<"anlt", "b">>] \in {0, 1}
      BY <1>5 DEF Port!Ends
    <3> QED BY <1>0, <1>1, <1>5, <3>1
  <2>3. \E x \in {0, 1}, y \in {0, 1} :
           /\ Configured(x, y)'
           /\ Faithful' => /\ y = call'.before[<<"anlt", "nic">>] /\ x = call'.before[<<"anlt", "b">>]
                           /\ matched' = Port!Entry(SpeedOf(call'.before[<<"mode", "all">>]), call'.arg.fec)
    BY <1>6, <1>10, <2>1, <2>2
  <2> QED BY ONLY <1>5, <1>6, <2>3 DEF Recreated
<1> QED BY <1>7, <1>8, <1>9, <1>11 DEF PortInv

(* The invariant is inductive, *)
LEMMA PortStep == ASSUME PortInv, [Port!Next]_Port!vars PROVE PortInv'
<1>1. CASE UNCHANGED Port!vars
  <2>1. UNCHANGED <<host, family, reg, matched, call>>
    BY <1>1 DEF Port!vars
  <2>2. \A tor, nic : Configured(tor, nic) => Configured(tor, nic)'
    BY ZenonT(60), <2>1 DEF Configured, Suffix
  <2>3. Typed' /\ Learners' /\ Promised' /\ Learns'
    BY <2>1 DEF PortInv, Typed, Learners, Promised, Port!Promise, Port!Meant, Learns, Faithful
  <2>4. Created' /\ Recreated'
    BY <2>1, <2>2 DEF PortInv, Created, Recreated, Faithful
  <2> QED BY <2>3, <2>4 DEF PortInv
<1> QED BY <1>1, BeginStep, CommandStep, CreateForFecStep, ReturnStep, SeenStep, OtherPortStep, HappensStep
   DEF Port!Next

(* and implies the types, *)
LEMMA PortTypeOK == PortInv => Port!TypeOK
<1> SUFFICES ASSUME PortInv PROVE Port!TypeOK
  OBVIOUS
<1>1. /\ host \in Port!Ends /\ family \in Port!Families /\ reg \in [Port!Registers(family) -> 0..3]
          /\ matched \in Attributes
      /\ call \in CallsOf(family) /\ (call.todo # <<>> => call.running)
  BY DEF PortInv, Typed
<1>2. DOMAIN call = DOMAIN Port!Idle /\ call.running \in BOOLEAN /\ call.ok \in BOOLEAN
      /\ call.got \in Seq(-1..3)
  BY <1>1 DEF CallsOf, Port!Idle
<1>3. \A i \in 1..Len(call.got) : call.got[i] \in -1..3
  BY <1>2, ElementOfSeq
<1> QED BY <1>1, <1>2, <1>3 DEF Port!TypeOK, Attributes

(* what the caller is told, *)
LEMMA PortTold == PortInv => Port!ToldTruly
<1> SUFFICES ASSUME PortInv, Port!Returned, call.ok, call.sided, NEW p \in Port!Promise
             PROVE  reg[<<p[1], Port!Meant(call.arg.at)>>] = p[2]
  BY DEF Port!ToldTruly
<1>1. call.todo = <<>> /\ 1..Len(call.todo) = {}
  BY DEF PortInv, Typed, Port!Returned
<1>2. call.api \in Promising
  BY DEF Port!Promise, Promising
<1> QED BY <1>1, <1>2 DEF PortInv, Promised

(* what create_port promises, and *)
LEMMA PortCreated == PortInv => Port!CreatedAsAsked
<1> SUFFICES ASSUME PortInv, Port!Returned, call.api = "create_port", call.ok, call.sided
             PROVE  reg[<<"anlt", "nic">>] = call.arg.nic /\ reg[<<"anlt", "a">>] = call.arg.tor
  BY DEF Port!CreatedAsAsked
<1>1. Len(call.todo) = 0
  BY DEF PortInv, Typed, Port!Returned
<1> QED BY <1>1 DEF PortInv, Created, Configured

(* what a change of the FEC mode keeps. *)
LEMMA PortKeeps == PortInv => Port!FecKeepsTheRest
<1> DEFINE was == call.before
<1> SUFFICES ASSUME PortInv, Port!Returned, call.api = "set_fec_mode by create_port", call.sure, call.sided,
      call.alone
             PROVE  /\ reg[<<"mode", "all">>] = (IF was[<<"mode", "all">>] < 2 THEN 0 ELSE 2) + 1 - call.arg.fec
                    /\ reg[<<"anlt", "nic">>] = was[<<"anlt", "nic">>]
                    /\ was[<<"anlt", "a">>] = was[<<"anlt", "b">>] =>
                          \A e \in {"a", "b"} : reg[<<"anlt", e>>] = was[<<"anlt", e>>]
  BY DEF Port!FecKeepsTheRest
<1>1. Len(call.todo) = 0 /\ call.ok /\ Faithful
  BY DEF PortInv, Typed, Port!Returned, Faithful
<1>2. PICK tor \in {0, 1}, nic \in {0, 1} :
        /\ Configured(tor, nic)
        /\ nic = was[<<"anlt", "nic">>] /\ tor = was[<<"anlt", "b">>]
        /\ matched = Port!Entry(SpeedOf(was[<<"mode", "all">>]), call.arg.fec)
  BY <1>1 DEF PortInv, Recreated
<1>3. /\ reg[<<"anlt", "nic">>] = nic /\ reg[<<"anlt", "a">>] = tor /\ reg[<<"anlt", "b">>] = tor
      /\ reg[<<"mode", "all">>] = matched.mode
  <2> DEFINE n == Len(call.todo)
  <2>1. n <= 3 /\ n <= 2 /\ n <= 1
    <3>1. n = 0
      BY <1>1
    <3> HIDE DEF n
    <3> QED BY ONLY <3>1
  <2> QED BY <1>1, <1>2, <2>1 DEF Configured
<1>4. matched.mode = (IF was[<<"mode", "all">>] < 2 THEN 0 ELSE 2) + 1 - call.arg.fec
  <2> DEFINE m == SpeedOf(was[<<"mode", "all">>])
  <2>1. m = 100 <=> was[<<"mode", "all">>] < 2
    <3>1. <<"mode", "all">> \in Port!Registers("port")
      BY DEF Port!Registers
    <3>2. was[<<"mode", "all">>] \in 0..3
      BY <3>1 DEF PortInv, Recreated
    <3> DEFINE x == was[<<"mode", "all">>]
    <3>3. m = IF x < 2 THEN 100 ELSE 50
      BY DEF SpeedOf
    <3> HIDE DEF x, m
    <3> QED BY ONLY <3>2, <3>3 DEF x
  <2>2. matched.mode = (IF m = 100 THEN 0 ELSE 2) + 1 - call.arg.fec
    <3> HIDE DEF m
    <3>1. matched = Port!Entry(m, call.arg.fec)
      BY <1>2 DEF m
    <3> QED BY ONLY <3>1 DEF Port!Entry
  <2> HIDE DEF m
  <2> QED BY ONLY <2>1, <2>2
<1> QED BY <1>2, <1>3, <1>4

-------------------------------------------------------------------------------
(* The driver: a behaviour of the configuration, or one of another part.     *)
ConfigurationInv == part = "port" => PortInv

LEMMA ConfigurationPart ==
    [Next]_vars => /\ part' = part
                   /\ part = "port" => [Port!Next]_Port!vars
<1> SUFFICES ASSUME [Next]_vars
             PROVE  part' = part /\ (part = "port" => [Port!Next]_Port!vars)
  OBVIOUS
<1>1. CASE UNCHANGED vars
  BY <1>1 DEF vars, Port!vars, ofPort
<1>2. CASE Next
  BY <1>2 DEF Next
<1> QED BY <1>1, <1>2

LEMMA ConfigurationInit == Init => ConfigurationInv
<1> SUFFICES ASSUME Init, part = "port" PROVE PortInv
  BY DEF ConfigurationInv
<1>1. Port!Init
  BY DEF Init
<1> QED BY <1>1, PortInitInv

LEMMA ConfigurationNext == ConfigurationInv /\ [Next]_vars => ConfigurationInv'
<1> SUFFICES ASSUME ConfigurationInv, [Next]_vars, part' = "port" PROVE PortInv'
  BY DEF ConfigurationInv
<1>1. part = "port" /\ [Port!Next]_Port!vars
  BY ConfigurationPart
<1> QED BY <1>1, PortStep DEF ConfigurationInv

(* The variables of the configuration have their types, and a program is left *)
(* only while its call runs (y_cable_broadcom.py).                            *)
THEOREM ConfigurationTyped == Spec => [](part = "port" => Port!TypeOK)
<1>1. ConfigurationInv => (part = "port" => Port!TypeOK)
  BY PortTypeOK DEF ConfigurationInv
<1> QED
  BY <1>1, ConfigurationInit, ConfigurationNext, PTL DEF Spec

(* A setting that returns True holds at the end it was meant for             *)
(* (enable_prbs_mode, disable_loopback_mode, cable_set_squelch,              *)
(* set_target_cursor_values and set_anlt), on whichever end the host is.     *)
THEOREM TrulyTold == Spec => []ToldTruly
<1>1. ConfigurationInv => ToldTruly
  BY PortTold DEF ConfigurationInv, ToldTruly
<1> QED
  BY <1>1, ConfigurationInit, ConfigurationNext, PTL DEF Spec

(* create_port that returns True has left the NIC and ToR A negotiating as   *)
(* asked, whatever was refused or lost on the way.                           *)
THEOREM CreatedRight == Spec => []CreatedAsAsked
<1>1. ConfigurationInv => CreatedAsAsked
  BY PortCreated DEF ConfigurationInv, CreatedAsAsked
<1> QED
  BY <1>1, ConfigurationInit, ConfigurationNext, PTL DEF Spec

(* set_fec_mode keeps the speed and the auto-negotiation of the port, unless *)
(* another port is configured meanwhile.                                     *)
THEOREM FecKeeps == Spec => []FecKeepsTheRest
<1>1. ConfigurationInv => FecKeepsTheRest
  BY PortKeeps DEF ConfigurationInv, FecKeepsTheRest
<1> QED
  BY <1>1, ConfigurationInit, ConfigurationNext, PTL DEF Spec

-------------------------------------------------------------------------------
(***************************************************************************)
(* The mailbox: its type, the lock, and that it is a command channel.      *)
(***************************************************************************)

LEMMA MailboxInitType == ASSUME Mailbox!MailboxAssumption PROVE Mailbox!Init => Mailbox!TypeOK
<1>1. Mailbox!Init => polls \in 0..MaxPolls /\ refused \in 0..Mailbox!MaxRefused
  BY DEF Mailbox!MailboxAssumption, Mailbox!Init, Mailbox!MaxRefused
<1> QED
  BY <1>1 DEF Mailbox!Init, Mailbox!TypeOK

LEMMA MailboxStepType ==
    ASSUME Mailbox!MailboxAssumption
    PROVE  Mailbox!TypeOK /\ [Mailbox!Next]_Mailbox!vars => Mailbox!TypeOK'
<1> SUFFICES ASSUME Mailbox!TypeOK, [Mailbox!Next]_Mailbox!vars PROVE Mailbox!TypeOK'
  OBVIOUS
<1> USE DEF Mailbox!TypeOK
<1>1. ASSUME NEW t \in Threads, Mailbox!Call(t) PROVE Mailbox!TypeOK'
  BY <1>1 DEF Mailbox!Call, Mailbox!Goto, Mailbox!Forget
<1>2. ASSUME NEW t \in Threads, Mailbox!Lock(t) PROVE Mailbox!TypeOK'
  BY <1>2 DEF Mailbox!Lock, Mailbox!Goto, Mailbox!McuIdle
<1>3. ASSUME NEW t \in Threads, Mailbox!LockTimesOut(t) PROVE Mailbox!TypeOK'
  BY <1>3 DEF Mailbox!LockTimesOut, Mailbox!Goto
<1>4. ASSUME NEW t \in Threads, NEW v \in {"ok", "error"}, NEW how \in {"lost", "away", "done"},
             Mailbox!Return(t, v, how), UNCHANGED <<mcu, cmd, sts, params, work, ran>>
      PROVE Mailbox!TypeOK'
  <2>1. refused' \in 0..Mailbox!MaxRefused
    BY <1>4 DEF Mailbox!Return, Mailbox!MaxRefused
  <2>2. pc' \in [Threads -> {"idle", "lock", "look", "withdraw", "reset", "params", "trigger", "poll",
                             "response", "clear", "release"}]
    BY <1>4 DEF Mailbox!Return, Mailbox!Goto
  <2>3. verdict' \in [Threads -> {"none", "ok", "error"}] /\ calm' \in BOOLEAN
    BY <1>4 DEF Mailbox!Return
  <2>4. polls' \in 0..MaxPolls
    BY <1>4 DEF Mailbox!Return, Mailbox!MailboxAssumption
  <2>5. holder' \in Threads \cup {Nobody} /\ failing' \in BOOLEAN
    BY <1>4 DEF Mailbox!Return
  <2> QED
    BY <1>4, <2>1, <2>2, <2>3, <2>4, <2>5
<1>5. ASSUME NEW t \in Threads, Mailbox!Lost(t) PROVE Mailbox!TypeOK'
  BY <1>4, <1>5 DEF Mailbox!Lost
<1>6. ASSUME NEW t \in Threads, Mailbox!Look(t) PROVE Mailbox!TypeOK'
  BY <1>4, <1>6 DEF Mailbox!Look, Mailbox!Goto
<1>7. ASSUME NEW t \in Threads, Mailbox!Withdraw(t) \/ Mailbox!Trigger(t) \/ Mailbox!Clear(t) PROVE Mailbox!TypeOK'
  BY <1>7 DEF Mailbox!Withdraw, Mailbox!Trigger, Mailbox!Clear, Mailbox!WriteCmd, Mailbox!Goto
<1>8. ASSUME NEW t \in Threads, Mailbox!Reset(t) PROVE Mailbox!TypeOK'
  BY <1>4, <1>8 DEF Mailbox!Reset
<1>9. ASSUME NEW t \in Threads, Mailbox!PollAgain(t) PROVE Mailbox!TypeOK'
  BY <1>9 DEF Mailbox!PollAgain, Mailbox!MailboxAssumption
<1>10. ASSUME NEW t \in Threads, Mailbox!WriteParams(t) \/ Mailbox!ReadResponse(t) PROVE Mailbox!TypeOK'
  BY <1>10 DEF Mailbox!WriteParams, Mailbox!ReadResponse, Mailbox!Goto
<1>11. ASSUME NEW t \in Threads, Mailbox!Poll(t) PROVE Mailbox!TypeOK'
  BY <1>11 DEF Mailbox!Poll, Mailbox!Goto, Mailbox!MailboxAssumption
<1>12. ASSUME NEW t \in Threads, Mailbox!Release(t) PROVE Mailbox!TypeOK'
  BY <1>4, <1>12 DEF Mailbox!Release
<1>13. ASSUME Mailbox!McuStep PROVE Mailbox!TypeOK'
  BY <1>13 DEF Mailbox!McuStep, Mailbox!McuTake, Mailbox!McuFinish, Mailbox!McuFree
<1>14. CASE UNCHANGED Mailbox!vars
  BY <1>14 DEF Mailbox!vars
<1> QED
  BY <1>1, <1>2, <1>3, <1>5, <1>6, <1>7, <1>8, <1>9, <1>10, <1>11, <1>12, <1>13, <1>14
     DEF Mailbox!Next, Mailbox!ThreadStep

-------------------------------------------------------------------------------
(* The lock: only its holder is past it. *)
Inside == {"look", "withdraw", "reset", "params", "trigger", "poll", "response", "clear", "release"}
Locked == \A t \in Threads : pc[t] \in Inside => holder = t

(* A command the MCU works on is still written, and its caller has not been  *)
(* told anything: it was not carried out before.                             *)
Once ==
    /\ work # Nobody => cmd # Nobody /\ sts = "free"
    /\ \A t \in Threads :
        /\ work = t => cmd = t
        /\ cmd = t /\ sts = "free" => t \notin ran
        /\ cmd = t => verdict[t] # "ok"

(* How far the call of the holder has come. *)
Progress ==
    \A t \in Threads :
        /\ pc[t] # "idle" => verdict[t] = "none"
        /\ pc[t] \in {"lock", "look", "withdraw", "reset", "params", "trigger"} => cmd # t /\ t \notin ran
        /\ pc[t] = "withdraw" => cmd # Nobody /\ sts # "free"
        /\ pc[t] \in {"params", "trigger"} => cmd = Nobody /\ sts = "free"
        /\ pc[t] = "trigger" => params = t
        /\ pc[t] = "poll" => cmd = t /\ params = t /\ (work \in {t, Nobody}) /\ (sts = "done" => t \in ran)
        /\ pc[t] \in {"response", "clear"} => sts # "free" /\ cmd = t
        /\ pc[t] \in {"response", "clear", "release"} => failing \/ t \in ran
        /\ pc[t] = "release" => cmd # t

MailboxHeld == mcu = "timely" => Locked /\ Once /\ Progress

(* Steps of a thread other than a call and a lock leave the lock with its    *)
(* holder, or give it up.                                                    *)
LEMMA HeldStep ==
    ASSUME Mailbox!MailboxAssumption, Mailbox!TypeOK, Mailbox!TypeOK', MailboxHeld, [Mailbox!Next]_Mailbox!vars
    PROVE  MailboxHeld'
<1> SUFFICES ASSUME mcu = "timely", mcu' = "timely" PROVE Locked' /\ Once' /\ Progress'
  <2>1. mcu' = mcu
    BY DEF Mailbox!Next, Mailbox!ThreadStep, Mailbox!vars, Mailbox!Call, Mailbox!Lock, Mailbox!LockTimesOut,
       Mailbox!Lost, Mailbox!Look, Mailbox!Withdraw, Mailbox!Reset, Mailbox!PollAgain, Mailbox!WriteParams,
           Mailbox!Trigger, Mailbox!Poll, Mailbox!ReadResponse, Mailbox!Clear, Mailbox!Release, Mailbox!WriteCmd,
           Mailbox!McuStep, Mailbox!McuTake, Mailbox!McuFinish, Mailbox!McuFree
  <2> QED
    BY <2>1 DEF MailboxHeld
<1>1. Locked /\ Once /\ Progress
  BY DEF MailboxHeld
<1> USE <1>1 DEF Mailbox!MailboxAssumption, Mailbox!TypeOK, Locked, Once, Progress, Inside
<1>2. ASSUME NEW t \in Threads, Mailbox!Call(t) PROVE Locked' /\ Once' /\ Progress'
  BY <1>2 DEF Mailbox!Call, Mailbox!Goto, Mailbox!Forget
<1>3. ASSUME NEW t \in Threads, Mailbox!Lock(t) PROVE Locked' /\ Once' /\ Progress'
  BY <1>3 DEF Mailbox!Lock, Mailbox!Goto
<1>4. ASSUME NEW t \in Threads, Mailbox!LockTimesOut(t) PROVE Locked' /\ Once' /\ Progress'
  BY <1>4 DEF Mailbox!LockTimesOut, Mailbox!Goto
<1>5. ASSUME NEW t \in Threads, NEW v \in {"ok", "error"}, NEW how \in {"lost", "away", "done"},
             Mailbox!Return(t, v, how), UNCHANGED <<mcu, cmd, sts, params, work, ran>>,
             pc[t] \in Inside, v = "ok" => cmd # t
      PROVE Locked' /\ Once' /\ Progress'
  BY <1>5 DEF Mailbox!Return, Mailbox!Goto
<1>6. ASSUME NEW t \in Threads, Mailbox!Lost(t) PROVE Locked' /\ Once' /\ Progress'
  BY <1>5, <1>6 DEF Mailbox!Lost
<1>7. ASSUME NEW t \in Threads, Mailbox!Look(t) PROVE Locked' /\ Once' /\ Progress'
  BY <1>5, <1>7 DEF Mailbox!Look, Mailbox!Goto
<1>8. ASSUME NEW t \in Threads, Mailbox!Withdraw(t) PROVE Locked' /\ Once' /\ Progress'
  BY <1>8 DEF Mailbox!Withdraw, Mailbox!WriteCmd, Mailbox!Goto
<1>9. ASSUME NEW t \in Threads, Mailbox!Reset(t) PROVE Locked' /\ Once' /\ Progress'
  BY <1>5, <1>9 DEF Mailbox!Reset
<1>10. ASSUME NEW t \in Threads, Mailbox!PollAgain(t) PROVE Locked' /\ Once' /\ Progress'
  BY <1>10 DEF Mailbox!PollAgain
<1>11. ASSUME NEW t \in Threads, Mailbox!WriteParams(t) PROVE Locked' /\ Once' /\ Progress'
  BY <1>11 DEF Mailbox!WriteParams, Mailbox!Goto
<1>12. ASSUME NEW t \in Threads, Mailbox!Trigger(t) PROVE Locked' /\ Once' /\ Progress'
  BY <1>12 DEF Mailbox!Trigger, Mailbox!WriteCmd, Mailbox!Goto
<1>13. ASSUME NEW t \in Threads, Mailbox!Poll(t) PROVE Locked' /\ Once' /\ Progress'
  <2>1. pc[t] = "poll" /\ sts # "free"
    BY <1>13 DEF Mailbox!Poll, Mailbox!LastPoll
  <2>2. failing' \/ t \in ran
    BY <1>13, <2>1 DEF Mailbox!Poll
  <2>3. Locked' /\ Once'
    BY <1>13, <2>1 DEF Mailbox!Poll, Mailbox!Goto
  <2>4. ASSUME NEW u \in Threads, u # t PROVE pc'[u] = pc[u] /\ pc[u] \notin Inside
    BY <1>13, <2>1, <2>4 DEF Mailbox!Poll, Mailbox!Goto
  <2>5. pc'[t] \in {"response", "clear"}
    BY <1>13 DEF Mailbox!Poll, Mailbox!Goto
  <2>6. UNCHANGED <<sts, cmd, params, work, verdict, ran>>
    BY <1>13 DEF Mailbox!Poll
  <2> QED
    BY <2>1, <2>2, <2>3, <2>4, <2>5, <2>6
<1>14. ASSUME NEW t \in Threads, Mailbox!ReadResponse(t) PROVE Locked' /\ Once' /\ Progress'
  BY <1>14 DEF Mailbox!ReadResponse, Mailbox!Goto
<1>15. ASSUME NEW t \in Threads, Mailbox!Clear(t) PROVE Locked' /\ Once' /\ Progress'
  BY <1>15 DEF Mailbox!Clear, Mailbox!WriteCmd, Mailbox!Goto
<1>16. ASSUME NEW t \in Threads, Mailbox!Release(t) PROVE Locked' /\ Once' /\ Progress'
  BY <1>5, <1>16 DEF Mailbox!Release
<1>17. CASE Mailbox!McuTake
  BY <1>17 DEF Mailbox!McuTake
<1>18. CASE Mailbox!McuFinish
  BY <1>18 DEF Mailbox!McuFinish
<1>19. CASE Mailbox!McuFree
  BY <1>19 DEF Mailbox!McuFree
<1>20. CASE UNCHANGED Mailbox!vars
  BY <1>20 DEF Mailbox!vars
<1> QED
  BY <1>2, <1>3, <1>4, <1>6, <1>7, <1>8, <1>9, <1>10, <1>11, <1>12, <1>13, <1>14, <1>15, <1>16, <1>17, <1>18,
     <1>19, <1>20 DEF Mailbox!Next, Mailbox!ThreadStep, Mailbox!McuStep

-------------------------------------------------------------------------------
Clean == work = Nobody /\ cmd = Nobody /\ sts = "free"

(* A calm call meets what it saw when it got the lock; the one that is       *)
(* turned away leaves a clean mailbox behind, and nobody soils it before the *)
(* next one looks.                                                           *)
Repair ==
    mcu = "timely" =>
        /\ refused \in {0, 1}
        /\ refused = 1 /\ holder = Nobody => Clean
        /\ \A t \in Threads :
            /\ pc[t] = "look" => (calm => Mailbox!McuIdle) /\ (refused = 1 => Clean)
            /\ pc[t] \in {"withdraw", "reset"} => refused = 0
            /\ pc[t] = "withdraw" /\ calm => work = Nobody
            /\ pc[t] = "reset" /\ calm => work = Nobody /\ cmd = Nobody

LEMMA RepairStep ==
    ASSUME Mailbox!MailboxAssumption, Mailbox!TypeOK, MailboxHeld, Repair, [Mailbox!Next]_Mailbox!vars
    PROVE  Repair'
<1> SUFFICES ASSUME mcu' = "timely" PROVE Repair'
  BY DEF Repair
<1>1. mcu = "timely"
  BY DEF Mailbox!Next, Mailbox!ThreadStep, Mailbox!vars, Mailbox!Call, Mailbox!Lock, Mailbox!LockTimesOut,
         Mailbox!Lost, Mailbox!Look, Mailbox!Withdraw, Mailbox!Reset, Mailbox!PollAgain, Mailbox!WriteParams,
         Mailbox!Trigger, Mailbox!Poll, Mailbox!ReadResponse, Mailbox!Clear, Mailbox!Release, Mailbox!WriteCmd,
         Mailbox!McuStep, Mailbox!McuTake, Mailbox!McuFinish, Mailbox!McuFree
<1>2. Locked /\ Progress /\ Repair
  BY <1>1 DEF MailboxHeld
<1> USE <1>1, <1>2 DEF Mailbox!TypeOK, Mailbox!MailboxAssumption, Repair, Clean, Mailbox!McuIdle, Locked, Inside,
                       Mailbox!Goto
<1>3. ASSUME NEW t \in Threads, Mailbox!Call(t) PROVE Repair'
  BY <1>3 DEF Mailbox!Call, Mailbox!Forget
<1>4. ASSUME NEW t \in Threads, Mailbox!Lock(t) PROVE Repair'
  BY <1>4 DEF Mailbox!Lock
<1>5. ASSUME NEW t \in Threads, Mailbox!LockTimesOut(t) PROVE Repair'
  BY <1>5 DEF Mailbox!LockTimesOut
<1>6. ASSUME NEW t \in Threads, NEW v, NEW how, Mailbox!Return(t, v, how), pc[t] \in Inside,
             UNCHANGED <<mcu, cmd, sts, work>>,
             calm /\ how = "away" => refused = 0 /\ Clean
      PROVE  Repair'
  BY <1>6 DEF Mailbox!Return, Mailbox!MaxRefused
<1>7. ASSUME NEW t \in Threads, Mailbox!Lost(t) PROVE Repair'
  BY <1>6, <1>7 DEF Mailbox!Lost
<1>8. ASSUME NEW t \in Threads, Mailbox!Look(t) PROVE Repair'
  <2>1. CASE Mailbox!Return(t, "error", "away") /\ (cmd = Nobody <=> sts # "free")
    BY <1>6, <1>8, <2>1 DEF Mailbox!Look
  <2>2. CASE \/ Mailbox!Goto(t, "withdraw") /\ cmd # Nobody /\ sts # "free" /\ UNCHANGED <<holder, calm, refused>>
             \/ Mailbox!Goto(t, "params") /\ UNCHANGED <<holder, calm, refused>>
    BY <1>8, <2>2 DEF Mailbox!Look
  <2> QED
    BY <1>8, <2>1, <2>2 DEF Mailbox!Look
<1>9. ASSUME NEW t \in Threads, Mailbox!Withdraw(t) \/ Mailbox!Trigger(t) \/ Mailbox!Clear(t) PROVE Repair'
  BY <1>9 DEF Mailbox!Withdraw, Mailbox!Trigger, Mailbox!Clear, Mailbox!WriteCmd
<1>10. ASSUME NEW t \in Threads, Mailbox!Reset(t) PROVE Repair'
  BY <1>6, <1>10 DEF Mailbox!Reset, Mailbox!LastPoll
<1>11. ASSUME NEW t \in Threads, Mailbox!PollAgain(t) PROVE Repair'
  BY <1>11 DEF Mailbox!PollAgain
<1>12. ASSUME NEW t \in Threads, Mailbox!WriteParams(t) \/ Mailbox!Poll(t) \/ Mailbox!ReadResponse(t)
       PROVE  Repair'
  BY <1>12 DEF Mailbox!WriteParams, Mailbox!Poll, Mailbox!ReadResponse
<1>13. ASSUME NEW t \in Threads, Mailbox!Release(t) PROVE Repair'
  BY <1>6, <1>13 DEF Mailbox!Release
<1>14. CASE Mailbox!McuStep
  BY <1>14, <1>2 DEF Mailbox!McuStep, Mailbox!McuTake, Mailbox!McuFinish, Mailbox!McuFree, Progress
<1>15. CASE UNCHANGED Mailbox!vars
  BY <1>15 DEF Mailbox!vars
<1> QED
  BY <1>3, <1>4, <1>5, <1>7, <1>8, <1>9, <1>10, <1>11, <1>12, <1>13, <1>14, <1>15
  DEF Mailbox!Next, Mailbox!ThreadStep

-------------------------------------------------------------------------------
Calling == {t \in Threads : pc[t] # "idle"}
Good == {t \in Threads : verdict[t] = "ok"}

(* Every step of a mailbox with a timely MCU is a step of the channel.       *)
LEMMA ChannelStep ==
    ASSUME Mailbox!MailboxAssumption, Mailbox!TypeOK, MailboxHeld, mcu = "timely", mcu' = "timely",
           [Mailbox!Next]_Mailbox!vars
    PROVE  \/ \E c \in Threads :
                \/ c \notin Calling /\ Calling' = Calling \cup {c} /\ ran' = ran \ {c} /\ Good' = Good \ {c}
                \/ c \notin ran /\ c \notin Good /\ ran' = ran \cup {c} /\ Calling' = Calling /\ Good' = Good
                \/ \E ok \in BOOLEAN :
                        /\ c \in Calling /\ (ok => c \in ran)
                        /\ Calling' = Calling \ {c} /\ Good' = (IF ok THEN Good \cup {c} ELSE Good) /\ ran' = ran
           \/ Calling' = Calling /\ ran' = ran /\ Good' = Good
<1> DEFINE Begins(c) == c \notin Calling /\ Calling' = Calling \cup {c} /\ ran' = ran \ {c} /\ Good' = Good \ {c}
           CarriedOut(c) == /\ c \notin ran /\ c \notin Good
                            /\ ran' = ran \cup {c} /\ Calling' = Calling /\ Good' = Good
           Ends(c, ok) == /\ c \in Calling /\ (ok => c \in ran)
                          /\ Calling' = Calling \ {c} /\ Good' = (IF ok THEN Good \cup {c} ELSE Good) /\ ran' = ran
           Same == Calling' = Calling /\ ran' = ran /\ Good' = Good
           Goal == (\E c \in Threads : Begins(c) \/ CarriedOut(c) \/ \E ok \in BOOLEAN : Ends(c, ok)) \/ Same
<1>1. Locked /\ Once /\ Progress
  BY DEF MailboxHeld
<1>2. SUFFICES Goal
  OBVIOUS
<1> USE DEF Mailbox!TypeOK
<1>3. ASSUME NEW t \in Threads, Mailbox!Call(t) PROVE Goal
  <2>1. pc[t] = "idle" /\ pc' = [pc EXCEPT ![t] = "lock"] /\ verdict' = [verdict EXCEPT ![t] = "none"]
        /\ ran' = ran \ {t}
    BY <1>3 DEF Mailbox!Call, Mailbox!Goto
  <2>2. Begins(t)
    BY <2>1 DEF Calling, Good
  <2> QED
    BY <2>2
<1>4. ASSUME NEW t \in Threads, NEW v \in {"ok", "error"}, pc[t] # "idle", pc' = [pc EXCEPT ![t] = "idle"],
             verdict' = [verdict EXCEPT ![t] = v], v = "ok" => t \in ran, ran' = ran
      PROVE Goal
  <2>1. verdict[t] = "none"
    BY <1>1, <1>4 DEF Progress
  <2>2. Calling' = Calling \ {t} /\ t \in Calling
    BY <1>4 DEF Calling
  <2>3. CASE v = "ok"
    <3>1. Good' = Good \cup {t}
      BY <1>4, <2>3 DEF Good
    <3>2. Ends(t, TRUE)
      BY <1>4, <2>2, <2>3, <3>1
    <3> QED
      BY <3>2
  <2>4. CASE v = "error"
    <3>1. Good' = Good
      BY <1>4, <2>1, <2>4 DEF Good
    <3>2. Ends(t, FALSE)
      BY <1>4, <2>2, <2>4, <3>1
    <3> QED
      BY <3>2
  <2> QED
    BY <2>3, <2>4
<1>5. ASSUME NEW t \in Threads, Mailbox!LockTimesOut(t) PROVE Goal
  BY <1>4, <1>5 DEF Mailbox!LockTimesOut, Mailbox!Goto
<1>6. ASSUME NEW t \in Threads, Mailbox!Lost(t) PROVE Goal
  BY <1>4, <1>6 DEF Mailbox!Lost, Mailbox!Return, Mailbox!Goto
<1>7. ASSUME NEW t \in Threads, Mailbox!Reset(t) PROVE Goal
  BY <1>4, <1>7 DEF Mailbox!Reset, Mailbox!Return, Mailbox!Goto
<1>8. ASSUME NEW t \in Threads, Mailbox!Release(t) PROVE Goal
  <2>1. failing \/ t \in ran
    BY <1>1, <1>8 DEF Mailbox!Release, Progress
  <2>2. PICK v \in {"ok", "error"} : Mailbox!Return(t, v, "done") /\ (v = "ok" => ~failing)
    BY <1>8 DEF Mailbox!Release
  <2>3. ran' = ran /\ pc[t] # "idle"
    BY <1>8 DEF Mailbox!Release
  <2> QED
    BY <1>4, <2>1, <2>2, <2>3 DEF Mailbox!Return, Mailbox!Goto
<1>9. ASSUME NEW t \in Threads, NEW to \in Inside, pc[t] \in Inside \cup {"lock"},
             pc' = [pc EXCEPT ![t] = to], UNCHANGED <<verdict, ran>>
      PROVE Goal
  BY <1>9 DEF Inside, Calling, Good
<1>10. ASSUME NEW t \in Threads, Mailbox!Look(t) PROVE Goal
  <2>1. CASE Mailbox!Return(t, "error", "away")
    BY <1>4, <1>10, <2>1 DEF Mailbox!Look, Mailbox!Return, Mailbox!Goto
  <2>2. CASE ~Mailbox!Return(t, "error", "away")
    BY <1>9, <1>10, <2>2 DEF Mailbox!Look, Mailbox!Goto, Inside
  <2> QED
    BY <2>1, <2>2
<1>11. ASSUME NEW t \in Threads, Mailbox!Lock(t) \/ Mailbox!Withdraw(t) \/ Mailbox!WriteParams(t)
                                \/ Mailbox!Trigger(t) \/ Mailbox!Poll(t) \/ Mailbox!ReadResponse(t)
                                \/ Mailbox!Clear(t)
       PROVE Goal
  BY <1>9, <1>11 DEF Mailbox!Lock, Mailbox!Withdraw, Mailbox!WriteParams, Mailbox!Trigger, Mailbox!Poll,
     Mailbox!ReadResponse, Mailbox!Clear, Mailbox!WriteCmd, Mailbox!Goto, Inside
<1>12. ASSUME UNCHANGED <<pc, verdict, ran>> PROVE Goal
  BY <1>12 DEF Calling, Good
<1>13. CASE Mailbox!McuFinish
  <2>1. CASE ran' = ran
    BY <1>12, <1>13, <2>1 DEF Mailbox!McuFinish
  <2>2. CASE ran' # ran
    <3>1. work \in Threads /\ ran' = ran \cup {work} /\ UNCHANGED <<pc, verdict>>
      BY <1>13, <2>2 DEF Mailbox!McuFinish
    <3>2. work \notin ran /\ verdict[work] # "ok"
      BY <1>1, <1>13, <3>1 DEF Once, Mailbox!McuFinish, Mailbox!MailboxAssumption
    <3>3. CarriedOut(work)
      BY <3>1, <3>2 DEF Calling, Good
    <3> QED
      BY <3>1, <3>3
  <2> QED
    BY <2>1, <2>2
<1>14. ASSUME \/ \E t \in Threads : Mailbox!PollAgain(t)
              \/ Mailbox!McuTake \/ Mailbox!McuFree \/ UNCHANGED Mailbox!vars
       PROVE  Goal
  BY <1>12, <1>14 DEF Mailbox!PollAgain, Mailbox!McuTake, Mailbox!McuFree, Mailbox!vars
<1> HIDE DEF Goal
<1> QED
  BY <1>3, <1>5, <1>6, <1>7, <1>8, <1>10, <1>11, <1>13, <1>14 DEF Mailbox!Next, Mailbox!ThreadStep, Mailbox!McuStep

-------------------------------------------------------------------------------
(***************************************************************************)
(* The mux.                                                                *)
(***************************************************************************)

(* The register belongs to the thread that holds its lock.                   *)
RegisterOwned == \A t \in Threads : pc[t] \in {"write", "poll"} => lock = t

(* While its own bit is set there is no other; when it is clear the MCU is   *)
(* at nothing.                                                               *)
Answer(t) ==
    IF Mux!Pending(t) THEN fast = {op[t]} ELSE fast = {} /\ doing = "none"

(* A toggle whose bit was cleared without FFh has moved the mux, and nothing *)
(* is left in the register that could move it again.                         *)
Moved(t) ==
    wrote = t /\ op[t] \in Mux!Sides =>
        /\ pc[t] = "poll" => Answer(t) /\ (~Mux!Pending(t) /\ status # "fail" /\ ~auto => side = op[t])
        /\ pc[t] = "idle" /\ out[t] = "true" => fast = {} /\ doing = "none" /\ (~auto => side = op[t])

(* What a call has found out, or is about to read, is where the mux was.     *)
Found(t) ==
    /\ pc[t] # "idle" => side \in seen[t] /\ out[t] = "none"
    /\ pc[t] \in {"shown", "link"} => op[t] \notin Mux!Sides
    /\ pc[t] = "link" => got[t] \in seen[t]
    /\ pc[t] = "poll" /\ op[t] \notin Mux!Sides =>
           Answer(t) /\ (~Mux!Pending(t) /\ status # "fail" => status \in seen[t])

MuxInv == Mux!TypeOK /\ RegisterOwned /\ \A t \in Threads : Moved(t) /\ Found(t)

-------------------------------------------------------------------------------
LEMMA MuxInitInv == Mux!Init => MuxInv
BY DEF Mux!Init, MuxInv, Mux!TypeOK, RegisterOwned, Moved, Found, Mux!Sides, Mux!Ops, Mux!Results

LEMMA OtherType == \A s \in Mux!Sides : Mux!Other(s) \in Mux!Sides
BY DEF Mux!Sides, Mux!Other

LEMMA MuxStepType == Mux!TypeOK /\ [Mux!Next]_Mux!vars => Mux!TypeOK'
<1> SUFFICES ASSUME Mux!TypeOK, [Mux!Next]_Mux!vars PROVE Mux!TypeOK'
  OBVIOUS
<1> USE DEF Mux!TypeOK, Mux!Goto, Mux!Stay
<1>1. ASSUME NEW t \in Threads, NEW v \in Mux!Results, Mux!Return(t, v) PROVE
        /\ pc' \in [Threads -> {"idle", "shown", "lock", "write", "poll", "link"}]
        /\ got' \in [Threads -> Mux!Sides] /\ out' \in [Threads -> Mux!Results]
        /\ seen' \in [Threads -> SUBSET Mux!Sides]
  BY <1>1 DEF Mux!Return, Mux!Sides
<1>2. ASSUME NEW t \in Threads, NEW s \in Mux!Sides, Mux!Known(t, s) PROVE
        /\ pc' \in [Threads -> {"idle", "shown", "lock", "write", "poll", "link"}]
        /\ got' \in [Threads -> Mux!Sides] /\ out' \in [Threads -> Mux!Results]
        /\ seen' \in [Threads -> SUBSET Mux!Sides]
  BY <1>1, <1>2 DEF Mux!Known, Mux!Results
<1>3. ASSUME NEW t \in Threads, NEW o \in Mux!Ops, Mux!Call(t, o) PROVE Mux!TypeOK'
  BY <1>3 DEF Mux!Call, Mux!Results
<1>4. ASSUME NEW t \in Threads, Mux!ReadShown(t) PROVE Mux!TypeOK'
  BY <1>1, <1>2, <1>4 DEF Mux!ReadShown, Mux!Results
<1>5. ASSUME NEW t \in Threads, Mux!ReadLink(t) PROVE Mux!TypeOK'
  BY <1>1, <1>5 DEF Mux!ReadLink, Mux!Results
<1>6. ASSUME NEW t \in Threads, Mux!LockFast(t) \/ Mux!WriteFast(t) PROVE Mux!TypeOK'
  BY <1>6 DEF Mux!LockFast, Mux!WriteFast
<1>7. ASSUME NEW t \in Threads, Mux!LockTimesOut(t) \/ Mux!Lost(t) PROVE Mux!TypeOK'
  BY <1>1, <1>7 DEF Mux!LockTimesOut, Mux!Lost, Mux!Results
<1>8. ASSUME NEW t \in Threads, Mux!Answered(t) PROVE Mux!TypeOK'
  BY <1>1, <1>2, <1>8 DEF Mux!Answered, Mux!Results
<1>9. ASSUME NEW t \in Threads, Mux!GiveUp(t) PROVE Mux!TypeOK'
  BY <1>1, <1>9 DEF Mux!GiveUp, Mux!Results
<1>10. ASSUME NEW s \in Mux!Sides, Mux!MoveTo(s)
       PROVE  side' \in Mux!Sides /\ seen' \in [Threads -> SUBSET Mux!Sides]
  BY <1>10 DEF Mux!MoveTo
<1>11. CASE Mux!McuTake
  BY <1>11 DEF Mux!McuTake
<1>12. CASE Mux!McuDone
  BY <1>10, <1>12 DEF Mux!McuDone
<1>13. CASE Mux!Switch
  BY <1>10, <1>13, OtherType DEF Mux!Switch
<1>14. CASE UNCHANGED Mux!vars
  BY <1>14 DEF Mux!vars
<1> QED
  BY <1>3, <1>4, <1>5, <1>6, <1>7, <1>8, <1>9, <1>11, <1>12, <1>13, <1>14 DEF Mux!Next, Mux!ThreadStep

(* A call that returns, or that knows the direction, leaves the others alone. *)
LEMMA MuxReturnEffect ==
    ASSUME Mux!TypeOK, NEW t \in Threads, NEW v, Mux!Return(t, v)
    PROVE  /\ pc'[t] = "idle" /\ out'[t] = v
           /\ \A u \in Threads \ {t} :
                 pc'[u] = pc[u] /\ out'[u] = out[u] /\ got'[u] = got[u] /\ seen'[u] = seen[u]
BY DEF Mux!TypeOK, Mux!Return, Mux!Goto

LEMMA KnownEffect ==
    ASSUME Mux!TypeOK, NEW t \in Threads, NEW s, Mux!Known(t, s)
    PROVE  /\ \/ pc'[t] = "idle" /\ out'[t] = s
              \/ pc'[t] = "link" /\ got'[t] = s /\ out'[t] = out[t] /\ seen'[t] = seen[t]
           /\ \A u \in Threads \ {t} :
                 pc'[u] = pc[u] /\ out'[u] = out[u] /\ got'[u] = got[u] /\ seen'[u] = seen[u]
BY MuxReturnEffect DEF Mux!TypeOK, Mux!Known, Mux!Goto

(* Steps of a thread that leave the register as it is. *)
MuxEnding(t) ==
    \/ Mux!ReadShown(t) \/ Mux!ReadLink(t) \/ Mux!LockTimesOut(t) \/ Mux!GiveUp(t) \/ Mux!Lost(t) \/ Mux!Answered(t)

LEMMA EndingEffect ==
    ASSUME Mux!TypeOK, NEW t \in Threads, MuxEnding(t)
    PROVE  /\ UNCHANGED <<fast, op, wrote, shows, auto, side, status, doing>>
           /\ lock' = lock \/ (lock' = Nobody /\ (lock = t \/ pc[t] = "poll"))
           /\ pc[t] # "idle" /\ pc'[t] \in {"idle", "link", "lock"}
           /\ \A u \in Threads \ {t} :
                 pc'[u] = pc[u] /\ out'[u] = out[u] /\ got'[u] = got[u] /\ seen'[u] = seen[u]
<1> USE MuxReturnEffect, KnownEffect DEF Mux!Stay
<1>1. CASE Mux!ReadShown(t) \/ Mux!ReadLink(t)
  BY <1>1 DEF Mux!ReadShown, Mux!ReadLink, Mux!Goto, Mux!TypeOK
<1>2. CASE Mux!LockTimesOut(t) \/ Mux!GiveUp(t) \/ Mux!Lost(t)
  BY <1>2 DEF Mux!LockTimesOut, Mux!GiveUp, Mux!Lost
<1>3. CASE Mux!Answered(t)
  BY <1>3 DEF Mux!Answered
<1> QED
  BY <1>1, <1>2, <1>3 DEF MuxEnding

LEMMA StepOwned ==
    ASSUME Mux!MuxAssumption, Mux!TypeOK, RegisterOwned, [Mux!Next]_Mux!vars
    PROVE  RegisterOwned'
<1> USE DEF RegisterOwned, Mux!TypeOK
<1>1. ASSUME NEW t \in Threads, MuxEnding(t) PROVE RegisterOwned'
  <2>1. pc[t] = "poll" => lock = t
    OBVIOUS
  <2> QED
    BY <1>1, <2>1, EndingEffect
<1>2. ASSUME NEW t \in Threads, Mux!LockFast(t) PROVE RegisterOwned'
  BY <1>2, Mux!MuxAssumption DEF Mux!LockFast, Mux!Goto, Mux!MuxAssumption
<1>3. ASSUME NEW t \in Threads, Mux!WriteFast(t) \/ \E o \in Mux!Ops : Mux!Call(t, o) PROVE RegisterOwned'
  BY <1>3 DEF Mux!WriteFast, Mux!Call, Mux!Goto, Mux!Sides
<1>4. CASE Mux!McuTake \/ Mux!McuDone \/ Mux!Switch \/ UNCHANGED Mux!vars
  BY <1>4 DEF Mux!McuTake, Mux!McuDone, Mux!Switch, Mux!vars
<1> QED
  BY <1>1, <1>2, <1>3, <1>4 DEF Mux!Next, Mux!ThreadStep, MuxEnding

LEMMA StepMoved ==
    ASSUME Mux!TypeOK, [Mux!Next]_Mux!vars, NEW t \in Threads, Moved(t)
    PROVE  Moved(t)'
<1> USE DEF Moved, Answer, Mux!Pending
<1>1. ASSUME NEW u \in Threads, MuxEnding(u) PROVE Moved(t)'
  <2>1. CASE u # t
    BY <1>1, <2>1, EndingEffect
  <2>2. CASE u = t /\ Mux!Answered(t)
    BY <1>1, <2>2, EndingEffect, MuxReturnEffect DEF Mux!Answered
  <2>3. CASE u = t /\ ~Mux!Answered(t)
    <3>1. op[t] \in Mux!Sides => out'[t] # "true" \/ pc'[t] # "idle"
      BY <1>1, <2>3, MuxReturnEffect, KnownEffect
      DEF MuxEnding, Mux!ReadShown, Mux!ReadLink, Mux!LockTimesOut, Mux!GiveUp, Mux!Lost, Mux!TypeOK, Mux!Goto,
         Mux!Sides
    <3> QED
      BY <1>1, <2>3, <3>1, EndingEffect
  <2> QED
    BY <2>1, <2>2, <2>3
<1>2. ASSUME NEW u \in Threads, Mux!LockFast(u) PROVE Moved(t)'
  BY <1>2 DEF Mux!LockFast, Mux!Goto, Mux!Stay, Mux!TypeOK
<1>3. ASSUME NEW u \in Threads, Mux!WriteFast(u) PROVE Moved(t)'
  BY <1>3 DEF Mux!WriteFast, Mux!Goto, Mux!Stay, Mux!TypeOK
<1>4. ASSUME NEW u \in Threads, NEW o \in Mux!Ops, Mux!Call(u, o) PROVE Moved(t)'
  BY <1>4 DEF Mux!Call, Mux!Goto, Mux!Stay, Mux!TypeOK
<1>5. CASE Mux!McuTake
  BY <1>5 DEF Mux!McuTake
<1>6. CASE Mux!McuDone
  <2>1. CASE doing = op[t]
    BY <1>6, <2>1 DEF Mux!McuDone, Mux!MoveTo
  <2>2. CASE doing # op[t]
    BY <1>6, <2>2 DEF Mux!McuDone, Mux!MoveTo
  <2> QED
    BY <2>1, <2>2
<1>7. CASE Mux!Switch
  BY <1>7 DEF Mux!Switch
<1>8. CASE UNCHANGED Mux!vars
  BY <1>8 DEF Mux!vars
<1> QED
  BY <1>1, <1>2, <1>3, <1>4, <1>5, <1>6, <1>7, <1>8 DEF Mux!Next, Mux!ThreadStep, MuxEnding

LEMMA StepFound ==
    ASSUME Mux!TypeOK, RegisterOwned, [Mux!Next]_Mux!vars, NEW t \in Threads, Found(t)
    PROVE  Found(t)'
<1> USE DEF Found, Answer, Mux!Pending
<1>1. ASSUME NEW u \in Threads, MuxEnding(u) PROVE Found(t)'
  <2>1. CASE u # t
    BY <1>1, <2>1, EndingEffect
  <2>2. CASE u = t
    <3>1. \/ pc'[t] = "idle"
          \/ pc'[t] = "lock" /\ out'[t] = out[t] /\ seen'[t] = seen[t]
          \/ pc'[t] = "link" /\ got'[t] \in seen[t] /\ out'[t] = out[t] /\ seen'[t] = seen[t]
      BY <1>1, <2>2, MuxReturnEffect, KnownEffect
      DEF MuxEnding, Mux!ReadShown, Mux!ReadLink, Mux!LockTimesOut, Mux!GiveUp, Mux!Lost, Mux!Answered, Mux!TypeOK,
         Mux!Goto
    <3>2. pc'[t] = "link" => op[t] \notin Mux!Sides
      BY <1>1, <2>2, MuxReturnEffect, KnownEffect
      DEF MuxEnding, Mux!ReadShown, Mux!ReadLink, Mux!LockTimesOut, Mux!GiveUp, Mux!Lost, Mux!Answered, Mux!TypeOK,
         Mux!Goto
    <3> QED
      BY <1>1, <2>2, <3>1, <3>2, EndingEffect
  <2> QED
    BY <2>1, <2>2
<1>2. ASSUME NEW u \in Threads, Mux!LockFast(u) PROVE Found(t)'
  BY <1>2 DEF Mux!LockFast, Mux!Goto, Mux!Stay, Mux!TypeOK
<1>3. ASSUME NEW u \in Threads, Mux!WriteFast(u) PROVE Found(t)'
  BY <1>3 DEF Mux!WriteFast, Mux!Goto, Mux!Stay, Mux!TypeOK, RegisterOwned
<1>4. ASSUME NEW u \in Threads, NEW o \in Mux!Ops, Mux!Call(u, o) PROVE Found(t)'
  BY <1>4 DEF Mux!Call, Mux!Goto, Mux!Stay, Mux!TypeOK
<1>5. CASE Mux!McuTake
  BY <1>5 DEF Mux!McuTake
<1>6. CASE Mux!McuDone
  <2>1. pc[t] # "idle" => side' \in seen'[t] /\ seen[t] \subseteq seen'[t]
    BY <1>6 DEF Mux!McuDone, Mux!MoveTo, Mux!TypeOK
  <2>2. CASE doing = op[t]
    BY <1>6, <2>1, <2>2 DEF Mux!McuDone
  <2>3. CASE doing # op[t]
    BY <1>6, <2>1, <2>3 DEF Mux!McuDone
  <2> QED
    BY <2>2, <2>3
<1>7. CASE Mux!Switch
  <2>1. pc[t] # "idle" => side' \in seen'[t] /\ seen[t] \subseteq seen'[t]
    BY <1>7 DEF Mux!Switch, Mux!MoveTo, Mux!TypeOK
  <2> QED
    BY <1>7, <2>1 DEF Mux!Switch
<1>8. CASE UNCHANGED Mux!vars
  BY <1>8 DEF Mux!vars
<1> QED
  BY <1>1, <1>2, <1>3, <1>4, <1>5, <1>6, <1>7, <1>8 DEF Mux!Next, Mux!ThreadStep, MuxEnding

LEMMA MuxStepInv == ASSUME Mux!MuxAssumption PROVE MuxInv /\ [Mux!Next]_Mux!vars => MuxInv'
<1> SUFFICES ASSUME MuxInv, [Mux!Next]_Mux!vars PROVE MuxInv'
  OBVIOUS
<1>1. Mux!TypeOK' /\ RegisterOwned'
  BY Mux!MuxAssumption, MuxStepType, StepOwned DEF MuxInv
<1>2. ASSUME NEW t \in Threads PROVE Moved(t)' /\ Found(t)'
  BY <1>2, StepMoved, StepFound DEF MuxInv
<1> QED
  BY <1>1, <1>2 DEF MuxInv

(* A direction that is returned was found out during the call. *)
LEMMA MuxDirection == MuxInv /\ [Mux!Next]_Mux!vars => Mux!DirectionStep
<1> SUFFICES ASSUME MuxInv, [Mux!Next]_Mux!vars,
                    NEW t \in Threads, out'[t] \in Mux!Sides, out[t] = "none"
             PROVE  out'[t] \in seen[t]
  BY DEF Mux!DirectionStep
<1> USE DEF MuxInv, Found
<1>1. PICK u \in Threads : MuxEnding(u)
  BY DEF Mux!Next, Mux!ThreadStep, MuxEnding, Mux!LockFast, Mux!WriteFast, Mux!Call, Mux!McuTake, Mux!McuDone,
         Mux!Switch, Mux!vars, Mux!Sides, Mux!TypeOK
<1>2. u = t
  BY <1>1, EndingEffect DEF Mux!Sides
<1> QED
  BY <1>1, <1>2, MuxReturnEffect, KnownEffect
  DEF MuxEnding, Mux!ReadShown, Mux!ReadLink, Mux!LockTimesOut, Mux!GiveUp, Mux!Lost, Mux!Answered, Mux!TypeOK,
      Mux!Sides, Mux!Goto

-------------------------------------------------------------------------------
(***************************************************************************)
(* The handshakes outside the mailbox.                                     *)
(***************************************************************************)

(* Registers and requests fit the handshake of the behaviour. *)
Fits ==
    /\ cmd \in {"self", "peer", "read"} => arg \in {1, 2}
    /\ cmd \in {"self", "peer", "wd"} => channel = "log"
    /\ cmd = "read" => channel = "ram"
    /\ \A t \in Threads :
          /\ pc[t] # "idle" => op[t] \in Sideband!Requests /\ op[t].ch = channel
          /\ pc[t] = "lock" => channel = "log"
          /\ pc[t] \in {"lock", "arg"} => op[t].cmd # "wd"
          /\ pc[t] = "cmd" /\ op[t].cmd # "wd" => arg \in {1, 2}

SidebandTyped == Sideband!TypeOK /\ Fits

(* What a call may return. *)
Outs == Sideband!Answers \cup {Sideband!None, Sideband!Error, Sideband!Success}

(* One thread at a time uses the registers, and leaves them clear.           *)
AloneThere ==
    /\ timely
    /\ \A t \in Threads : Sideband!Using(t) =>
          /\ \A u \in Threads : Sideband!Using(u) => u = t
          /\ channel = "log" /\ op[t].cmd # "wd" => lock = t
    /\ (\A t \in Threads : ~Sideband!Using(t)) => cmd = "none" /\ work = Sideband!None

Clear == cmd = "none" /\ work = Sideband!None
Given(t) ==
    /\ cmd = op[t].cmd /\ (op[t].cmd = "wd" \/ arg = op[t].arg)
    /\ work \in {Sideband!None, op[t]}
Fetched(t) == Clear /\ (err \/ op[t].cmd = "wd" \/ buffer = op[t])

(* How far the handshake of t has come. *)
Served(t) ==
    /\ pc[t] \in {"arg", "cmd"} => Clear
    /\ pc[t] = "cmd" => op[t].cmd = "wd" \/ arg = op[t].arg
    /\ pc[t] = "poll" => Given(t) \/ Fetched(t)
    /\ pc[t] = "err" => Fetched(t)
    /\ pc[t] = "buffer" => Clear /\ buffer = op[t]
    /\ pc[t] = "idle" /\ op[t] # Sideband!None => out[t] = op[t]

SidebandInv == SidebandTyped /\ (~disturbed => AloneThere /\ \A t \in Threads : Served(t))

-------------------------------------------------------------------------------
(* Requests. *)

LEMMA SidebandRequest ==
    /\ \A r \in Sideband!Requests :
          /\ r.ch = "log" => r.cmd \in {"self", "peer", "wd"}
          /\ r.ch = "ram" => r.cmd = "read"
          /\ r.cmd = "wd" => r.arg = 0
          /\ r.cmd # "wd" => r.arg \in {1, 2}
          /\ r = [ch |-> r.ch, cmd |-> r.cmd, arg |-> r.arg]
    /\ \A r \in Sideband!Answers :
          /\ r # Sideband!None /\ r # Sideband!Error /\ r # Sideband!Success
          /\ r.ch \in {"log", "ram"} /\ r.cmd \in {"self", "peer", "wd", "read"}
    /\ Sideband!None.cmd = "none"
BY DEF Sideband!Requests, Sideband!Answers, Sideband!Logs, Sideband!Watchdog, Sideband!Rams,
       Sideband!None, Sideband!Error, Sideband!Success

LEMMA AnswerShape ==
    /\ \A a \in {1, 2}, k \in {"self", "peer"} : [ch |-> "log", cmd |-> k, arg |-> a] \in Sideband!Answers
    /\ \A a \in {1, 2} : [ch |-> "ram", cmd |-> "read", arg |-> a] \in Sideband!Answers
    /\ [ch |-> "log", cmd |-> "wd", arg |-> 0] \in Sideband!Answers
    /\ Sideband!Requests \subseteq Sideband!Answers
    /\ Sideband!Logs \subseteq Sideband!Requests /\ Sideband!Watchdog \subseteq Sideband!Requests
    /\ Sideband!Rams \subseteq Sideband!Requests
    /\ \A r \in Sideband!Logs : r.ch = "log" /\ r.cmd # "wd"
    /\ \A r \in Sideband!Rams : r.ch = "ram" /\ r.cmd # "wd"
    /\ \A r \in Sideband!Watchdog : r.ch = "log" /\ r.cmd = "wd"
BY DEF Sideband!Requests, Sideband!Answers, Sideband!Logs, Sideband!Watchdog, Sideband!Rams

-------------------------------------------------------------------------------
LEMMA SidebandInitInv == Sideband!Init => SidebandInv
<1> SUFFICES ASSUME Sideband!Init PROVE SidebandInv
  OBVIOUS
<1>1. Sideband!TypeOK
  <2>1. disturbed \in BOOLEAN /\ timely \in BOOLEAN /\ err \in BOOLEAN
    BY DEF Sideband!Init
  <2>2. op \in [Threads -> Sideband!Requests \cup {Sideband!None}] /\ out \in [Threads -> Outs]
    BY DEF Sideband!Init, Outs
  <2>3. pc \in [Threads -> {"idle", "lock", "arg", "cmd", "poll", "err", "buffer"}]
        /\ channel \in {"log", "ram"} /\ lock \in Threads \cup {Nobody} /\ arg \in 0..2 /\ cmd = "none"
        /\ buffer \in Sideband!Answers \cup {Sideband!None} /\ work \in Sideband!Answers \cup {Sideband!None}
    BY DEF Sideband!Init
  <2> QED
    BY <2>1, <2>2, <2>3 DEF Sideband!TypeOK, Outs
<1>2. Fits
  BY DEF Sideband!Init, Fits
<1>3. ~disturbed => AloneThere
  BY SidebandRequest DEF Sideband!Init, AloneThere, Sideband!Using
<1>4. \A t \in Threads : Served(t)
  BY DEF Sideband!Init, Served
<1> QED
  BY <1>1, <1>2, <1>3, <1>4 DEF SidebandInv, SidebandTyped

LEMMA SidebandReturnEffect ==
    ASSUME Sideband!TypeOK, NEW t \in Threads, NEW v \in Outs, Sideband!Return(t, v)
    PROVE  /\ pc' \in [Threads -> {"idle", "lock", "arg", "cmd", "poll", "err", "buffer"}]
           /\ op' \in [Threads -> Sideband!Requests \cup {Sideband!None}]
           /\ out' \in [Threads -> Outs]
           /\ lock' \in Threads \cup {Nobody}
           /\ pc'[t] = "idle" /\ out'[t] = v
           /\ op'[t] = IF v \in {Sideband!Error, Sideband!Success} THEN Sideband!None ELSE op[t]
           /\ \A u \in Threads \ {t} : pc'[u] = pc[u] /\ op'[u] = op[u] /\ out'[u] = out[u]
           /\ lock' = lock \/ lock = t
BY DEF Sideband!TypeOK, Sideband!Return, Sideband!Goto, Outs

LEMMA SidebandStepType == SidebandTyped /\ [Sideband!Next]_Sideband!vars => SidebandTyped'
<1> SUFFICES ASSUME SidebandTyped, [Sideband!Next]_Sideband!vars PROVE SidebandTyped'
  OBVIOUS
<1> USE DEF SidebandTyped, Sideband!TypeOK, Fits, Sideband!McuSame, Sideband!Goto, Sideband!Disturb, Outs
<1>1. ASSUME NEW t \in Threads, Sideband!CallLog(t) \/ Sideband!CallRam(t) \/ Sideband!CallWatchdog(t)
      PROVE  SidebandTyped'
  <2>1. out' = [out EXCEPT ![t] = Sideband!None] /\ UNCHANGED <<channel, timely, lock, arg, cmd, err, buffer, work>>
        /\ disturbed' \in BOOLEAN
    BY <1>1 DEF Sideband!CallLog, Sideband!CallRam, Sideband!CallWatchdog
  <2>2. ASSUME NEW r \in Sideband!Requests, op' = [op EXCEPT ![t] = r], r.ch = channel,
               NEW where \in {"lock", "arg", "cmd"}, Sideband!Goto(t, where), r.cmd = "wd" <=> where = "cmd",
               where = "lock" => channel = "log"
        PROVE  SidebandTyped'
    BY <2>1, <2>2
  <2>3. CASE Sideband!CallLog(t)
    BY <2>2, <2>3, AnswerShape DEF Sideband!CallLog
  <2>4. CASE Sideband!CallRam(t)
    BY <2>2, <2>4, AnswerShape DEF Sideband!CallRam
  <2>5. CASE Sideband!CallWatchdog(t)
    BY <2>2, <2>5, AnswerShape DEF Sideband!CallWatchdog
  <2> QED
    BY <1>1, <2>3, <2>4, <2>5
<1>2. ASSUME NEW t \in Threads,
             Sideband!LockLog(t) \/ Sideband!WriteArg(t) \/ Sideband!WriteCmd(t) \/ Sideband!Polled(t)
      PROVE  SidebandTyped'
  <2>1. disturbed' \in BOOLEAN
    BY <1>2 DEF Sideband!LockLog, Sideband!WriteArg, Sideband!WriteCmd, Sideband!Polled, Sideband!Unlocked
  <2>2. CASE Sideband!LockLog(t)
    BY <2>1, <2>2 DEF Sideband!LockLog
  <2>3. CASE Sideband!WriteArg(t) \/ Sideband!WriteCmd(t) \/ Sideband!Polled(t)
    BY <2>3, SidebandRequest DEF Sideband!WriteArg, Sideband!WriteCmd, Sideband!Polled
  <2> QED
    BY <1>2, <2>2, <2>3
<1>3. ASSUME NEW t \in Threads,
             Sideband!LockTimesOut(t) \/ Sideband!ReadError(t) \/ Sideband!ReadBuffer(t) \/ Sideband!Lose(t)
      PROVE  SidebandTyped'
  <2>1. UNCHANGED <<channel, timely, arg, cmd, err, buffer, work>> /\ disturbed' \in BOOLEAN
    BY <1>3 DEF Sideband!LockTimesOut, Sideband!ReadError, Sideband!ReadBuffer, Sideband!Lose
  <2>2. ASSUME NEW v \in Outs, Sideband!Return(t, v) PROVE SidebandTyped'
    BY <2>1, <2>2, SidebandReturnEffect
  <2>3. CASE Sideband!Goto(t, "buffer") /\ pc[t] = "err" /\ UNCHANGED <<lock, op, out>>
    BY <2>1, <2>3
  <2> QED
    BY <1>3, <2>2, <2>3 DEF Sideband!LockTimesOut, Sideband!ReadError, Sideband!ReadBuffer, Sideband!Lose
<1>4. CASE Sideband!McuTake
  <2>1. work' \in Sideband!Answers
    BY <1>4, AnswerShape DEF Sideband!McuTake
  <2> QED
    BY <1>4, <2>1 DEF Sideband!McuTake
<1>5. CASE Sideband!McuDone
  BY <1>5 DEF Sideband!McuDone
<1>6. CASE UNCHANGED Sideband!vars
  BY <1>6 DEF Sideband!vars
<1> QED
  BY <1>1, <1>2, <1>3, <1>4, <1>5, <1>6 DEF Sideband!Next, Sideband!ThreadStep

LEMMA StepAlone ==
    ASSUME Sideband!SidebandAssumption, SidebandTyped, [Sideband!Next]_Sideband!vars, ~disturbed', AloneThere,
           \A t \in Threads : Served(t)
    PROVE  AloneThere' /\ \A t \in Threads : Served(t)'
<1> USE SidebandRequest DEF SidebandTyped, Sideband!TypeOK, Sideband!McuSame, Sideband!Goto, Sideband!Disturb,
            Sideband!Using, Clear, Given, Fetched, Outs
<1>1. ASSUME NEW t \in Threads, Sideband!CallLog(t) \/ Sideband!CallRam(t) \/ Sideband!CallWatchdog(t)
      PROVE  AloneThere' /\ \A u \in Threads : Served(u)'
  <2>1. PICK r \in Sideband!Requests : op' = [op EXCEPT ![t] = r] /\ (Sideband!CallWatchdog(t) => r.cmd = "wd")
    BY <1>1, AnswerShape DEF Sideband!CallLog, Sideband!CallRam, Sideband!CallWatchdog
  <2>2. UNCHANGED <<channel, timely, lock, arg, cmd, err, buffer, work>> /\ pc[t] = "idle"
        /\ out' = [out EXCEPT ![t] = Sideband!None]
        /\ \/ pc' = [pc EXCEPT ![t] = "lock"]
           \/ channel = "ram" /\ pc' = [pc EXCEPT ![t] = "arg"] /\ ~Sideband!InUse
           \/ op'[t].cmd = "wd" /\ pc' = [pc EXCEPT ![t] = "cmd"] /\ ~Sideband!InUse
    BY <1>1, <2>1 DEF Sideband!CallLog, Sideband!CallRam, Sideband!CallWatchdog
  <2>3. AloneThere'
    BY <2>1, <2>2 DEF AloneThere, Sideband!InUse
  <2>4. ASSUME NEW u \in Threads PROVE Served(u)'
    BY <2>1, <2>2, <2>4 DEF Served, AloneThere, Sideband!InUse
  <2> QED
    BY <2>3, <2>4
<1>2. ASSUME NEW t \in Threads, Sideband!Lose(t) PROVE FALSE
  BY <1>2 DEF Sideband!Lose
<1>3. ASSUME NEW t \in Threads, Sideband!LockLog(t)
      PROVE  AloneThere' /\ \A u \in Threads : Served(u)'
  <2>1. channel = "log" /\ \A u \in Threads : ~Sideband!Using(u)
    BY <1>3, Sideband!SidebandAssumption DEF Sideband!LockLog, Sideband!Unlocked, AloneThere, Fits,
       Sideband!SidebandAssumption
  <2>2. AloneThere'
    BY <1>3, <2>1 DEF Sideband!LockLog, AloneThere
  <2>3. ASSUME NEW u \in Threads PROVE Served(u)'
    BY <1>3, <2>1, <2>3 DEF Sideband!LockLog, Served, AloneThere
  <2> QED
    BY <2>2, <2>3
<1>4. ASSUME NEW t \in Threads, Sideband!WriteArg(t) \/ Sideband!WriteCmd(t) \/ Sideband!Polled(t)
      PROVE  AloneThere' /\ \A u \in Threads : Served(u)'
  <2>1. /\ Sideband!Using(t) /\ Sideband!Using(t)'
        /\ \A u \in Threads \ {t} : ~Sideband!Using(u) /\ ~Sideband!Using(u)' /\ pc'[u] = pc[u]
    BY ZenonT(60), <1>4 DEF Sideband!WriteArg, Sideband!WriteCmd, Sideband!Polled, AloneThere
  <2>2. UNCHANGED <<channel, timely, lock, op, out, err, buffer, work>>
    BY <1>4 DEF Sideband!WriteArg, Sideband!WriteCmd, Sideband!Polled
  <2>3. AloneThere'
    BY <2>1, <2>2 DEF AloneThere
  <2>4. ASSUME NEW u \in Threads \ {t} PROVE Served(u)'
    BY <2>1, <2>2, <2>4 DEF Served
  <2>5. ASSUME Sideband!WriteArg(t) PROVE Served(t)'
    BY <2>1, <2>2, <2>5 DEF Sideband!WriteArg, Served
  <2>6. ASSUME Sideband!WriteCmd(t) PROVE Served(t)'
    BY <2>1, <2>2, <2>6 DEF Sideband!WriteCmd, Served
  <2>7. ASSUME Sideband!Polled(t) PROVE Served(t)'
    <3>1. op[t].cmd # "none" /\ timely
      BY <2>7 DEF Fits, Sideband!Polled, AloneThere
    <3> QED
      BY <2>1, <2>2, <2>7, <3>1 DEF Sideband!Polled, Served
  <2> QED
    BY <1>4, <2>3, <2>4, <2>5, <2>6, <2>7
<1>5. ASSUME NEW t \in Threads, Sideband!LockTimesOut(t) \/ Sideband!ReadError(t) \/ Sideband!ReadBuffer(t)
      PROVE  AloneThere' /\ \A u \in Threads : Served(u)'
  <2>1. UNCHANGED <<channel, timely, arg, cmd, err, buffer, work>>
    BY <1>5 DEF Sideband!LockTimesOut, Sideband!ReadError, Sideband!ReadBuffer
  <2>2. ASSUME NEW v \in Outs, Sideband!Return(t, v),
               v \in {Sideband!Error, Sideband!Success} \/ (v = op[t] /\ pc[t] = "buffer"), pc[t] \in {"err", "buffer"} => Clear,
               pc[t] \in {"lock", "err", "buffer"}
        PROVE  AloneThere' /\ \A u \in Threads : Served(u)'
    <3>1. AloneThere'
      BY <2>1, <2>2, SidebandReturnEffect DEF AloneThere, Sideband!LockTimesOut, Sideband!ReadError,
         Sideband!ReadBuffer
    <3>2. ASSUME NEW u \in Threads PROVE Served(u)'
      BY <2>1, <2>2, <3>2, SidebandReturnEffect DEF Served
    <3> QED
      BY <3>1, <3>2
  <2>3. CASE Sideband!Goto(t, "buffer") /\ pc[t] = "err" /\ ~err /\ op[t].cmd # "wd" /\ UNCHANGED <<lock, op, out>>
    <3>1. AloneThere'
      BY <2>1, <2>3 DEF AloneThere
    <3>2. ASSUME NEW u \in Threads PROVE Served(u)'
      BY <2>1, <2>3, <3>2 DEF Served
    <3> QED
      BY <3>1, <3>2
  <2> QED
    BY <1>5, <2>2, <2>3 DEF Sideband!LockTimesOut, Sideband!ReadError, Sideband!ReadBuffer, Served
<1>6. ASSUME Sideband!McuTake \/ Sideband!McuDone
      PROVE  AloneThere' /\ \A u \in Threads : Served(u)'
  <2>1. PICK t \in Threads : Sideband!Using(t)
    BY <1>6 DEF Sideband!McuTake, Sideband!McuDone, AloneThere
  <2>2. pc[t] = "poll" /\ Given(t)
    BY <1>6, <2>1 DEF Sideband!McuTake, Sideband!McuDone, Served
  <2>3. UNCHANGED <<channel, timely, lock, arg, pc, op, out>>
    BY <1>6 DEF Sideband!McuTake, Sideband!McuDone
  <2>4. AloneThere'
    BY <2>1, <2>3 DEF AloneThere
  <2>5. ASSUME NEW u \in Threads \ {t} PROVE Served(u)'
    BY <2>1, <2>3, <2>5 DEF Served, AloneThere
  <2>6. Given(t)' \/ Fetched(t)'
    <3>1. op[t] \in Sideband!Requests /\ op[t].ch = channel
      BY <2>2 DEF Fits
    <3>2. CASE Sideband!McuTake
      BY <2>2, <3>1, <3>2 DEF Sideband!McuTake
    <3>3. CASE Sideband!McuDone
      BY <2>2, <2>3, <3>1, <3>3 DEF Sideband!McuDone, AloneThere
    <3> QED
      BY <1>6, <3>2, <3>3
  <2> QED
    BY <2>2, <2>3, <2>4, <2>5, <2>6 DEF Served
<1>7. CASE UNCHANGED Sideband!vars
  BY <1>7 DEF Sideband!vars, AloneThere, Served
<1> QED
  BY <1>1, <1>2, <1>3, <1>4, <1>5, <1>6, <1>7 DEF Sideband!Next, Sideband!ThreadStep

LEMMA SidebandStepInv ==
    ASSUME Sideband!SidebandAssumption
    PROVE  SidebandInv /\ [Sideband!Next]_Sideband!vars => SidebandInv'
<1> SUFFICES ASSUME SidebandInv, [Sideband!Next]_Sideband!vars PROVE SidebandInv'
  OBVIOUS
<1>1. SidebandTyped'
  BY SidebandStepType DEF SidebandInv
<1>2. ~disturbed' => ~disturbed
  BY DEF Sideband!Next, Sideband!vars, Sideband!ThreadStep, Sideband!CallLog, Sideband!CallRam,
     Sideband!CallWatchdog, Sideband!LockLog, Sideband!LockTimesOut, Sideband!WriteArg, Sideband!WriteCmd,
         Sideband!Polled, Sideband!ReadError, Sideband!ReadBuffer, Sideband!Lose, Sideband!McuTake,
         Sideband!McuDone, Sideband!Disturb, SidebandInv, SidebandTyped, Sideband!TypeOK
<1> QED
  BY <1>1, <1>2, Sideband!SidebandAssumption, StepAlone DEF SidebandInv

-------------------------------------------------------------------------------
(***************************************************************************)
(* The driver.  A step of it is a step of its part, and the variables of   *)
(* the other parts are not looked at.                                      *)
(***************************************************************************)
MailboxInv == Mailbox!TypeOK /\ MailboxHeld /\ Repair

DriverInv ==
    /\ part = "mailbox" => MailboxInv
    /\ part = "mux" => MuxInv
    /\ part = "sideband" => SidebandInv

LEMMA PartStep ==
    ASSUME [Next]_vars
    PROVE  /\ part' = part
           /\ part = "mailbox" => [Mailbox!Next]_Mailbox!vars
           /\ part = "mux" => [Mux!Next]_Mux!vars
           /\ part = "sideband" => [Sideband!Next]_Sideband!vars
<1>1. CASE Next
  BY <1>1 DEF Next
<1>2. CASE UNCHANGED vars
  <2>1. UNCHANGED Mailbox!vars /\ UNCHANGED Mux!vars /\ UNCHANGED Sideband!vars /\ part' = part
    BY <1>2 DEF vars, ofMailbox, ofMux, ofSideband, Mailbox!vars, Mux!vars, Sideband!vars
  <2> QED
    BY <2>1
<1> QED
  BY <1>1, <1>2

LEMMA DriverInit == Init => DriverInv
<1> SUFFICES ASSUME Init PROVE DriverInv
  OBVIOUS
<1>1. ASSUME Mailbox!Init PROVE MailboxInv
  <2>1. Mailbox!TypeOK
    BY <1>1, PartsAssumption, MailboxInitType
  <2>2. MailboxHeld /\ Repair
    BY <1>1 DEF Mailbox!Init, MailboxHeld, Locked, Once, Progress, Inside, Repair, Clean
  <2> QED
    BY <2>1, <2>2 DEF MailboxInv
<1> QED
  BY <1>1, MuxInitInv, SidebandInitInv DEF Init, DriverInv

LEMMA DriverStep == DriverInv /\ [Next]_vars => DriverInv'
<1> SUFFICES ASSUME DriverInv, [Next]_vars PROVE DriverInv'
  OBVIOUS
<1>1. ASSUME part = "mailbox" PROVE MailboxInv'
  <2>1. MailboxInv /\ [Mailbox!Next]_Mailbox!vars
    BY <1>1, PartStep DEF DriverInv
  <2>2. Mailbox!TypeOK'
    BY <2>1, PartsAssumption, MailboxStepType DEF MailboxInv
  <2> QED
    BY <2>1, <2>2, PartsAssumption, HeldStep, RepairStep DEF MailboxInv
<1>2. ASSUME part = "mux" PROVE MuxInv'
  BY <1>2, PartStep, PartsAssumption, MuxStepInv DEF DriverInv
<1>3. ASSUME part = "sideband" PROVE SidebandInv'
  BY <1>3, PartStep, PartsAssumption, SidebandStepInv DEF DriverInv
<1>4. part' = part
  BY PartStep
<1> QED
  BY <1>1, <1>2, <1>3, <1>4 DEF DriverInv

(* Of the calls that find an idle microcontroller and lose nothing, no two   *)
(* in a row are turned away: the first one withdraws what a call that gave   *)
(* up has left behind (__cable_cmd_execute, y_cable_broadcom.py:668-901).    *)
THEOREM OneRepairs == Spec => []OneCallRepairs
<1>1. DriverInv => OneCallRepairs
  BY DEF DriverInv, MailboxInv, Repair, OneCallRepairs, Mailbox!OneCallRepairs
<1> QED
  BY <1>1, DriverInit, DriverStep, PTL DEF Spec

(* With a timely microcontroller the mailbox is a command channel: a command *)
(* is carried out at most once, for the call that wrote it, and a call that  *)
(* returns 0 has had its command carried out (y_cable_broadcom.py:668-901).  *)
THEOREM MailboxIsChannel == Spec => IsCommandChannel
<1>1. Init => Channel!Init
  BY DEF Init, Mailbox!Init, Channel!Init, Timely, Mailbox!Timely
<1>2. DriverInv /\ [Next]_vars => [Channel!Next]_Channel!chVars
  <2> SUFFICES ASSUME DriverInv, [Next]_vars PROVE [Channel!Next]_Channel!chVars
    OBVIOUS
  <2>1. CASE part # "mailbox"
    BY <2>1, PartStep DEF Timely, Channel!chVars
  <2>2. CASE part = "mailbox"
    <3>1. part' = "mailbox" /\ MailboxInv /\ [Mailbox!Next]_Mailbox!vars
      BY <2>2, PartStep DEF DriverInv
    <3>2. mcu' = mcu
      BY <3>1
      DEF Mailbox!Next, Mailbox!ThreadStep, Mailbox!vars, Mailbox!Call, Mailbox!Lock, Mailbox!LockTimesOut,
          Mailbox!Lost, Mailbox!Look, Mailbox!Withdraw, Mailbox!Reset, Mailbox!PollAgain, Mailbox!WriteParams,
          Mailbox!Trigger, Mailbox!Poll, Mailbox!ReadResponse, Mailbox!Clear, Mailbox!Release, Mailbox!WriteCmd,
          Mailbox!McuStep, Mailbox!McuTake, Mailbox!McuFinish, Mailbox!McuFree
    <3>3. CASE mcu # "timely"
      BY <2>2, <3>1, <3>2, <3>3 DEF Timely, Mailbox!Timely, Channel!chVars
    <3>4. CASE mcu = "timely"
      <4>1. Timely(Calling) = Calling /\ Timely(ran) = ran /\ Timely(Good) = Good
        BY <2>2, <3>4 DEF Timely, Mailbox!Timely
      <4>2. Timely(Calling)' = Calling' /\ Timely(ran)' = ran' /\ Timely(Good)' = Good'
        BY <3>1, <3>2, <3>4 DEF Timely, Mailbox!Timely
      <4> QED
        BY <3>1, <3>2, <3>4, <4>1, <4>2, PartsAssumption, ChannelStep
           DEF MailboxInv, Channel!Next, Channel!Begin, Channel!CarryOut, Channel!End, Channel!chVars, Calling, Good
    <3> QED
      BY <3>3, <3>4
  <2> QED
    BY <2>1, <2>2
<1> QED
  BY <1>1, <1>2, DriverInit, DriverStep, PTL DEF Spec, IsCommandChannel, Channel!Spec

(* A toggle that returned True has the last word on the mux, whoever gave up *)
(* before it and whatever he asked for (y_cable_broadcom.py:1438-1548).      *)
THEOREM ToggleWins == Spec => []LastToggleWins
<1>1. DriverInv => LastToggleWins
  BY DEF DriverInv, MuxInv, Moved, LastToggleWins, Mux!LastToggleWins
<1> QED
  BY <1>1, DriverInit, DriverStep, PTL DEF Spec

(* A direction that is returned was the mux's during the call, on cables that *)
(* show it and on those that are asked (y_cable_broadcom.py:1365-1436).       *)
THEOREM DirectionTrue == Spec => DirectionSeen
<1>1. DriverInv /\ [Next]_vars => [part = "mux" => Mux!DirectionStep]_vars
  BY PartStep, MuxDirection DEF DriverInv
<1> QED
  BY <1>1, DriverInit, DriverStep, PTL DEF Spec, DirectionSeen

(* Undisturbed, a log or a word is that of the request, although no call     *)
(* looks whether the registers are free (y_cable_broadcom.py).               *)
THEOREM RightAnswer == Spec => []AnswerOfRequest
<1>1. DriverInv => AnswerOfRequest
  BY DEF DriverInv, SidebandInv, Served, AnswerOfRequest, Sideband!AnswerOfRequest
<1> QED
  BY <1>1, DriverInit, DriverStep, PTL DEF Spec

(* Whichever part of the driver a behaviour is of, its variables have their  *)
(* types (y_cable_broadcom.py).                                              *)
THEOREM TypeCorrect == Spec => []TypeOK
<1> DEFINE Parted == part \in {"mailbox", "mux", "port", "sideband", "firmware"}
<1>1. Init => Parted
  BY DEF Init
<1>2. Parted /\ [Next]_vars => Parted'
  BY PartStep
<1>3. DriverInv => /\ part = "mailbox" => Mailbox!TypeOK
                   /\ part = "mux" => Mux!TypeOK
                   /\ part = "sideband" => Sideband!TypeOK
  BY DEF DriverInv, MailboxInv, MuxInv, SidebandInv, SidebandTyped
<1>4. Parted /\ DriverInv /\ (part = "port" => Port!TypeOK) /\ (part = "firmware" => Firmware!TypeOK) => TypeOK
  BY <1>3 DEF TypeOK
<1> HIDE DEF Parted
<1>5. Spec => [](part = "port" => Port!TypeOK)
  BY ConfigurationTyped
<1>6. Spec => [](part = "firmware" => Firmware!TypeOK)
  BY FirmwareTyped
<1> QED
  BY <1>1, <1>2, <1>4, <1>5, <1>6, DriverInit, DriverStep, PTL DEF Spec
===============================================================================
