-------------------------------- MODULE BcmPort --------------------------------
(***************************************************************************)
(* The configuration calls of a Broadcom Y cable: what each of them makes  *)
(* of the command mailbox.  A call is a program of commands; the MCU       *)
(* (external) carries out a command, refuses it, or carries it out and the *)
(* answer is lost, which the driver cannot tell from a refusal.  A command *)
(* to one end of the cable goes to lanes that the driver derives from the  *)
(* side this host is on, read from the cable before each command.          *)
(***************************************************************************)
EXTENDS Integers, Sequences

Ends == {"nic", "a", "b"}
Targets == Ends \cup {"local"}

Masks == {"cdr", "second", "loss", "chip", "fault", "updown", "bip"}
Flags == {"cdr", "loss", "temp"}  \* three of the nine status bytes

VARIABLES
    host,     \* the end of the cable this host is on
    family,   \* the calls of this behaviour
    reg,      \* the MCU's settings and counters, by name and end ("all": one for the cable)
    matched,  \* attributes of the class valid_port_option_table_s, shared by every port and thread
    call      \* the call under way, or the last one when it no longer runs

vars == <<host, family, reg, matched, call>>

(* The settings and counters that the calls of a family use. *)
Registers(f) ==
    CASE f = "switching" -> {"hmux"} \X {"all"}
      [] f = "counts" -> {"count"} \X {"all"}
      [] f = "prbs" -> {"prbs"} \X Ends
      [] f = "lanes" -> {"fir", "eye"} \X Ends \cup {"quality"} \X {"all"}
      [] f = "squelch" -> {"squelch"} \X Ends \cup {"quality"} \X {"all"}
      [] f = "loopback" -> {"near", "far"} \X Ends
      [] f = "stats" -> {"stats"} \X Ends \cup {"mode"} \X {"all"}
      [] f = "chip" -> {"debug", "word", "idle", "watchdog"} \X {"all"}
      [] f = "interrupts" -> {"mask"} \X Masks \cup {"flag"} \X Flags \cup {"active"} \X {"all"}
      [] f = "readings" -> {"alive", "identity", "monitor"} \X {"all"}
      [] f = "logs" -> {"crash", "log"} \X {"all"}
      [] f = "anlt" -> {"anlt"} \X Ends
      [] f = "port" -> {"anlt"} \X Ends \cup {"mode"} \X {"all"}

MaxCount == 1   \* bound of the counters
DumpWords == 3  \* bound of the words of a crash dump (2048 in the code)
Lost == -1      \* what a read returns that failed

(* Defect: the case of a host at the NIC is forgotten. *)
PhyEndNoNic(target, side) ==
    IF target = "nic" \/ (target = "local" /\ side = "nic") THEN "nic"
    ELSE IF side \in {"a", "b"} /\ (target = "a" \/ (target = "local" /\ side = "a")) THEN "a"
    ELSE "b"

-------------------------------------------------------------------------------
(* The lanes of a target.  Without the side, ToR A and the local end become  *)
(* ToR B: only a side that was read moves the lanes to ToR A.                *)
PhyEnd(target, side) ==
    IF target = "nic" \/ (target = "local" /\ side = "nic") THEN "nic"
    ELSE IF side # "unknown" /\ (target = "a" \/ (target = "local" /\ side = "a")) THEN "a"
    ELSE "b"

(* A command of a program.  goOn: values of a read that let the program go  *)
(* on; fails: what an error does, "stop", "note" (False at the end) or       *)
(* "ignore".                                                                 *)
Step(kind, what, at, val) ==
    [kind |-> kind, what |-> what, at |-> at, val |-> val, goOn |-> -1..3, fails |-> "stop"]
Set(what, at, val) == Step("set", what, at, val)
Get(what, at) == Step("get", what, at, 0)
Take(what, at) == Step("take", what, at, 0)  \* the MCU clears what it reports
Only(step, values) == [step EXCEPT !.goOn = values]
Noting(step) == [step EXCEPT !.fails = "note"]
Ignoring(step) == [step EXCEPT !.fails = "ignore"]

Program(api, arg, todo) == [api |-> api, arg |-> arg, todo |-> todo]
One(api, step) == Program(api, [at |-> step.at, val |-> step.val], <<step>>)

(* Switching: 0 manual, 1 automatic, 2 automatic with a timer.               *)
set_switching_mode == {One("set_switching_mode", Set("hmux", "all", v)) : v \in {0, 1}}
get_switching_mode == {One("get_switching_mode", Get("hmux", "all"))}
set_autoswitch_hysteresis_timer == {One("set_autoswitch_hysteresis_timer", Set("hmux", "all", 2))}
get_autoswitch_hysteresis_timer == {One("get_autoswitch_hysteresis_timer", Get("hmux", "all"))}

util_get_switch_count(api, clear_on_read) ==
    One(api, IF clear_on_read THEN Take("count", "all") ELSE Get("count", "all"))
get_switch_count_total == {util_get_switch_count("get_switch_count_total", c) : c \in BOOLEAN}
get_switch_count_tor_a == {util_get_switch_count("get_switch_count_tor_a", c) : c \in BOOLEAN}
get_switch_count_tor_b == {util_get_switch_count("get_switch_count_tor_b", c) : c \in BOOLEAN}
get_switch_count_target == {util_get_switch_count("get_switch_count_target", c) : c \in BOOLEAN}

(* Signal quality and lane settings of one end.                              *)
enable_prbs_mode == {One("enable_prbs_mode", Set("prbs", t, 1)) : t \in Targets}
disable_prbs_mode == {One("disable_prbs_mode", Set("prbs", t, 0)) : t \in Targets}
cable_check_prbs == {One("cable_check_prbs", Get("prbs", t)) : t \in Targets}
get_ber_info == {Program("get_ber_info", [at |-> t, val |-> 0], <<Get("prbs", t), Get("prbs", t)>>) : t \in Targets}
internal_get_eye_heights == {One("internal_get_eye_heights", Get("eye", t)) : t \in Targets \ {"nic"}}
get_target_cursor_values == {One("get_target_cursor_values", Get("fir", t)) : t \in Targets}
set_target_cursor_values == {One("set_target_cursor_values", Set("fir", t, v)) : t \in Targets, v \in {0, 1}}
cable_set_squelch == {One("cable_set_squelch", Set("squelch", t, v)) : t \in Targets, v \in {0, 1}}
cable_get_squelch == {One("cable_get_squelch", Get("quality", "all"))}
cable_get_snr == {One("cable_get_snr", Get("quality", "all"))}

enable_loopback_mode == {One("enable_loopback_mode", Set(m, t, 1)) : m \in {"near", "far"}, t \in Targets}
disable_loopback_mode ==
    {Program("disable_loopback_mode", [at |-> t, val |-> 0], <<Set("near", t, 0), Set("far", t, 0)>>) : t \in Targets}
get_loopback_mode ==
    {Program("get_loopback_mode", [at |-> t, val |-> 0], <<Only(Get("far", t), {0}), Get("near", t)>>) : t \in Targets}

(* The first half of the statistics may fail: the second is returned alone.  *)
cable_get_pcsfec_stats(t) == <<Ignoring(Take("stats", t)), Take("stats", t)>>
get_pcs_stats ==
    {Program("get_pcs_stats", [at |-> t, val |-> 0],
             <<Only(Get("mode", "all"), {1, 3})>> \o cable_get_pcsfec_stats(t)) : t \in {"a", "b"}}
get_fec_stats ==
    {Program("get_fec_stats", [at |-> t, val |-> 0],
             <<Only(Get("mode", "all"), {0, 2})>> \o cable_get_pcsfec_stats(t)) : t \in Targets}

(* The chip and its microcontroller. *)
set_debug_mode == {One("set_debug_mode", Set("debug", "all", v)) : v \in {0, 1}}
get_debug_mode == {One("get_debug_mode", Get("debug", "all"))}
rd_reg_ex == {One("rd_reg_ex", Get("word", "all"))}
wr_reg_ex == {One("wr_reg_ex", Set("word", "all", v)) : v \in {0, 1}}
cable_set_enadis_phy_chip_idle_loop ==
    {One("cable_set_enadis_phy_chip_idle_loop", Set("idle", "all", v)) : v \in {0, 1}}
cable_enable_disable_watchdog_nic ==
    {One("cable_enable_disable_watchdog_nic", Set("watchdog", "all", v)) : v \in {0, 1}}
cable_read_nic_mcu_ram == {One("cable_read_nic_mcu_ram", Get("crash", "all"))}
cable_clear_nic_mcu_dump == {One("cable_clear_nic_mcu_dump", Set("crash", "all", 0))}
cable_print_nic_mcu_dump ==
    {Program("cable_print_nic_mcu_dump", [at |-> "all", val |-> 0],
             <<Only(Get("crash", "all"), {1})>> \o [i \in 1..(DumpWords - 1) |-> Get("crash", "all")])}

(* Six reads for the log of the chip, one for each of the four sources of    *)
(* the MCU's; what cannot be read is left out.                               *)
__get_phy_chip_event_log == Ignoring(Get("log", "all"))
__get_mcu_event_log == Ignoring(Get("log", "all"))
cable_get_phy_chip_event_log == [i \in 1..6 |-> __get_phy_chip_event_log]
cable_get_nic_mcu_event_log == <<__get_mcu_event_log>>
get_event_log ==
    LET sources == cable_get_nic_mcu_event_log \o cable_get_nic_mcu_event_log
    IN {Program("get_event_log", [at |-> "all", val |-> 0], cable_get_phy_chip_event_log \o sources \o sources)}

(* Registers that are read and written without the mailbox: identity,        *)
(* monitors and interrupts.  The status bytes are latched: what was read     *)
(* before a failing read is gone.  The masks are written one by one up to    *)
(* the first failure.                                                        *)
cable_get_intr_status == {Program("cable_get_intr_status", [at |-> "all", val |-> 0],
                                  <<Take("flag", "cdr"), Take("flag", "loss"), Take("flag", "temp")>>)}
cable_get_intr_mask ==
    {Program("cable_get_intr_mask", [at |-> "all", val |-> 0],
             <<Get("mask", "cdr"), Get("mask", "second"), Get("mask", "loss"), Get("mask", "chip"),
               Get("mask", "updown"), Get("mask", "fault"), Get("mask", "bip")>>)}
cable_set_intr_mask ==
    {Program("cable_set_intr_mask", [at |-> "all", val |-> v],
             <<Set("mask", "cdr", v), Set("mask", "second", v), Set("mask", "loss", v), Set("mask", "chip", v),
               Set("mask", "fault", v), Set("mask", "updown", v), Set("mask", "bip", v)>>) : v \in {0, 1}}
cable_check_intr_active_status == {One("cable_check_intr_active_status", Get("active", "all"))}
get_alive_status == {One("get_alive_status", Get("alive", "all"))}
get_part_number == {One("get_part_number", Get("identity", "all"))}
get_serial_number == {One("get_serial_number", Get("identity", "all"))}
get_date_code == {One("get_date_code", Get("identity", "all"))}
get_vendor == {One("get_vendor", Get("identity", "all"))}
get_local_temperature == {One("get_local_temperature", Get("monitor", "all"))}
get_local_voltage == {One("get_local_voltage", Get("monitor", "all"))}
get_nic_temperature == {One("get_nic_temperature", Get("monitor", "all"))}
enable_disable_watchdog_tor == {One("enable_disable_watchdog_tor", Set("watchdog", "all", v)) : v \in {0, 1}}

-------------------------------------------------------------------------------
(* Speed, FEC and auto-negotiation. *)
cable_set_mode(m) == Set("mode", "all", m)
cable_get_mode == Get("mode", "all")
Anlt(target, enable) == Set("anlt", target, enable)

set_anlt == {One("set_anlt", Anlt(t, v)) : t \in Targets, v \in {0, 1}}
get_anlt == {One("get_anlt", Get("anlt", t)) : t \in Targets}
restart_anlt == {One("restart_anlt", Get("anlt", t)) : t \in Targets}
get_anlt_stats == {One("get_anlt_stats", Get("anlt", t)) : t \in Targets}
get_speed == {One("get_speed", cable_get_mode)}
get_fec_mode == {One("get_fec_mode", cable_get_mode)}

(* The table of port options: mode 0 is 100G with FEC, 1 100G without, 2 and *)
(* 3 the same at 50G.  ANLT is 3, "do not care", in every entry.             *)
Entry(speed, fec) ==
    [speed |-> speed, fec |-> fec, anlt_tor |-> 3, anlt_nic |-> 3,
     mode |-> (IF speed = 100 THEN 0 ELSE 2) + 1 - fec]

(* Defect: the error of the NIC is not noted either. *)
PortCommandsNicIgnored(tor, nic) ==
    <<Noting(Anlt("nic", 0)), Noting(Anlt("a", 0)), Noting(Anlt("b", 0)),
      Ignoring(Step("mode", "mode", "all", 0)),
      Ignoring(Anlt("nic", nic)), Noting(Anlt("a", tor)), Ignoring(Anlt("b", tor))>>

(* ANLT goes off everywhere, the mode is set from the shared attributes as   *)
(* they are then (kind "mode"), ANLT is set as asked.  A failed set_mode     *)
(* returns -1, which is not False, and the failure of ToR B is compared      *)
(* instead of assigned.                                                      *)
PortCommands(tor, nic) ==
    <<Noting(Anlt("nic", 0)), Noting(Anlt("a", 0)), Noting(Anlt("b", 0)),
      Ignoring(Step("mode", "mode", "all", 0)),
      Noting(Anlt("nic", nic)), Noting(Anlt("a", tor)), Ignoring(Anlt("b", tor))>>

create_port ==
    {Program("create_port", [speed |-> s, fec |-> f, tor |-> tor, nic |-> nic], PortCommands(tor, nic)) :
        s \in {50, 100}, f \in {0, 1}, tor \in {0, 1}, nic \in {0, 1}}

(* The mode and the ANLT of the three ends go to the shared attributes (kind *)
(* "learn"); a port that has the FEC mode already is left alone.             *)
Learning(step) == [step EXCEPT !.kind = "learn"]
set_fec_mode ==
    {Program("set_fec_mode", [fec |-> f],
             <<Only(Learning(cable_get_mode), IF f = 1 THEN {1, 3} ELSE {0, 2}),
               Ignoring(Learning(Get("anlt", "nic"))),
               Ignoring(Learning(Get("anlt", "a"))), Ignoring(Learning(Get("anlt", "b")))>>) : f \in {0, 1}}

Calls(f) ==
    CASE f = "switching" -> set_switching_mode \cup get_switching_mode \cup set_autoswitch_hysteresis_timer
             \cup get_autoswitch_hysteresis_timer
      [] f = "counts" -> get_switch_count_total \cup get_switch_count_tor_a \cup get_switch_count_tor_b
             \cup get_switch_count_target
      [] f = "prbs" -> enable_prbs_mode \cup disable_prbs_mode \cup cable_check_prbs \cup get_ber_info
      [] f = "lanes" -> internal_get_eye_heights \cup get_target_cursor_values \cup set_target_cursor_values
             \cup cable_get_snr
      [] f = "squelch" -> cable_set_squelch \cup cable_get_squelch
      [] f = "loopback" -> enable_loopback_mode \cup disable_loopback_mode \cup get_loopback_mode
      [] f = "stats" -> get_pcs_stats \cup get_fec_stats
      [] f = "chip" -> set_debug_mode \cup get_debug_mode \cup rd_reg_ex \cup wr_reg_ex
             \cup cable_set_enadis_phy_chip_idle_loop \cup cable_enable_disable_watchdog_nic
             \cup enable_disable_watchdog_tor
      [] f = "interrupts" -> cable_get_intr_status \cup cable_get_intr_mask \cup cable_set_intr_mask
             \cup cable_check_intr_active_status
      [] f = "readings" -> get_alive_status \cup get_part_number \cup get_serial_number \cup get_date_code
             \cup get_vendor \cup get_local_temperature \cup get_local_voltage \cup get_nic_temperature
      [] f = "logs" -> cable_read_nic_mcu_ram \cup cable_clear_nic_mcu_dump \cup cable_print_nic_mcu_dump
             \cup get_event_log
      [] f = "anlt" -> set_anlt \cup get_anlt \cup restart_anlt \cup get_anlt_stats
      [] f = "port" -> create_port \cup set_fec_mode \cup get_speed \cup get_fec_mode

Families == {"switching", "counts", "prbs", "lanes", "squelch", "loopback", "stats",
             "chip", "interrupts", "readings", "logs", "anlt", "port"}

-------------------------------------------------------------------------------
Idle == [running |-> FALSE, api |-> "none", arg |-> [at |-> "all", val |-> 0], todo |-> <<>>, ok |-> TRUE,
         got |-> <<>>, sided |-> TRUE, sure |-> TRUE, alone |-> TRUE, before |-> <<>>]

TypeOK ==
    /\ host \in Ends
    /\ family \in Families
    /\ DOMAIN reg = Registers(family) /\ \A r \in DOMAIN reg : reg[r] \in 0..3
    /\ matched \in [speed : {50, 100}, fec : {0, 1}, anlt_tor : 0..3, anlt_nic : 0..3, mode : 0..3]
    /\ DOMAIN call = DOMAIN Idle
    /\ call.running \in BOOLEAN /\ call.ok \in BOOLEAN
    /\ \A i \in 1..Len(call.got) : call.got[i] \in -1..3
    /\ call.todo # <<>> => call.running

(* The port starts in any mode and with any ANLT, the rest cleared.  The     *)
(* side of the host matters where a target can be the local end.             *)
Init ==
    /\ host \in Ends
    /\ family \in Families
    /\ family \notin {"anlt", "prbs", "lanes", "squelch", "loopback", "stats"} => host = "nic"
    /\ \E mode \in 0..3, anlt \in [Ends -> {0, 1}] :
          /\ family \notin {"port", "stats"} => mode = 0
          /\ family \notin {"anlt", "port"} => anlt = [e \in Ends |-> 0]
          /\ reg = [r \in Registers(family) |->
                       IF r[1] = "mode" THEN mode ELSE IF r[1] = "anlt" THEN anlt[r[2]] ELSE 0]
    /\ matched = Entry(100, 0)
    /\ call = Idle

(* Facts about the call for the properties: sided, every side it read was    *)
(* read; sure, every command was answered with success; alone, no other      *)
(* port of the process was configured meanwhile; before, the settings.       *)
Begin ==
    /\ call = Idle
    /\ \E p \in Calls(family) :
          /\ call' = [Idle EXCEPT !.running = TRUE, !.api = p.api, !.arg = p.arg, !.todo = p.todo,
                                  !.before = IF p.api = "set_fec_mode" THEN reg ELSE <<>>]
          /\ matched' = IF p.api = "create_port" THEN Entry(p.arg.speed, p.arg.fec) ELSE matched
    /\ UNCHANGED <<host, family, reg>>

Value(c) == IF c.kind = "mode" THEN matched.mode ELSE IF c.kind = "take" THEN 0 ELSE c.val

(* Defect: the ANLT of the NIC is kept where that of the ToRs belongs. *)
LearnedForTor(c, v) ==
    IF c.what = "mode"
    THEN IF v = Lost THEN matched
         ELSE IF v \notin c.goOn THEN [matched EXCEPT !.mode = v]
         ELSE [matched EXCEPT !.mode = v, !.fec = call.arg.fec, !.speed = IF v < 2 THEN 100 ELSE 50]
    ELSE [matched EXCEPT !.anlt_tor = IF v = 1 THEN 1 ELSE 0]

(* What set_fec_mode keeps of a read: the mode, and with it the entry it     *)
(* looks for, or the ANLT of an end, off when it could not be read.          *)
Learned(c, v) ==
    IF c.what = "mode"
    THEN IF v = Lost THEN matched
         ELSE IF v \notin c.goOn THEN [matched EXCEPT !.mode = v]
         ELSE [matched EXCEPT !.mode = v, !.fec = call.arg.fec, !.speed = IF v < 2 THEN 100 ELSE 50]
    ELSE IF c.at = "nic" THEN [matched EXCEPT !.anlt_nic = IF v = 1 THEN 1 ELSE 0]
    ELSE [matched EXCEPT !.anlt_tor = IF v = 1 THEN 1 ELSE 0]

(* The second command of disable_loopback_mode goes to the lanes of the      *)
(* first, whatever is read of the side before it.                            *)
SameLanes(c) == call.api = "disable_loopback_mode" /\ c.what = "far"

(* One command: the side may be unknown, the command done, refused or done   *)
(* unheard.  A read that fails returns Lost.                                 *)
Command ==
    /\ call.todo # <<>>
    /\ \E side \in {host, "unknown"}, how \in {"done", "refused", "unheard"} :
          LET c == Head(call.todo)
              r == <<c.what, IF c.at \in Targets THEN PhyEnd(c.at, side) ELSE c.at>>
              isRead == c.kind \in {"get", "take", "learn"}
              v == IF how = "done" THEN reg[r] ELSE Lost
              stop == IF how = "done" THEN isRead /\ v \notin c.goOn ELSE c.fails = "stop"
          IN  /\ c.at \notin Targets => side = host
              /\ SameLanes(c) => (side = host <=> call.sided)
              /\ c.kind \in {"get", "learn"} => how # "unheard"
              /\ reg' = IF how = "refused" \/ c.kind \in {"get", "learn"} THEN reg
                        ELSE [reg EXCEPT ![r] = Value(c)]
              /\ matched' = IF c.kind = "learn" THEN Learned(c, v) ELSE matched
              /\ call' = [call EXCEPT !.todo = IF stop THEN <<>> ELSE Tail(call.todo),
                                      !.running = ~stop,
                                      !.ok = @ /\ (how = "done" \/ c.fails = "ignore"),
                                      !.got = IF isRead /\ c.kind # "learn" THEN Append(@, v) ELSE @,
                                      !.sided = @ /\ side = host,
                                      !.sure = @ /\ how = "done"]
    /\ UNCHANGED <<host, family>>

(* set_fec_mode goes on as create_port with the shared attributes; an ANLT   *)
(* that another port's call has left at "do not care" counts as off.         *)
CreateForFec ==
    /\ call.running /\ call.todo = <<>> /\ call.api = "set_fec_mode"
    /\ call' = [call EXCEPT !.api = "set_fec_mode by create_port",
                            !.todo = PortCommands(IF matched.anlt_tor = 1 THEN 1 ELSE 0,
                                                  IF matched.anlt_nic = 1 THEN 1 ELSE 0)]
    /\ matched' = Entry(matched.speed, matched.fec)
    /\ UNCHANGED <<host, family, reg>>

Return ==
    /\ call.running /\ call.todo = <<>> /\ call.api # "set_fec_mode"
    /\ call' = [call EXCEPT !.running = FALSE]
    /\ UNCHANGED <<host, family, reg, matched>>

(* The caller has seen the result. *)
Seen ==
    /\ ~call.running /\ call # Idle
    /\ call' = Idle
    /\ UNCHANGED <<host, family, reg, matched>>

-------------------------------------------------------------------------------
(* The call has yet to use the shared attributes: for the options of a       *)
(* create_port that follows, or for the mode to be set.                      *)
UsesMatched == call.api = "set_fec_mode" \/ \E i \in DOMAIN call.todo : call.todo[i].kind = "mode"

(* Another port of the process is configured: create_port or set_fec_mode of *)
(* its object write the same class attributes one by one, the mode last.     *)
(* A call that has used them is not affected any more.                       *)
OtherPort ==
    /\ call.running /\ UsesMatched
    /\ \E s \in {50, 100}, f \in {0, 1} : matched' \in {Entry(s, f), [Entry(s, f) EXCEPT !.mode = matched.mode]}
    /\ call' = [call EXCEPT !.alone = FALSE]
    /\ UNCHANGED <<host, family, reg>>

(* The cable switches, counts errors, logs, crashes. *)
Happens ==
    /\ call = Idle
    /\ \E r \in DOMAIN reg :
          /\ r[1] \in {"count", "stats", "eye", "flag", "active", "monitor", "alive", "log", "crash"}
          /\ reg[r] < (IF r[1] \in {"count", "stats"} THEN MaxCount ELSE 1)
          /\ reg' = [reg EXCEPT ![r] = @ + 1]
    /\ UNCHANGED <<host, family, matched, call>>

Next == Begin \/ Command \/ CreateForFec \/ Return \/ Seen \/ OtherPort \/ Happens

Spec == Init /\ [][Next]_vars

-------------------------------------------------------------------------------
Meant(target) == IF target = "local" THEN host ELSE target
Returned == ~call.running /\ call.api # "none"

Promise ==
    CASE call.api = "enable_prbs_mode" -> {<<"prbs", 1>>}
      [] call.api = "disable_prbs_mode" -> {<<"prbs", 0>>}
      [] call.api = "disable_loopback_mode" -> {<<"near", 0>>, <<"far", 0>>}
      [] call.api = "cable_set_squelch" -> {<<"squelch", call.arg.val>>}
      [] call.api = "set_target_cursor_values" -> {<<"fir", call.arg.val>>}
      [] call.api = "set_anlt" -> {<<"anlt", call.arg.val>>}
      [] OTHER -> {}

(* A setting that returns True holds at the end it was meant for, whichever  *)
(* end the host is on, as long as the side could be read.                    *)
ToldTruly ==
    Returned /\ call.ok /\ call.sided =>
        \A p \in Promise : reg[<<p[1], Meant(call.arg.at)>>] = p[2]

(* When create_port returns True, the NIC and ToR A negotiate as asked,      *)
(* whatever was refused, lost or repeated on the way.                        *)
CreatedAsAsked ==
    Returned /\ call.api = "create_port" /\ call.ok /\ call.sided =>
        reg[<<"anlt", "nic">>] = call.arg.nic /\ reg[<<"anlt", "a">>] = call.arg.tor

(* A change of the FEC mode keeps the speed and the ANLT of the NIC, and of  *)
(* the ToRs where they agree, although it turns ANLT off on the way; it may  *)
(* rely on no other port being configured at the same time.                  *)
FecKeepsTheRest ==
    Returned /\ call.api = "set_fec_mode by create_port" /\ call.sure /\ call.sided /\ call.alone =>
        LET was == call.before IN
        /\ reg[<<"mode", "all">>] = (IF was[<<"mode", "all">>] < 2 THEN 0 ELSE 2) + 1 - call.arg.fec
        /\ reg[<<"anlt", "nic">>] = was[<<"anlt", "nic">>]
        /\ was[<<"anlt", "a">>] = was[<<"anlt", "b">>] =>
              \A e \in {"a", "b"} : reg[<<"anlt", e>>] = was[<<"anlt", e>>]
===============================================================================
