------------------------------- MODULE CredoPort -------------------------------
(***************************************************************************)
(* The calls of the Credo driver that work on the cable's registers        *)
(* without the vendor command page (y_cable_credo.py).  Ends of the cable  *)
(* are numbered as in the code: NIC 0, ToR A 1, ToR B 2.  A call takes the *)
(* lock only where "Locked" says so.                                       *)
(***************************************************************************)
EXTENDS AccessSteps

CONSTANT Ends

(* Defect: the lock is not taken. *)
Unlocked(todo) == todo

Locked(todo) == <<Lock>> \o todo \o <<Unlock>>

-------------------------------------------------------------------------------
(* Mux, identity, monitors.  0 is ToR A. *)
toggle_mux_to_tor_a == {Writing("toggle_mux_to_tor_a", "mux", One(0))}
toggle_mux_to_tor_b == {Writing("toggle_mux_to_tor_b", "mux", One(1))}
get_mux_direction == {Reading("get_mux_direction", "mux")}
get_active_linked_tor_side == {Reading("get_active_linked_tor_side", "mux")}
set_switching_mode == {Writing("set_switching_mode", "auto", One(v)) : v \in 0..1}
get_switching_mode == {Reading("get_switching_mode", "auto")}
set_autoswitch_hysteresis_timer ==
    {Program("set_autoswitch_hysteresis_timer", <<Ignoring(Put("hyst", One(v)))>>, IsSet("hyst", One(v))) : v \in 0..1}
get_autoswitch_hysteresis_timer == {Reading("get_autoswitch_hysteresis_timer", "hyst")}

Facts(api, n) == {Program(api, [i \in 1..n |-> Get("ident")], Nothing)}
get_read_side == Facts("get_read_side", 1)
is_link_active == Facts("is_link_active", 1)
get_vendor == Facts("get_vendor", 1)
get_part_number == Facts("get_part_number", 1)
get_serial_number == Facts("get_serial_number", 1)
get_nic_temperature == Facts("get_nic_temperature", 1)
get_local_temperature == Facts("get_local_temperature", 1)
get_nic_voltage == Facts("get_nic_voltage", 2)
get_local_voltage == Facts("get_local_voltage", 2)
get_alive_status == Facts("get_alive_status", 1)
get_dsp_link_detect == Facts("get_dsp_link_detect", 6)
reset_cause == Facts("reset_cause", 1)
operation_time == Facts("operation_time", 1)

(* Counters 0 and 1 are the manual switches to ToR A and B, 2 the automatic  *)
(* ones.  A clear that fails makes -1 of a count, which the total adds as a  *)
(* count; the total of automatic switches writes its clear into the counter  *)
(* itself, which a cable does not take.                                      *)
Count(k, clear) == <<Get("count")>> \o IF clear THEN <<Put("count", k :> 0)>> ELSE <<>>
CountGoal(k, clear) == IF clear THEN IsSet("count", k :> 0) ELSE Nothing
get_switch_count_tor_a ==
    {Program("get_switch_count_tor_a", Count(0, c), CountGoal(0, c)) : c \in BOOLEAN}
get_switch_count_tor_b ==
    {Program("get_switch_count_tor_b", Count(1, c), CountGoal(1, c)) : c \in BOOLEAN}
get_switch_count_total ==
    {Program("get_switch_count_total",
             [i \in 1..Len(Count(0, c)) |-> Ignoring(Count(0, c)[i])]
                 \o [i \in 1..Len(Count(1, c)) |-> Ignoring(Count(1, c)[i])],
             IF c THEN IsSet("count", 0 :> 0 @@ 1 :> 0) ELSE Nothing) : c \in BOOLEAN}
        \cup {Program("get_switch_count_total",
                      <<Get("count")>> \o IF c THEN <<Put("none", One(6))>> ELSE <<>>, Nothing) : c \in BOOLEAN}
get_switch_count_target ==
    {Program("get_switch_count_target",
             <<Start("type", k), Await("type", Done), Get("type")>>
                 \o IF c THEN <<Put("count", k :> 0)>> ELSE <<>>,
             IF c THEN IsSet("count", k :> 0) ELSE Measured("type", k)) : k \in 0..2, c \in BOOLEAN}

(* Five cursors of a lane, of which two are modelled. *)
get_target_cursor_values == Facts("get_target_cursor_values", 5)
set_target_cursor_values ==
    {Program("set_target_cursor_values", <<Ignoring(Put("cursor", 0 :> v)), Ignoring(Put("cursor", 1 :> v))>>,
             IsSet("cursor", 0 :> v @@ 1 :> v)) : v \in 0..1}

-------------------------------------------------------------------------------
(* The register of the port's mode: bits 0 and 1 ANLT of the NIC and the     *)
(* ToRs, 3 and 4 their FEC, 6 the speed.  Three calls change it: one writes  *)
(* all of it, two read it and write it back.  Bound: one speed is set.       *)
AnltBit(target) == IF target = 0 THEN 0 ELSE 1
FecBit(target) == IF target = 0 THEN 3 ELSE 4
create_port ==
    {Writing("create_port", "mode", 0 :> an @@ 1 :> an @@ 3 :> fn @@ 4 :> fn @@ 6 :> s) :
        an \in 0..1, fn \in 0..1, s \in {1}}

(* Defect: the register is written without the bits that were read. *)
SetBitsBlindly(api, val) ==
    Program(api, <<Get("mode"), Put("mode", val @@ All({0, 1, 3, 4, 6}, 0))>>, IsSet("mode", val))

SetBits(api, val) == Program(api, <<Get("mode"), Merge("mode", val)>>, IsSet("mode", val))
set_fec_mode == {SetBits("set_fec_mode", FecBit(t) :> v) : t \in Ends, v \in 0..1}
set_anlt == {SetBits("set_anlt", AnltBit(t) :> v) : t \in Ends, v \in 0..1}
get_fec_mode == {Reading("get_fec_mode", "mode")}
get_anlt == {Reading("get_anlt", "mode")}
get_speed == {Reading("get_speed", "mode")}

-------------------------------------------------------------------------------
(* PRBS, loopback, bit error rates and eyes go to the end that is written    *)
(* to one register first.                                                    *)
At(t) == Put("target", One(t))
enable_prbs_mode ==
    {Program("enable_prbs_mode", <<At(t), Aim("prbs", 0), Put("ptype", One(1)), Aim("prbs", 1)>>, IsSet("prbs", t :> 1)) :
        t \in Ends}
disable_prbs_mode == {Program("disable_prbs_mode", <<At(t), Aim("prbs", 0)>>, IsSet("prbs", t :> 0)) : t \in Ends}
enable_loopback_mode ==
    {Program("enable_loopback_mode", <<At(t), Aim("loop", 1)>>, IsSet("loop", t :> 1)) : t \in Ends}
disable_loopback_mode ==
    {Program("disable_loopback_mode", <<At(t), Aim("loop", 0)>>, IsSet("loop", t :> 0)) : t \in Ends}

Measure(reg, t) == <<At(t), Start(reg, 0), Await(reg, Done), Get(reg)>>
get_loopback_mode == {Program("get_loopback_mode", Measure("sync", t), Measured("sync", t)) : t \in Ends}
get_ber_info == {Program("get_ber_info", Measure("ber", t), Measured("ber", t)) : t \in Ends}
get_eye_heights == {Program("get_eye_heights", Locked(Measure("eye", t)), Measured("eye", t)) : t \in Ends}

Calls(f) ==
    CASE f = "mux" -> toggle_mux_to_tor_a \cup toggle_mux_to_tor_b \cup get_mux_direction
             \cup get_active_linked_tor_side \cup set_switching_mode \cup get_switching_mode
             \cup set_autoswitch_hysteresis_timer \cup get_autoswitch_hysteresis_timer
      [] f = "facts" -> get_read_side \cup is_link_active \cup get_vendor \cup get_part_number \cup get_serial_number
             \cup get_nic_temperature \cup get_local_temperature \cup get_nic_voltage \cup get_local_voltage
             \cup get_alive_status \cup get_dsp_link_detect \cup reset_cause \cup operation_time
             \cup get_target_cursor_values \cup set_target_cursor_values
      [] f = "counts" -> get_switch_count_tor_a \cup get_switch_count_tor_b \cup get_switch_count_total
             \cup get_switch_count_target
      [] f = "mode" -> create_port \cup set_fec_mode \cup set_anlt \cup get_fec_mode \cup get_anlt \cup get_speed
      [] f = "prbs" -> enable_prbs_mode \cup disable_prbs_mode \cup get_eye_heights
      [] f = "loop" -> enable_loopback_mode \cup disable_loopback_mode \cup get_loopback_mode
      [] f = "ber" -> get_ber_info \cup get_eye_heights
Families == {"mux", "facts", "counts", "mode", "prbs", "loop", "ber"}
===============================================================================
