------------------------------ MODULE LegacyYCable ------------------------------
(***************************************************************************)
(* The first driver for Credo cables (sonic_y_cable/y_cable.py): functions *)
(* of a module, without a lock, on the registers of CredoPort.  What a     *)
(* read returns is validated, where the later driver raises an exception.  *)
(***************************************************************************)
EXTENDS AccessSteps

CONSTANT Ends

toggle_mux_to_torA == {Writing("toggle_mux_to_torA", "mux", One(0))}
toggle_mux_to_torB == {Writing("toggle_mux_to_torB", "mux", One(1))}
check_mux_direction == {Reading("check_mux_direction", "mux")}
check_active_linked_tor_side == {Reading("check_active_linked_tor_side", "mux")}
set_switching_mode == {Writing("set_switching_mode", "auto", One(v)) : v \in 0..1}
get_switching_mode == {Reading("get_switching_mode", "auto")}

Facts(api, n) == {Program(api, [i \in 1..n |-> Get("ident")], Nothing)}
check_read_side == Facts("check_read_side", 1)
check_if_link_is_active_for_NIC == Facts("check_if_link_is_active_for_NIC", 1)
check_if_link_is_active_for_torA == Facts("check_if_link_is_active_for_torA", 1)
check_if_link_is_active_for_torB == Facts("check_if_link_is_active_for_torB", 1)
check_if_nic_lanes_active == Facts("check_if_nic_lanes_active", 1)
get_part_number == Facts("get_part_number", 1)
get_vendor == Facts("get_vendor", 1)
get_internal_voltage_temp == Facts("get_internal_voltage_temp", 3)
get_nic_voltage_temp == Facts("get_nic_voltage_temp", 3)
get_local_temperature == Facts("get_local_temperature", 1)
get_local_voltage == Facts("get_local_voltage", 2)
get_nic_temperature == Facts("get_nic_temperature", 1)
get_nic_voltage == Facts("get_nic_voltage", 2)
get_target_cursor_values == Facts("get_target_cursor_values", 5)
InfoBytes == 3  \* bound of the firmware information (48 bytes in the code)
get_firmware_version == Facts("get_firmware_version", InfoBytes)
get_switch_count == {Reading("get_switch_count", "count")}

At(t) == Put("target", One(t))
enable_prbs_mode ==
    {Program("enable_prbs_mode", <<At(t), Put("ptype", One(1)), Aim("prbs", 1)>>, IsSet("prbs", t :> 1)) : t \in Ends}
disable_prbs_mode == {Program("disable_prbs_mode", <<At(t), Aim("prbs", 0)>>, IsSet("prbs", t :> 0)) : t \in Ends}
enable_loopback_mode ==
    {Program("enable_loopback_mode", <<At(t), Aim("loop", 1)>>, IsSet("loop", t :> 1)) : t \in Ends}
disable_loopback_mode ==
    {Program("disable_loopback_mode", <<At(t), Aim("loop", 0)>>, IsSet("loop", t :> 0)) : t \in Ends}
Measure(reg, t) == <<At(t), Start(reg, 0), Await(reg, Done), Get(reg)>>
get_ber_info == {Program("get_ber_info", Measure("ber", t), Measured("ber", t)) : t \in Ends}
get_eye_info == {Program("get_eye_info", Measure("eye", t), Measured("eye", t)) : t \in Ends}

Calls(f) ==
    CASE f = "mux" -> toggle_mux_to_torA \cup toggle_mux_to_torB \cup check_mux_direction
             \cup check_active_linked_tor_side \cup set_switching_mode \cup get_switching_mode
      [] f = "facts" -> check_read_side \cup check_if_link_is_active_for_NIC \cup check_if_link_is_active_for_torA
             \cup check_if_link_is_active_for_torB \cup check_if_nic_lanes_active \cup get_part_number \cup get_vendor
             \cup get_internal_voltage_temp \cup get_nic_voltage_temp \cup get_local_temperature \cup get_local_voltage
             \cup get_nic_temperature \cup get_nic_voltage \cup get_target_cursor_values \cup get_firmware_version
             \cup get_switch_count
      [] f = "prbs" -> enable_prbs_mode \cup disable_prbs_mode \cup get_eye_info
      [] f = "loop" -> enable_loopback_mode \cup disable_loopback_mode \cup get_ber_info
Families == {"mux", "facts", "prbs", "loop"}
===============================================================================
