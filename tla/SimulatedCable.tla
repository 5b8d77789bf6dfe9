----------------------------- MODULE SimulatedCable -----------------------------
(***************************************************************************)
(* The simulated cable (microsoft/y_cable_simulated.py): the cable is an   *)
(* HTTP service (external) that several drivers talk to.  A request is     *)
(* repeated until it is answered or 30 seconds are over, so what it posts  *)
(* may take effect several times, and take effect without an answer.       *)
(***************************************************************************)
EXTENDS AccessSteps

_toggle_to(api, target) == {Writing(api, "mux", One(target))}
toggle_mux_to_tor_a == _toggle_to("toggle_mux_to_tor_a", 0)
toggle_mux_to_tor_b == _toggle_to("toggle_mux_to_tor_b", 1)
get_mux_direction == {Reading("get_mux_direction", "mux")}
get_active_linked_tor_side == {Reading("get_active_linked_tor_side", "mux")}

(* The counter is read and then cleared; nobody looks whether it was.        *)
_clear_counter == Ignoring(Put("count", One(0)))
Total(clear) == <<Get("count")>> \o IF clear THEN <<_clear_counter>> ELSE <<>>
get_switch_count_total ==
    {Program("get_switch_count_total", Total(c), IF c THEN IsSet("count", One(0)) ELSE Nothing) : c \in BOOLEAN}
(* These call it without its first argument: an exception, and no access.    *)
get_switch_count_tor_a == {Raising("get_switch_count_tor_a")}
get_switch_count_tor_b == {Raising("get_switch_count_tor_b")}
get_switch_count_target == {Raising("get_switch_count_target")}
reset == {Program("reset", <<Put("none", One(1))>>, Nothing)}

(* The modes are attributes of the driver: the simulator is not told.        *)
set_switching_mode == {Program("set_switching_mode", <<Own(Put("auto", One(v)))>>, IsSet("auto", One(v))) : v \in 0..1}
get_switching_mode == {Program("get_switching_mode", <<Own(Get("auto"))>>, Nothing)}
set_debug_mode == {Program("set_debug_mode", <<Own(Put("hyst", One(v)))>>, IsSet("hyst", One(v))) : v \in 0..1}
get_debug_mode == {Program("get_debug_mode", <<Own(Get("hyst"))>>, Nothing)}

(* Whatever the state of the cable and of the simulator: whether it is alive *)
(* is asked of a method, not of its result.                                  *)
FixedCableAnswers == {Program("fixed answer", <<>>, Nothing)}
FixedFirmwareAnswers == FixedCableAnswers
FixedMonitorAnswers == FixedCableAnswers
FixedPortAnswers == FixedCableAnswers
FixedLogAnswers == FixedCableAnswers
FixedTestAnswers == FixedCableAnswers

Calls(f) ==
    CASE f = "mux" -> toggle_mux_to_tor_a \cup toggle_mux_to_tor_b \cup get_mux_direction
             \cup get_active_linked_tor_side \cup set_switching_mode \cup get_switching_mode
             \cup set_debug_mode \cup get_debug_mode
      [] f = "flaps" -> get_switch_count_total \cup get_switch_count_tor_a \cup get_switch_count_tor_b
             \cup get_switch_count_target \cup reset \cup FixedCableAnswers \cup FixedFirmwareAnswers
             \cup FixedMonitorAnswers \cup FixedPortAnswers \cup FixedLogAnswers \cup FixedTestAnswers
Families == {"mux", "flaps"}
===============================================================================
