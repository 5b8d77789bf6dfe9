------------------------------ MODULE LaneControl ------------------------------
(***************************************************************************)
(* The calls of CmisApi (cmis.py) that control lanes and power of a        *)
(* transceiver.  No lock is taken, and xcvrd and the command line tools    *)
(* run them from different processes.  What a module supports ("adv") and  *)
(* how it behaves (Reactions) is external.                                 *)
(***************************************************************************)
EXTENDS AccessSteps, Functions, FiniteSets

CONSTANTS Lanes,  \* lanes of the module
          Masks   \* the sets of lanes that are asked for

Supported == Need("adv", One(1))
On == 1
Off == 0

-------------------------------------------------------------------------------
(* Transmitters and receivers: the disabled lanes are the bits of one byte.  *)
tx_disable == {Writing("tx_disable", "tx", All(Lanes, v)) : v \in 0..1}
rx_disable == {Writing("rx_disable", "rx", All(Lanes, v)) : v \in 0..1}
get_tx_disable == {Program("get_tx_disable", <<Supported, Get("tx")>>, Nothing)}
get_rx_disable == {Program("get_rx_disable", <<Supported, Get("rx")>>, Nothing)}
get_tx_disable_channel == <<Supported, Get("tx")>>
get_rx_disable_channel == <<Supported, Get("rx")>>

tx_disable_channel ==
    {Program("tx_disable_channel", get_tx_disable_channel \o <<Merge("tx", All(m, v))>>, IsSet("tx", All(m, v))) :
        m \in Masks, v \in 0..1}
rx_disable_channel ==
    {Program("rx_disable_channel", get_rx_disable_channel \o <<Merge("rx", All(m, v))>>, IsSet("rx", All(m, v))) :
        m \in Masks, v \in 0..1}

-------------------------------------------------------------------------------
(* Loopbacks.  Where a module has no simultaneous host and media loopback    *)
(* the registers of the other side are read first, and a read that fails     *)
(* counts as a register without a loopback.  Bound: a module that has it     *)
(* also has a loopback per lane, one that has not takes all lanes only, two  *)
(* of the four kinds.                                                        *)
LoopbackMasks(both) == IF both THEN {m \in Masks : m # Lanes} ELSE {Lanes}
Host == {"hostIn", "hostOut"}
Media == {"mediaIn", "mediaOut"}
ReadsOff(r) == Ignoring(Need(r, All(Lanes, Off)))

get_loopback_capability == <<Get("adv")>>
SetLoopback(api, r, checks, both) ==
    {Program(api, get_loopback_capability \o checks \o <<Get(r), Merge(r, All(m, v))>>, IsSet(r, All(m, v))) :
        m \in LoopbackMasks(both), v \in 0..1}

(* Defect: the other side is not looked at. *)
Unchecked(api, r, others, both) == SetLoopback(api, r, <<>>, both)

Loopback(api, r, others, both) ==
    SetLoopback(api, r, IF both THEN <<>> ELSE <<ReadsOff(others[1]), ReadsOff(others[2])>>, both)

set_host_input_loopback(both) == Loopback("set_host_input_loopback", "hostIn", <<"mediaIn", "mediaOut">>, both)
set_host_output_loopback(both) == Loopback("set_host_output_loopback", "hostOut", <<"mediaIn", "mediaOut">>, both)
set_media_input_loopback(both) == Loopback("set_media_input_loopback", "mediaIn", <<"hostIn", "hostOut">>, both)
set_media_output_loopback(both) == Loopback("set_media_output_loopback", "mediaOut", <<"hostIn", "hostOut">>, both)

(* By name; "none" is the four calls that switch off, one after the other,   *)
(* whatever each of them answers.                                            *)
set_loopback_mode(both) ==
    set_host_input_loopback(both) \cup set_host_output_loopback(both)
        \cup set_media_input_loopback(both) \cup set_media_output_loopback(both)

-------------------------------------------------------------------------------
(* Low power and reset: bits of one control byte, which reset overwrites.    *)
(* Nobody looks whether a request for low power was written; where the       *)
(* caller asks for it the state of the module is awaited.                    *)
ResetBit == 3
LowPwrRequestSW == 4
LowPwrAllowRequestHW == 6
ModuleLowPwr == 0
ModuleReady == 1
Moving == 1  \* the second field of the module's state

get_lpmode == {Program("get_lpmode", <<Supported, Get("mstate")>>, Nothing)}
wait_time_condition(state) == <<Await("mstate", 0 :> state @@ Moving :> Off)>>
LpMode(lpmode) ==
    IF lpmode THEN LowPwrRequestSW :> On ELSE LowPwrRequestSW :> Off @@ LowPwrAllowRequestHW :> Off
set_lpmode ==
    {Program("set_lpmode",
             <<Supported, Get("ctrl"), Ignoring(Merge("ctrl", LpMode(low)))>>
                 \o IF wait THEN wait_time_condition(IF low THEN ModuleLowPwr ELSE ModuleReady) ELSE <<>>,
             IsSet("ctrl", LpMode(low))) : low \in BOOLEAN, wait \in BOOLEAN}

reset_module == Put("ctrl", ResetBit :> On @@ LowPwrRequestSW :> Off @@ LowPwrAllowRequestHW :> Off)
reset == {Program("reset", <<reset_module, Await("mstate", Moving :> Off)>>, Nothing)}

-------------------------------------------------------------------------------
(* Data paths.  The meaning of a lane's bit changed with CMIS 4: v is what   *)
(* "deinitialized" is.  Only decommissioning looks at what became of it.     *)
SetDeinit(mask, v) == <<Get("adv"), Get("deinit"), Ignoring(Merge("deinit", All(mask, v)))>>
set_datapath_init(v) ==
    {Program("set_datapath_init", SetDeinit(m, 1 - v), IsSet("deinit", All(m, 1 - v))) : m \in Masks}
set_datapath_deinit(v) == {Program("set_datapath_deinit", SetDeinit(m, v), IsSet("deinit", All(m, v))) : m \in Masks}
get_datapath_deinit == {Reading("get_datapath_deinit", "deinit")}
Ascending(mask) ==
    CHOOSE s \in [1..Cardinality(mask) -> mask] : \A i, j \in DOMAIN s : i < j => s[i] < s[j]
PerLane(mask, Step(_)) == [i \in 1..Cardinality(mask) |-> Step(Ascending(mask)[i])]
StageApplication(mask, code) == LET Stage(lane) == Ignoring(Put("app", lane :> code)) IN PerLane(mask, Stage)
get_application == {Reading("get_application", "app")}
set_application ==
    {Program("set_application", StageApplication(m, c), IsSet("app", All(m, c))) : m \in Masks, c \in 0..1}
scs_apply_datapath_init == {Program("scs_apply_datapath_init", <<Put("apply", One(1))>>, Nothing)}
decommission_all_datapaths(v) ==
    {Program("decommission_all_datapaths",
             SetDeinit(Lanes, v) \o StageApplication(Lanes, 0) \o <<Ignoring(Put("apply", One(1)))>>
                 \o <<Need("dp", All(Lanes, Off)), Need("config", All(Lanes, 1))>>,
             IsSet("app", All(Lanes, 0)))}
get_error_description == {Program("get_error_description", <<Get("dp"), Get("config"), Get("app")>>, Nothing)}

-------------------------------------------------------------------------------
(* Signal integrity settings are staged lane by lane, the receivers' before  *)
(* the transmitters'; a setting that is not supported is passed over, one    *)
(* over the module's maximum, or a write that fails, ends the call with the  *)
(* lanes before it staged.  Bound: one value is staged.                      *)
scs_lane_write(r, mask, v) == LET Stage(lane) == Put(r, lane :> v) IN PerLane(mask, Stage)
WithMaximum(r, mask, v) == <<Need("adv", One(1))>> \o scs_lane_write(r, mask, v)
stage_output_eq_pre_cursor_target_rx(mask, v) == WithMaximum("rxsi", mask, v)
stage_output_eq_post_cursor_target_rx(mask, v) == WithMaximum("rxsi", mask, v)
stage_output_amp_target_rx(mask, v) == WithMaximum("rxsi", mask, v)
stage_fixed_input_target_tx(mask, v) == WithMaximum("txsi", mask, v)
stage_adaptive_input_eq_recall_tx(mask, v) == scs_lane_write("txsi", mask, v)
stage_adaptive_input_eq_enable_tx(mask, v) == scs_lane_write("txsi", mask, v)
stage_cdr_tx(mask, v) == scs_lane_write("txsi", mask, v)
stage_cdr_rx(mask, v) == scs_lane_write("rxsi", mask, v)
stage_rx_si_settings(mask, v) ==
    {<<>>, stage_output_eq_pre_cursor_target_rx(mask, v), stage_output_eq_post_cursor_target_rx(mask, v),
     stage_output_amp_target_rx(mask, v), stage_cdr_rx(mask, v)}
stage_tx_si_settings(mask, v) ==
    {<<>>, stage_fixed_input_target_tx(mask, v), stage_adaptive_input_eq_recall_tx(mask, v),
     stage_adaptive_input_eq_enable_tx(mask, v), stage_cdr_tx(mask, v)}
stage_custom_si_settings ==
    UNION {{Program("stage_custom_si_settings", <<Get("adv")>> \o rx \o <<Get("adv")>> \o tx,
                    IF rx # <<>> THEN IsSet("rxsi", All(m, v))
                    ELSE IF tx # <<>> THEN IsSet("txsi", All(m, v)) ELSE Nothing) :
               rx \in stage_rx_si_settings(m, v), tx \in stage_tx_si_settings(m, v)} : m \in Masks, v \in {1}}

-------------------------------------------------------------------------------
Calls(f) ==
    CASE f = "tx" -> tx_disable \cup tx_disable_channel \cup get_tx_disable
      [] f = "rx" -> rx_disable \cup rx_disable_channel \cup get_rx_disable
      [] f = "either_side" -> set_loopback_mode(FALSE)
      [] f = "both_sides" -> set_loopback_mode(TRUE)
      [] f = "power" -> set_lpmode \cup get_lpmode \cup reset
      [] f \in {"datapath_4", "datapath_3"} ->
            LET v == IF f = "datapath_4" THEN 1 ELSE 0
            IN set_datapath_init(v) \cup set_datapath_deinit(v) \cup get_datapath_deinit
      [] f = "application" -> set_application \cup get_application \cup scs_apply_datapath_init
             \cup decommission_all_datapaths(1) \cup get_error_description
      [] f = "staging" -> stage_custom_si_settings
Families == {"tx", "rx", "either_side", "both_sides", "power", "datapath_4", "datapath_3", "application", "staging"}

Fresh(f) ==
    "adv" :> One(1) @@
    CASE f = "tx" -> "tx" :> All(Lanes, Off)
      [] f = "rx" -> "rx" :> All(Lanes, Off)
      [] f \in {"either_side", "both_sides"} -> [r \in Host \cup Media |-> All(Lanes, Off)]
      [] f = "power" ->
            "mstate" :> (0 :> ModuleReady @@ Moving :> Off)
                @@ "ctrl" :> (ResetBit :> Off @@ LowPwrRequestSW :> Off @@ LowPwrAllowRequestHW :> On)
      [] f \in {"datapath_4", "datapath_3"} -> "deinit" :> All(Lanes, 0)
      [] f = "application" ->
            [r \in {"deinit", "app", "dp", "config"} |-> All(Lanes, IF r = "config" THEN 1 ELSE 0)]
                @@ "apply" :> One(0)
      [] f = "staging" -> [r \in {"rxsi", "txsi"} |-> All(Lanes, 0)]

(* The module: it resets, follows the low power requests (the pin's only     *)
(* where it is allowed to), takes over what is staged, and the state of its  *)
(* data paths follows in its own time.                                       *)
MayRest(ctrl, state) ==
    IF state = ModuleLowPwr THEN ctrl[LowPwrRequestSW] = On \/ ctrl[LowPwrAllowRequestHW] = On
    ELSE ctrl[LowPwrRequestSW] = Off
Follows(reg) ==
    IF reg["ctrl"][ResetBit] = On
    THEN {[reg EXCEPT !["ctrl"] = Fresh("power")["ctrl"], !["mstate"][Moving] = On]}
    ELSE {[reg EXCEPT !["mstate"] = 0 :> s @@ Moving :> Off] :
             s \in {x \in {ModuleLowPwr, ModuleReady} : MayRest(reg["ctrl"], x)}}
TakesOver(reg) ==
    {[reg EXCEPT !["dp"] = All(Lanes, v), !["config"] = All(Lanes, 1 - reg["apply"][0]), !["apply"] = One(0)] : v \in 0..1}
Reactions(reg) ==
    IF "ctrl" \in DOMAIN reg THEN Follows(reg)
    ELSE IF "dp" \in DOMAIN reg THEN TakesOver(reg) ELSE {}
===============================================================================
