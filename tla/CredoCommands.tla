----------------------------- MODULE CredoCommands -----------------------------
(***************************************************************************)
(* The calls of the Credo driver that go through the vendor command page   *)
(* (y_cable_credo.py), as programs of commands for CredoVsc.  A command    *)
(* is its opcode and option (reg) with its argument (val); sides of the    *)
(* cable are the domain of an argument.                                    *)
(***************************************************************************)
EXTENDS AccessSteps

CONSTANTS Sides,   \* MCUs of the cable; 0 is the one that is talked to
          Chunks   \* chunks of a firmware image

Cmd(op, arg) == Access("command", op, arg)
Fetch(op, arg) == Access("fetch", op, arg)      \* reads the command's answer
More(op) == Access("more", op, <<>>)            \* reads it, and asks again if there is more
Section(steps) == <<Lock>> \o steps \o <<Unlock>>

Asked(op, arg) == <<Cmd(op, arg), Fetch(op, arg)>>
Tolerated(steps) == [i \in DOMAIN steps |-> Ignoring(steps[i])]

-------------------------------------------------------------------------------
(* Memory and registers of the chip, alone or as parts of statistics, where  *)
(* a failure is one more number of the result.  Bounds: two addresses of the *)
(* memory, one of the registers.                                             *)
tcm_read(a) == Asked("tcm_read", One(a))
tcm_write(a) == <<Cmd("tcm_write", One(a))>>
reg_read(a) == Asked("reg_read", One(a))
reg_write(a) == <<Cmd("reg_write", One(a))>>
fw_cmd_ext(a) == Asked("fw_cmd_ext", One(a))
tcm_read_atomic == {Program("tcm_read_atomic", Section(tcm_read(a)), Nothing) : a \in Sides}
tcm_write_atomic == {Program("tcm_write_atomic", Section(tcm_write(a)), Nothing) : a \in Sides}
reg_read_atomic == {Program("reg_read_atomic", Section(reg_read(1)), Nothing)}
reg_write_atomic == {Program("reg_write_atomic", Section(reg_write(1)), Nothing)}

(* Bounds: two of the numbers of a statistic, of the sixteen of a lane; of    *)
(* one lane; the other is read by the calls above.                           *)
get_pcs_stats == {Program("get_pcs_stats", Section(Tolerated(tcm_read(0) \o tcm_read(0))), Nothing)}
get_fec_stats == {Program("get_fec_stats", Section(Tolerated(tcm_write(0) \o tcm_read(0))), Nothing)}
get_anlt_stats == {Program("get_anlt_stats", Section(Tolerated(reg_read(0) \o reg_read(0))), Nothing)}
restart_anlt == {Program("restart_anlt", Section(Tolerated(fw_cmd_ext(0))), Nothing)}

-------------------------------------------------------------------------------
(* Diagnostics.  The event log is asked for until it has nothing more, with  *)
(* the lock released in between; the two halves of the queue and UART        *)
(* statistics are read under one lock.  Bound: one address, one other lane.  *)
ClearLog == Section(<<Cmd("log_clear", <<>>)>>)
get_event_log ==
    {Program("get_event_log", (IF c THEN ClearLog ELSE <<>>) \o Section(<<Cmd("log_dump", <<>>), More("log_dump")>>),
             Nothing) : c \in BOOLEAN}
Halves(op) == Asked(op, One(0)) \o Asked(op, One(1))
queue_info == {Program("queue_info", Section(Halves("queue_info")), Nothing)}
uart_stat == Section(Halves("uart_stat"))
get_uart_stat == {Program("get_uart_stat", uart_stat, Nothing)}
mem_read == {Program("mem_read", Section(Asked("mem_read", One(0))) \o Section(Asked("mem_read", One(1))), Nothing)}
dsp_fw_init_stat == Section(Asked("dsp_fw_init_stat", <<>>))
get_dsp_fw_init_stat == {Program("get_dsp_fw_init_stat", dsp_fw_init_stat, Nothing)}
serdes_params(lane) == Section(Asked("serdes_params", One(lane)))
get_serdes_params == {Program("get_serdes_params", serdes_params(1), Nothing)}
health_check == {Program("health_check", uart_stat \o Section(reg_read(0)), Nothing)}
debug_dump_registers ==
    {Program("debug_dump_registers", uart_stat \o dsp_fw_init_stat \o serdes_params(0), Nothing)}

-------------------------------------------------------------------------------
(* Firmware.  The goal of a download is the image on every side, that of an  *)
(* activation of a file that the sides it commits run it.                    *)
Load(k) == Access("load", "buffer", One(k))     \* writes a chunk to the page's buffer
Retrying(step) == [step EXCEPT !.fails = "retry"]
AnyOf(sides) == Access("any", "found", All(sides, 1))
Marked == <<>>                                  \* an argument: the sides that were found

Chunk(k) == Section(<<Load(k), Retrying(Cmd("xfer", One(k)))>>)
Transfer == [i \in 1..4 * Chunks |-> Chunk((i + 3) \div 4)[((i + 3) % 4) + 1]]  \* one chunk after the other
Begun == Section(<<Cmd("start", <<>>)>>)
Complete == Section(<<Cmd("complete", <<>>)>>)
ToOtherSides == Section(<<Cmd("uart", <<>>)>>) \o Section(<<Ignoring(Cmd("uart_status", <<>>)), More("uart_status")>>)
download_firmware ==
    {Program("download_firmware", Begun \o Transfer \o Complete \o ToOtherSides,
             Goal("download", "none", <<>>))}

(* Defect: the lock is released between the two. *)
CommitThenRun(arg) == Section(<<Cmd("commit", arg)>>) \o Section(<<Cmd("run", arg)>>)

(* The answer of one side is asked for; the version of the side that is      *)
(* talked to is known without the other sides.                               *)
firmware_version(side) == Section(Asked("get_info", All({side}, 1)))
get_firmware_version == {Program("get_firmware_version", firmware_version(s), Nothing) : s \in Sides}
Versions == firmware_version(0) \o firmware_version(1)
CommitAndRun(arg) == Section(<<Cmd("commit", arg), Cmd("run", arg)>>)

Activated(sides) == Goal("activate", "none", All(sides, 1))
FileGoal(sides) == Goal("activate file", "none", All(sides, 1))
WithoutFile(api, sides) == Program(api, CommitAndRun(All(sides, 1)), Activated(sides))
FromFile(api, sides) == Program(api, Versions \o <<AnyOf(sides)>> \o CommitAndRun(Marked), FileGoal(sides))
activate_firmware == {WithoutFile("activate_firmware", Sides), FromFile("activate_firmware", Sides)}
rollback_firmware == {[p EXCEPT !.api = "rollback_firmware"] : p \in activate_firmware}
activate_target_firmware ==
    UNION {{WithoutFile("activate_target_firmware", {s}), FromFile("activate_target_firmware", {s})} : s \in Sides}

(* A reset is the command that runs the next image of a side. *)
reset == {Program("reset", Section(<<Cmd("run", All({s}, 1))>>), Goal("reset", "none", <<>>)) : s \in Sides}

-------------------------------------------------------------------------------
Installing == download_firmware \cup activate_firmware \cup rollback_firmware \cup activate_target_firmware
Looking == get_firmware_version \cup reset
Calls(f) ==
    CASE f = "chip" -> tcm_read_atomic \cup tcm_write_atomic \cup reg_read_atomic \cup reg_write_atomic
             \cup get_pcs_stats \cup get_fec_stats \cup get_anlt_stats \cup restart_anlt
      [] f = "diagnostics" -> get_event_log \cup queue_info \cup get_uart_stat \cup mem_read \cup get_dsp_fw_init_stat
             \cup get_serdes_params \cup health_check \cup debug_dump_registers
      [] f = "firmware" -> Installing \cup Looking
===============================================================================
