# A TLA+ verification of sonic-platform-common

`sonic-platform-common` is the Python library through which SONiC daemons and command line tools
drive the hardware of a switch: optical transceivers, DPU modules, the BMC, fans, thermals, EEPROMs.
Most of it is interfaces and parsing. The parts that keep state over several steps, and that several
processes use at once without knowing of each other, are modelled here in TLA+, checked on small
instances with TLC, and proved for all instances with TLAPS where the prover can reach.

Paths are relative to `src/sonic_platform_base` unless they start with `sonic_`. `cmis.py`,
`cmisCDB.py`, `sff8636.py` are in `sonic_xcvr/api/public`; `cdb.py`, `cdb_fw.py` in `sonic_xcvr/cdb`.

## 1. The system

| Part | State it keeps | Operations | What makes it correct |
|---|---|---|---|
| CDB channel (`cmisCDB.py`, `cdb.py`) | page 9Fh and the status byte of the module, shared by every process with an API object; poll counters | write body, write header (trigger), poll, verdict; two implementations | a verdict is about the client's own command, and not given before it ended; every call ends |
| CMIS firmware (`cmis.py` 1841-2277) | two image banks of the module (running, committed, valid), the download in progress; address and remaining | download, run, commit, switch, upgrade; password retries; abort | True means it happened; no invalid image is started; the blocks are the image |
| CDB firmware handler (`cdb_fw.py`) | the same banks | header, blocks, validate, run, commit | the same |
| Lane control (`cmis.py` 911-993, 1372-1694, 2670-2871, 3014-3226) | lane masks, loopback registers, application selection, data path and module state, low power, staged settings | read-modify-write of masks, loopbacks by side, set_application, decommission, set_lpmode, reset, staging | a setting holds when the call says so and leaves the other lanes alone; loopbacks of the two sides exclude each other |
| DPU transitions (`module_base.py` 411-724) | transition flag, type, start time and halt request in the state database; a lock file; one process per admin | set_admin_state_gracefully, get/set/clear of the flags, the wait for the gNOI daemon | opposite transitions exclude each other; the flag is up throughout; every call ends |
| DPU peripherals (`module_base.py` 232-410, 1080-1200) | PCI entries in the database, sensor configuration files | PCI detach and rescan, sensord reload | entries match the bus; sensord sees whole files |
| BMC sessions (`redfish_client.py`, `bmc_base.py`) | the client's token, the BMC's session table, the root password and its minimum length | login, logout, command with retries and renewed login, wrapped calls, reset of the root password | no session is left behind; success is not claimed falsely; a reset restores what it changed |
| Redfish tasks (`redfish_client.py` 536-760, `bmc_fw_update.py`) | a task of the BMC, its progress | wait with timeouts, firmware update, BMC restart | the wait ends; an update is reported as what it was |
| Thermal policies (`sonic_thermal_control`) | loaded policies, running flag | load, validate, run, stop | one policy per condition; stop stops |
| System EEPROM (`sonic_eeprom`) | the device, a cache file, a copy in the database | read, decode, checksum, cache | what is decoded was on the device |
| Broadcom Y cable (`sonic_y_cable/broadcom/y_cable_broadcom.py`) | command and status byte of the MCU's mailbox; fast command register of the mux; two handshakes beside them; firmware banks of four destinations, reset bits; class attributes with the options of the last port; three locks | commands with polling, toggle and direction, about eighty configuration calls, logs and RAM, download, activation, rollback, reset | a command is carried out once and for its caller; the last toggle wins; success means set at the right end; firmware calls do what they tell |
| Credo Y cable (`sonic_y_cable/credo/y_cable_credo.py`) | registers of the cable; the vendor command page; firmware slots of the sides; one reentrant lock | register calls (two under the lock), vendor commands, event log, download, activation, reset | settings survive the read-modify-write of each other; an answer is of the command and the end that was asked; firmware calls do what they tell |
| Legacy Credo driver (`sonic_y_cable/y_cable.py`) | the same registers, no lock | functions of a module | the same, for one user |
| Simulated Y cable (`sonic_y_cable/microsoft/y_cable_simulated.py`) | an HTTP service; settings kept in the object | requests repeated until they are answered | a repeated request does no harm |
| Others | | API cache, transceiver factory, EEPROM memory maps, VDM, C-CMIS, SSD and PCIe utilities, legacy SFP parsers, vendor interfaces | |

How they interact. `CmisApi` calls the CDB channel for every firmware command, through `write_raw` and
`read_raw` of the platform's SFP object; several daemons have such objects for one module. The two CDB
implementations share the module page and nothing else. A DPU shutdown runs through four parties: the
admin process, the state database, the gNOI daemon, the platform's own `set_admin_state`. Every call
of `BMCBase` is wrapped in a login and a logout of the one `RedfishClient` of the process, and a
retry inside a command can replace the session that the wrapper opened.

The Y cable drivers are plugins of one process with several threads: the monitor and the command line
handler of `ycabled` share a port object. The cable's MCU serves both ToRs, so that the other host's
commands, resets and downloads go on beside those of this one; the models have one host, and where
the cable acts by itself ("Happens", `Switch`) they say so.

What is hard: unlocked sharing of one register page; results of writes that nobody looks at; status
bytes that outlive the command they are about; processes that die between two of several writes;
timeouts that race the answer; retries whose second outcome is treated differently from the first.
`PROJECT.json` lists these hazards at their lines.

## 2. Modules

### CdbChannel: the page shared by its clients

| State | Code |
|---|---|
| `lpl`, `status`, `task` | page 9Fh, the CDB status byte, the command the module works on (external) |
| `pc`, `polls`, `msg` | where a client is in `write_cdb`/`cdb1_chkstatus` or `write_cmd`/`wait_for_cdb_status`/`send_cmd` |
| `verdict` | "true", "false", "busy" (a status that is neither), "unknown" (None, or an exception) |
| `outcome` | history: what the module did with the trigger of the client's latest call |
| `overtaken` | history: the clients that still waited when another's trigger was accepted |

One action per access to the module: `WriteBody`, `TriggerAccepted`/`TriggerFailed`, `ApiPoll`,
`HandlerPoll`; `Sleep` is the sleep of CDB_MAX_CAPTURE_TIME before the handler's first poll. Between
the trigger and `Capture` the module (external) has a command but still shows the status of the one
before; that it captures within CDB_MAX_CAPTURE_TIME is what the model assumes of it, and the one
assumption on its pace. `ApiPoll` is `cdb1_chkstatus` (result of both writes dropped, a missing status counted
as busy, the last status returned whatever it is); `HandlerPoll` is `wait_for_cdb_status` (the delay is
counted before the read, so that an answer in the last poll comes too late). A check code is modelled by
what it does: it is one byte over header and body, so two commands whose headers have equal sums cannot
be told apart by it, as are 0001h and 0100h. Contents of replies are left out.

### FwUpgrade: upgrade of a module

One step of the host is one CDB command, `write_cdb` followed by `cdb1_chkstatus`; `Replies` gives
what may come of it. The module (external) has two banks, refuses any command for a password or another
reason, and with `Slow` is busy beyond the host's polls: the next write is then lost and the host reads
whatever the status is by then. It trusts the host: a run command is executed whether or not the
other bank is valid, so that the host's own checks are what is tested. `pc` names the next command of
`module_fw_download`, `module_fw_run`, `module_fw_commit` and `module_fw_switch`; `module_fw_upgrade`
is `call = "upgrade"` going through them. `addr` and `remaining` are those of the block loop. `sent`,
`done`, `fresh`, `resets` are history.

The step from CdbChannel to FwUpgrade: a host alone on the page sees from `write_cdb` and
`cdb1_chkstatus` what `IdleReplies` and `BusyReplies` list. `get_module_fw_info` reads through the
handler `CdbCmdHandler`, whose answer is its own command's when nobody overtakes it: that is
`HandlerVerdictSound` of CdbChannel. That the module is busy from the trigger on is an assumption here:
`CmisCdbApi` does not wait for the capture (section 4).

### DpuTransition: admin state of a DPU

| State | Code |
|---|---|
| `flag`, `type`, `age` | transition_in_progress, transition_type and the time since transition_start_time |
| `halt` | gnoi_halt_in_progress |
| `lock` | who holds the flock on the lock file of the module |
| `pc`, `op`, `mine`, `wait` | per process: where it is, what it was asked for, how long it is in transition, what is left of its wait |
| `env` | which faults happen in the behaviour: "long" (a transition longer than the shortest allowance, within its own), "overrun" (beyond its own), "db", "death"; chosen at the start |

The three writes of `set_module_state_transition` and the three of `clear_module_state_transition`
are separate actions, so that deaths and database errors fall between them; `SetRaises`, `ClearRaises`
are their exception handlers. `GetOverdue` ends in "nested", from which there is no step but death:
`clear_module_state_transition` opens the lock file a second time and waits for a lock its own process
holds. `Work` stands for the platform's part. Time is counted in `Tick`s up to `Cap`.

### RedfishSession: sessions with the BMC

`session` is the client's token, `alive` the BMC's table. `Curl` is `__exec_curl_cmd_internal`: what
the BMC does and what the client sees of it: an answer may be lost after the command was carried out,
and the command then be timed out and sent again. A refusal with a body is a success of cURL; `Checked`
is the code where a call looks at the answer's body, and a refused reading call may return OK.
`TimesOut`, `Answered`, `Unauthorized`, `Rerun`, `LoginGranted`, `LoginTimesOut`, `LoginFails` are the
paths of `exec_curl_cmd`; the actions named `...Returns` are what the calls do with the result,
up to the logout of `with_session_management` in `Finish`. Reading calls are one command without
effect (`api = "read"`). `open_session` and `close_session` bypass and cross the wrapper as they do in
the code. `faults` counts lost answers, refusals, dropped sessions and closings of the client's own
session up to `MaxFaults`; faults go on beyond it, uncounted.

### CommandChannel: what a mailbox owes its callers

An abstract specification with three variables: who is calling, whose command was carried out, who was
told so. A command is carried out at most once per call, and a call ends well only after that. It is
implemented by `BcmMailbox` and by `CredoVsc`, two drivers whose mailboxes have nothing in common but
this: in `IsCommandChannel` the callers are the threads, `calling` those with a command under way, and
`ran`, `good` the history variables of those modules. The mapping is for MCUs that answer in time and
lose nothing: a late one may take the arguments of the next call for those of the last.

### Broadcom Y cable: BcmMailbox, BcmMux, BcmPort, BcmSideband, BcmFirmware

They share no register, so each has a state of its own and `Broadcom` composes them as alternatives: a
behaviour is one of one part (`part`), and what only the others have stays `Off`.

* `BcmMailbox` is `__cable_cmd_execute` at the granularity of register accesses: `Look`, `Withdraw`
  and `Reset` are what a call does with the command it finds, `WriteParams`, `Trigger`, `Poll...`,
  `ReadResponse`, `Clear`, `Release` its own. Every access has its exit in `Lost`.
* `BcmMux` is toggling and asking for the direction: byte 105 of newer cables, else the fast command
  register under its own lock, whose polls may be used up (`GiveUp`) with the command pending.
  `ReadShown` may also find that the NIC cannot reach the cable, which is an unknown direction.
* `BcmPort` is every configuration call as a program of mailbox commands, each carried out, refused or
  carried out with its answer lost. `Command` derives the lanes from the side of the host, as the
  driver does, which may fail. `matched` is the class whose attributes all ports and threads write;
  `OtherPort` is a call for another port that has written all of them, or all but the mode, which is
  assigned last; it comes only while the call under way has yet to use them (`UsesMatched`), since each
  call assigns them anew. The second command of `disable_loopback_mode` goes to the lanes of the first.
* `BcmSideband` is the two handshakes without the mailbox: event logs and watchdog of the ToR MCUs, and
  their RAM; only the logs take the lock. `disturbed` is history: an access was lost, the MCU was late,
  or a user without the lock was at the registers at the same time as another.
* `BcmFirmware` has a call as a program of exchanges under `dl_lock`: what it gathers from the four
  destinations (`Gather`, `Info`), what it decides, and what it writes; an exchange may fail with or
  without effect (reading the mux's part of the image file asks nothing of an MCU), or raise an exception, after which the lock stays taken. `settled` is history: no
  earlier call had left a switch that waits for a reset (`next = cur`) when this one got the lock.
  Without it `UpgradesAsTold` is false with two calls, since the reset that a failed call waited for in
  vain may still come and make its switch during the next one; the run has two calls, so that both
  cases occur in it. `RunAnImage` makes `AlignedNeverBlank` speak of cables whose destinations run a valid image, as
  they must to answer at all.

### Drivers on registers: AccessSteps, CredoPort, LegacyYCable, SimulatedCable, LaneControl, RegisterCalls

Where a driver is hundreds of calls of a few accesses each, a call is a program: a sequence of the
accesses of `AccessSteps` ("put", "merge" for a read-modify-write, "aim" at the end the cable was told
before, "start", "await", "need", "lock"), each with what its loss does. The four driver modules give
the programs, one operator per function of the code, and what a success promises (`goal`);
`RegisterCalls` runs them: `Begin`, one action per kind of access, `Lose`, `Refuse`, and the device
(`Finish`, `React`). `family` groups the calls that share registers. `alone` and `blind` are history:
no one else has written since the call began, and the call went on after a lost access.

### Vendor commands of the Credo cable: CredoCommands, CredoVsc

`CredoCommands` gives the calls as programs of commands; `CredoVsc` is `send_vsc` with the page, the
lock and the MCU: `WriteAttributes`, `WriteOpcode`, `ReadStatus`/`StatusLost`/`TimesOut`, then
`ReadAnswer` or `ReadMore`. `fw` holds the images of the two slots of each side, which slot is next,
and how far a download is. `Raises` are the exceptions that leave the lock with their thread.

### Modules that hold runs and proofs

`MC<module>` extends a module with the values of its constants and with properties that only runs
use. `Broadcom` and `Drivers` instantiate several modules, the parts of one driver and drivers of one kind;
their constants have their values in the configurations. `<module>Proofs` extends a module with
TLAPS theorems: `BroadcomProofs` has those of the configuration, the mailbox, the mux and the sideband
registers and, on top of `BcmFirmwareProofs`, those of the whole driver; `RegisterProofs` has the lemmas about the
drivers on registers, and `DriversProofs`, on top of it, those about the vendor commands of the Credo cable and
the theorems of both parts. Operators whose comment starts with "Defect" are
deviations a bug in the code would cause; no specification uses them, they show that the properties
can fail.

## 3. Runs

| Run | Instance | Checks |
|---|---|---|
| `cdb` | one client of each implementation; three commands, two with headers of equal sum; three polls; any access may be lost, the status is stale until the capture | `TypeOK`, `HandlerVerdictSound`, `HandlerToldAfterEnd`, `CallReturns` |
| `fw_upgrade` | three blocks, the last one partial; one reset; slow module | `TypeOK`, `BlocksCoverImage`, `DownloadTrueMeansComplete`, `NeverRunsInvalidImage`, `UpgradeTrueMeansNewImageRunning` |
| `fw_returns` | two blocks, slow module, lossy bus | `CallsReturn` |
| `fw_run_true` | as above, lossless | finding 1 |
| `dpu` | two admins and a watcher; allowances in the order of the code, three ticks for a startup and two for a shutdown; all eight combinations of overruns, database errors and deaths | `TypeOK`, `TransitionExclusive`, `FlagWhileInTransition`, `HaltFlagIsOwned`, `AdminCallsReturn` |
| `dpu_takeover` | two admins, the same allowances, transitions that keep to their own; `OwnAllowanceExcludes`: finding 2 | finding 2 |
| `dpu_nested_lock` | an admin that may overrun, a watcher | finding 3 |
| `bmc` | three entries in the session table, all calls, endless faults of which four are counted | `TypeOK`, `LoggedOutWhenDone`, `SessionsAccounted`, `ResetOkMeansReset`, `CallsReturn` |
| `bmc_recovery` | reading calls, one fault counted | finding 4 |
| `bcm` | the five parts of the Broadcom driver; two threads, one poll, two packets, two calls about firmware | `TypeOK`, `OneCallRepairs`, `IsCommandChannel`, `LastToggleWins`, `DirectionSeen`, `ToldTruly`, `CreatedAsAsked`, `FecKeepsTheRest`, `AnswerOfRequest`, `UpgradesAsTold`, `HitlessKeepsMux`, `AlignedNeverBlank`, `ResetTrueMeansReset` |
| `drivers` | four drivers on registers, 22 families of calls, two threads or processes; vendor commands with a timely, a late and a lossy MCU | `TypeOK`, `IsCommandChannel`, `AsTold`, `LoopbacksExclude`, `AnswerOfTarget`, `FirmwareTold`, `ResetKeepsImage` |
| `credo_activate` | as `drivers` | finding 5 |

Bounds and why they are enough.

* Two clients of the CDB page: every property relates one client to its page, and a third client can
  do to a page nothing that the second, which may call anything again and again, cannot; the theorems
  cover any number. Three polls have a first, a middle and a last one.
* Three blocks have a first, a whole and a partial one; the theorem covers the rest. One reset: a
  second finds a module in a state the first can leave. Real sizes are 116 bytes or the advertised length.
* Two admins: exclusion relates pairs; the theorem covers any number. Two ticks separate "within",
  "at the end of" and "beyond" an allowance. `CodeTimeouts` keeps the order of the defaults, 300 s
  against 180 s.
* Three entries with four counted faults: the table can be full, and the count passes its size.

* Y cables and lanes: two threads, because the properties relate a call to what one other does between
  its steps. One poll has a status before and after it. Two ends, two lanes with masks of one and of
  both: a write has a lane or an end beside the one it is about. Two sides of
  a Credo cable (the own one and another), two chunks of an image, one repetition of a chunk and one
  more round of the event log have a first and a last of each. One thread installs, `MaxCalls` = 2 calls in
  sequence (an activation after a download, a download after a failed one); the other asks and resets
  once. One lost write for the vendor commands; any access may be lost on registers. These bounds are
  in `bcm.cfg` and `drivers.cfg`. Inside the modules: values of settings are 0 and 1, dumps have three
  words, counters stop at one.
* `CHECK_DEADLOCK FALSE` in `bcm`, `drivers` and `credo_activate`: the bounds on calls end a behaviour,
  and a thread that has kept a lock through an exception stops the others.

Fairness.

* `WF(ClientStep(c))`, `WF(HostStep)`, `WF(ClientStep)`: a client that runs goes on, because its loops
  only sleep and count, and cURL ends each command by its own time limit. Nothing is asked of the module or the BMC.
* `SF(AdminStep(p))`, `SF(WatcherStep(p))`: waiters of a flock are served in turn, so one that could
  have the lock again and again gets it. `WF(Tick)`: time passes. Nothing is asked of the daemon.
* The Y cable and lane modules state safety only. Their loops are counted or timed, and what ends them
  is a step of the models (`PollAgain`, `TimesOut`, `Refuse`), so that a call that goes on returns.
* `AdminCallsReturn` excepts behaviours in which a watcher hangs with the lock (finding 3).

## 4. Findings

1. `module_fw_run` returns True although the command was refused twice: the status after the password
   goes only into the text (`cmis.py:2030`). `module_fw_commit` does the same (`cmis.py:2067`).
2. A transition in progress is measured against the allowance of the type that is asked for, so a
   shutdown takes over a startup that has time left (`module_base.py:650`).
3. A process that looks at an overdue transition waits for its own lock (`module_base.py:713`).
4. A command that succeeds after a renewed login is reported as an authentication failure
   (`redfish_client.py:912`).
5. `activate_firmware` of the Credo cable with a file returns success without having activated anything
   when no side holds the file's version in its inactive slot (`y_cable_credo.py:1758`), although its
   docstring says that it ensures the versions are downloaded.

What the code does not ensure, seen while the properties were stated and not listed as runs:

* `write_cmd` drops the result of the body write (`cdb.py:36`): when it fails, the header triggers the
  payload of the previous message and `send_cmd` returns True. `HandlerVerdictSound` therefore speaks
  of the command, not of its payload.
* Two clients of the CDB page have no lock: a handler that was overtaken can be told the result of the
  other's command (`cdb.py:69`); `HandlerVerdictSound` leaves it out, `HandlerToldAfterEnd` does not. A
  body that another client wrote is executed when its header has the same sum (`cmisCDB.py:69`).
* `CmisCdbApi` reads the status right after the trigger (`cmisCDB.py:124`): a module that has not
  captured the command yet shows it the result of the one before. `CdbCmdHandler` sleeps first.
* `write_cdb` drops both results (`cmisCDB.py:138`): on a lossy bus `module_fw_download` can take the
  status of the last block for that of the validation. `DownloadTrueMeansComplete` is checked and
  proved for a lossless bus.
* A failed `validate_fw_image` is not followed by an abort (`cmis.py:2193`, against the docstring at 2106).
* `module_fw_upgrade` returns True when the commit failed (`cmis.py:2255`).
* A database error between the writes of the flag and of the start time leaves a flag that never times
  out (`module_base.py:638`); one in the wait for the daemon counts as its answer (`module_base.py:537`).
* An admin that was taken over clears the flag of its successor (`module_base.py:679`), after which
  further transitions overlap: `TransitionExclusive` and `FlagWhileInTransition` speak of behaviours
  in which no transition takes longer than the shortest allowance (180 s by default).
* Closing the session that the process itself opened leaves another one (`bmc_base.py:189`): it counts
  as a fault in `SessionsAccounted`.
* `reset_root_password` returns without restoring the minimum length when the command that lowered it
  was carried out but reported as a failure (`bmc_base.py:470`).
* `close_session` takes a refused list of sessions for one without the session and returns OK without
  having logged it out (`redfish_client.py:981`); a refused query of a firmware version returns OK and
  'N/A' (`redfish_client.py:1186`).

Broadcom cable (`y_cable_broadcom.py`):

* Configuration calls that cannot read the side of the host go on with the lanes of ToR B and return
  True (894); `ToldTruly` is about calls that could read it.
* `create_port` returns True although its mode change failed, or its commands to ToR B did (5618):
  `CreatedAsAsked` is about the NIC and ToR A only.
* The options of a port are attributes of the class `valid_port_option_table_s` (112): a mode learned
  for one port is set on another when two are configured at the same time (5704).
* An exception under `acquire_timeout` leaves the lock with its thread (262).
* Without a file, a destination can be switched to a blank bank when the ToR ends run from banks of
  different numbers (4559), against the comment above the check.

Credo cable (`y_cable_credo.py`):

* The results of the writes of `set_target_cursor_values` (1325) and `set_autoswitch_hysteresis_timer`
  (2740) are dropped: success is claimed for lost writes. `AsTold` speaks of calls that lost nothing.
* `get_switch_count_total` adds the -1 of a clear that failed to the count (1078), and clears the
  automatic count by a write into the counter, not into the register that clears it.
* Read-modify-writes of the mode byte (2343, 2427) and the writes of the target register (2963, 3184)
  take no lock: two threads lose an update or measure each other's end. Only `get_eye_heights` does.
* When the write of the opcode is lost the status of the previous command is taken (317).
* The status of the command that asks for the progress of the copy is not looked at (1617): after a
  reset of the own side during the copy the download returns success. `FirmwareTold` then promises the
  image on the own side only.
* An opcode runs whatever command is in the page. When a second installer is refused during the copy its
  start command stays there; if the write of the first one's next query of the progress is the one that is
  lost, its opcode runs that start, which empties the slot, and its download returns success.
  `FirmwareTold` promises the own side after one lost write only where nobody else installs.
* Two activations of one file that run one after the other toggle the sides back (1739-1788): the
  second has looked the versions up before the first committed.
* A trailing part of an image that is shorter than a chunk is not sent (1529).
* A failed read in `get_firmware_version` (1408), `get_eye_heights` (985), or an event of an unknown
  type (2585) raises under the lock, which is never released.

Simulated cable: `get_switch_count_tor_a`, `_tor_b` and `_target` raise a TypeError whenever they are
called (`y_cable_simulated.py:428-493`), and `get_alive_status` is always True (762).

Lane control (`cmis.py`): masks are read and written back without a lock (951, 993), so processes lose
each other's updates; a loopback register that cannot be read counts as one without loopbacks
(1520), and two processes can each enable one of the two sides; once both are on, every call of
`set_..._loopback`, the disabling ones too, is refused until the module is reset.

## 5. Proofs

| Theorem | Assumptions beyond those on the constants | Argument |
|---|---|---|
| `FwUpgradeProofs!TypeCorrect` | none | the type invariant is inductive; the lemmas `EndingsType`, `RepliesType`, `InfoType` say what a command leaves |
| `BlocksCover` | none | `addr + remaining = Total` is kept by `Block` and established by `EnterLoop` |
| `SwitchSafe` | none | `SwitchInv`: during a switch both banks are valid and the module is not busy with a start command, the only one that invalidates a bank |
| `DownloadComplete` | lossless bus, image longer than its header | `DownloadInv`: a download that got as far as its blocks executed its start, and the status the host compares is that of the complete command |
| `NewImageRuns` | lossless bus, image longer than its header | `UpgradeInv`, on top of `DownloadInv`: the image validated last is in the bank that does not run until the switch has looked, and no command is under way then that could change it; the property itself leaves out resets |
| `DpuTransitionProofs!TypeCorrect` | none | inductive |
| `Exclusive`, `Announced` | none; the properties are about behaviours whose transitions take no longer than the shortest allowance, whatever the allowances are | `Inv`: writers of the flags hold the lock, and an owner of the flags has `flag`, `age = mine` within the shortest allowance, and no other owner or writer beside it; so `SetFlag` by another finds a flag that has not expired |
| `HaltOwned` | none | inductive with the type invariant |
| `RedfishSessionProofs!TypeCorrect`, `LoggedOut` | none | inductive |
| `ResetSound` | none | `AnswerInv`: an answer that counts as success was given to a command that was carried out; `ResetInv`: how far a reset that reports no error has come |
| `Accounted` | none | `Paid`: at most one open session per fault, and one fewer while the client is `Doomed`, that is, holds or is about to lose a session that has been paid for already; each step is quiet, pays for what it leaves, or leaves what a doomed state paid for |
| `CdbChannelProofs!TypeCorrect` | none | a client at work has a message |
| `VerdictSound`, `ToldAfterEnd` | none; any number of unlocked clients | `Pending`: the module has a client's command exactly while that client's latest trigger is pending; `Handler`: a handler that polls a pending command sees a busy status, another client can overtake it only after its command ended, and until then the status byte is that of its own command |
| `BroadcomProofs!OneRepairs` | none | `Repair`: with a timely MCU a call that was turned away has left the mailbox clean (no command, status free, MCU idle), and it is clean still when the next call looks; `calm` calls find the MCU as they saw it |
| `MailboxIsChannel` | none | `Locked`: who is inside holds the lock; `Once`: a command the MCU is at is still written and its caller has been told nothing; `Progress`: how far the call of the holder has come. Every step maps to `Begin`, `CarryOut`, `End` or a stutter. With a slow MCU the mapping is empty: the driver takes the answer to one call for that to another |
| `ToggleWins` | none | `Moved`: a bit that is clear leaves the register empty and the MCU idle, so that nothing is left that could move the mux again |
| `DirectionTrue` | none | `RegisterOwned`, the lock, and `Found`: what a call has found, or will read next, is where the mux was since it began |
| `RightAnswer` | none | `AloneThere`, one user at a time, who leaves the registers clear, and `Served`, how far a handshake has come; both as long as nothing disturbed it |
| `BcmFirmwareProofs!FirmwareTyped` | none | inductive, with the sets of the steps and of the answers (`Steps`, `Answers`) that a program is made of |
| `ToldOfUpgrades` | none | see below |
| `HitlessSafe` | none | `Hitless`: as long as a hitless activation has a switch to write, the mux's two banks hold one version; so moving it does not change what it runs |
| `AlignedSafe` | none | `Switches`, a part of `Programmed`: once the decision is made, the answers say what the banks hold, and without a file it was made because the spare banks are good (`SparesGood`); nothing writes an image before the switches are done |
| `ResetSeen` | none | `Resets`: the end of a reset that still waits has its bit set, or has been reset since |
| `BroadcomProofs!ConfigurationTyped` | none | `CallsFit`: every one of some eighty calls is a program of commands that its family's registers have, which is proved family by family; a command keeps the types whatever it is |
| `TrulyTold` | none | `Promised`: a setting that is promised is still among the commands to come, or holds; a command that fails ends its call, and one that goes to another register does not touch it |
| `CreatedRight` | none | `Configured`: which end of the seven commands is left, and what those before it have set |
| `FecKeeps` | none | `Learns`: which of the four reads are left and that the shared attributes hold what the others read; `Recreated`: the same for the seven commands that follow |
| `TypeCorrect` | none | a behaviour stays in its part, and each part has its types |
| `DriversProofs!PartsKept` | none | a behaviour stays in its part; `RegisterInv` and `Untold` are inductive in that of the registers, `VscInv` in that of the vendor commands |
| `TypesKept` | none | `RegisterContents` and `Works`; `VscBase`: the types, and of each program which commands it is made of (`Sound`), that its chunks and its end come in order (`Ordered`), and that who is behind the lock holds it |
| `CallsTellTruly` | none | see below |
| `LoopbacksKept` | none | `GotLoops`: of the two registers of the other side each is still to be looked at, or has been found without loopbacks and not been written since; the write is the last access of its call |
| `AnswersKept` | none | `GotMeasured`: the end that was chosen is still in the register when the measurement starts, and its result is of it, because the others are kept out by the lock or have not written; `VscPage`, `VscAnswer`: what is in the page after a status that says done is the answer to the command of the holder |
| `ResetKeeps` | none | `VscReset`: a side whose next slot is not the one it runs from is in the hands of the activation that committed it, or of one that has failed; who resets holds the lock, so no activation is between its commit and its run |
| `ChannelRefined` | timely MCU, as the property says | `VscChannel`: what the MCU is at is still written in the page, and its caller has been told nothing; every step maps to `Begin`, `CarryOut`, `End` or a stutter |
| `FirmwareKept` | none | `VscTold`: what the commands that are behind an undisturbed download or activation have brought about, and what the page shows of the last one; see below |

All hold for every value of the constants, for `Spec`, and so for `FairSpec`, which implies it.
`TransitionExclusive` is not inductive: that two processes are not in transition says nothing of the
process that is about to be, hence the parts about writers, the flag and its age.

The assumptions on the constants of the Broadcom modules (`MailboxAssumption`, `MuxAssumption`,
`SidebandAssumption`, `FirmwareAssumption`) are definitions, because `Broadcom` instantiates those
modules; it assumes all of them in `PartsAssumption`, and the theorems name them. They ask that the numbers of polls,
packets and calls are at least one, that `Nobody` and `Stale` are different and none of the threads, and
that the upgraders are threads.

`ToldOfUpgrades` is the longest argument. A call of the firmware is a program, so the invariant `IInv`
says of the running call which programs may be left (`DownloadShape`, `AskShape`, `SwitchShape`) and what
the steps behind it have brought about. A download has its upgrades in order and, once COMPLETE of a
destination is done, the file's image in its inactive bank (`Loads`, `Downloads`). An activation or a
rollback has, for each end, its switch still to come, or a switch that is made, or a switch that waits for
a reset of its own (`Planned`, `Performs`, `Switches`); an end that nobody switches does not move
(`Unmoved`). The lemmas on sequences (`TailOf`, `ConcatOf`, `SwitchTail`, `DownloadConcat`...) say that
these shapes are kept when a step is done and when `Info` puts an upgrade in front. `Coupled` relates
the lock, the job and who is waiting. Two facts about the model came out of the proof: two
cases of `Rollback` overlapped where the code has an `if` and an `elif`, which is corrected, and the
switch that an earlier call has left behind for a later reset to make is the reason for `settled`.

`VscInv` is `VscBase` (types, the shapes of the programs, the lock) and `VscRest` (`VscChannel`, `VscPage`,
`VscAnswer`, `VscCalls`, `VscReset`); the first is inductive by itself, the second needs it. The proof
changed four things in the model. `firmware_version(side)` gave the side as a value where the MCU of
the model takes it as a field, so that it asked always for the same side. `Transfer`, the program of a download, was
recursive and is a function of the chunk. `MaxCalls` has to be at least one. And
`AccessSteps` has functions `:>` and `@@` of its own, because the provers do not see those of TLC.

`RegisterInv` is about any call of the four drivers. `Shaped` says what the rest of a program may be: accesses that
fit the registers of the family, a merge behind the read it writes back, the lock around eye
measurements, and for a call that sets fields that it writes no other field of that register
(`Within`) and that what it writes wrong it sets right later (`Corrected`). `GotSet` says what the accesses behind
have brought about: every field the call is to set has its value or is still to be written, and the end
chosen is still chosen; `GotRead` that a call that is alone writes back what the register still holds. From
these the two halves of `AsTold` follow at each write (`TellsTruly`): other fields stay, and with the last
access all fields are set. That every program begins with the invariant is `CallsWhole`: some hundred and twenty calls, driver by
driver (`CredoCalls`, `LegacyCalls`, `SimulatedCalls`, `LaneCalls`), those of the transceivers for any set of
lanes and any masks. That needs the lanes of a mask in a sequence (`AscendingOf`), for which the model takes them
in ascending order by definition, where it sorted them with an operator that is recursive in the community modules.

`VscTold` says for each call how far it is by the commands that are still ahead in its program
(`Ahead`): once "complete" is behind the own side has the image, once "uart" is the others have it or are
being copied to, once the loop over the progress is they have it (`DownloadRest`); an activation from a
file has committed and run only sides that hold it (`ActivateRest`). The step in between is on the page: a call that
polls a command that is done must find there what that command brought about (`DownloadPage`,
`ActivatePage`). After one lost write (`LossRest`, `LossPage`) the page may hold the command before the
lost one, and what the proof needs is that none that is still there after "complete" is a "start", which
would empty the slot. That no call of another thread undoes any of this is `ThreadTold` and `StillAlone`:
either the commands of the others leave the images alone, or the call is not `alone` any more. The programs have these shapes
(`Downloading`, `Activates`) because they are put together from sections that have them, which is shown
once for a section, a concatenation and a chunk that is sent again. The proof corrected the property:
it promised the own side after one lost write whoever else installs, which TLC refutes with two
installers (section 4); the run `drivers` has one. `VscTold` itself has been
checked by TLC on the constants of that run. With two lost writes nothing is
promised: TLC has both writes of the complete command lost, and a download that reports success with a
partial image.

Only model-checked: liveness (`CallReturns`, `CallsReturn`, `AdminCallsReturn`), which needs fairness
and ENABLED. Nothing here rests on a recursive definition: programs are sequences that are consumed from
the front, and their shapes are stated by quantifiers over their indices.

## 6. Not modelled, and why

Interfaces for vendors, factories and parsers have no state or none but what they parse. Wordings of
messages, formatting and logging are left out. External sides (modules, MCUs, BMC, daemon, clock) are
modelled from how the code uses them. Of the MCU of a Credo cable it is assumed that it takes chunks
only in sequence and checks them, that a complete command verifies the image, that a commit marks the
inactive slot as the next one and a run restarts from it, that the copy to the other sides ends unless
the own side is restarted, and that a measurement starts anew with each request; of that of a Broadcom
cable that SWAP marks the other bank and that the mux follows the NIC. The bytes of the progress of a
copy that the code reads and ignores are left out.

Not modelled inside the modelled parts: contents of CDB replies; exceptions of starting cURL; a platform
whose `set_admin_state` raises is the death of the process in transition; a wall clock that is set
back; conversions of monitors and counters, torn reads of counters of several bytes; the download
status attribute of the Y cables; the helpers of the Credo driver that send vendor commands without
the lock; the four calls of `set_loopback_mode("none")` are calls of their own in the model; the register dumps and print helpers of the Broadcom driver.

Not modelled at all, although they keep state: `CdbFwHandler` (the loop over `send_cmd`), the CMIS API
cache, Redfish tasks, DPU peripherals, thermal policies, the system EEPROM, the page access of
`sfp_optoe_base.py`, the freeze of VDM statistics, the SFF APIs.

## 7. What would come next

`CdbFwHandler` in FwUpgrade and the runs `fw_upgrade` and `fw_returns`; `RedfishTask` over
RedfishSession; `DpuPeripherals` with DpuTransition; an abstract specification of two firmware banks
that FwUpgrade, BcmFirmware and CredoVsc implement; a second host on the Y cables.
