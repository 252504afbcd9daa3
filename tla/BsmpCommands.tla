---------------------------- MODULE BsmpCommands ----------------------------
(***************************************************************************)
(* The BSMP functions of bsmp_lib.c that talk to the C28 core.             *)
(*                                                                         *)
(* All of them are one skeleton with different parts filled in:            *)
(*                                                                         *)
(*   [ulTimeout = 0] [writes before any test] [gate] busy test             *)
(*   [resource test] payload write, send, poll for the acknowledge, answer *)
(*                                                                         *)
(* A function is therefore a record that says which parts it has and in    *)
(* which order; IpcHandshake.tla executes the skeleton.  Only the parts    *)
(* that decide control are kept: an input packet is one value, and a       *)
(* block of memory that is always written together is one field.           *)
(***************************************************************************)
EXTENDS Naturals, Integers

----------------------------------------------------------------------------
(* ipc_lib.h: ipc_mtoc_lowpriority_msg_t and the MTOCIPC flag bits.        *)

Turn_On == 1
Turn_Off == 2
Open_Loop == 3
Close_Loop == 4
Operating_Mode == 5
Reset_Interlocks == 6
Unlock_UDC == 7
Lock_UDC == 8
Cfg_Source_Scope == 9
Cfg_Freq_Scope == 10
Cfg_Duration_Scope == 11
Enable_Scope == 12
Disable_Scope == 13
Set_SlowRef == 15
Set_SlowRef_All_PS == 16
Cfg_WfmRef == 17
Update_WfmRef == 18
Reset_WfmRef == 19
Cfg_SigGen == 20
Set_SigGen == 21
Enable_SigGen == 22
Disable_SigGen == 23
Reset_Counters == 24
Set_DSP_Coeffs == 26
Set_Command_Interface == 28

\* ipc_mtoc_lowpriority_msg_t, the unused members included.
Msgs == 1 .. 29

\* A register is the set of its one bits.
IPC_MTOC_LOWPRIORITY_MSG == 0
SYNC_PULSE == 1
HARD_INTERLOCK == 2
SOFT_INTERLOCK == 3

\* The bits that carry a low priority message: its strobe and its code.
LowBits == {IPC_MTOC_LOWPRIORITY_MSG} \cup 4 .. 15

FlagBits == 0 .. 15

\* The positions of the one bits of n.
Bits(n) == {i \in 0 .. 11 : (n \div 2^i) % 2 = 1}

\* ((msg << 4) | IPC_MTOC_LOWPRIORITY_MSG) & 0x0000FFFF
low_priority_msg_to_reg(msg) ==
    {IPC_MTOC_LOWPRIORITY_MSG} \cup {i + 4 : i \in Bits(msg)}

----------------------------------------------------------------------------
(* bsmp_lib.h: bsmp_command_ack_t; ps_modules.h: ps_state_t and the        *)
(* command interface.                                                      *)

Ok == 0
PS_is_Local == 1
PS_Locked == 4
DSP_Timeout == 5
DSP_Busy == 6
Resource_Busy == 7
Invalid_Command == 8
NoAnswer == 9

AckCodes == {Ok, PS_is_Local, PS_Locked, DSP_Timeout, DSP_Busy,
             Resource_Busy, Invalid_Command, NoAnswer}

Off == 0
Interlock == 1
SlowRef == 3
RmpWfm == 6
MigWfm == 7

Remote == 0
Local == 1

----------------------------------------------------------------------------
(* The memory shared by the cores, per power supply.  The three fields of  *)
(* the ps_status bit field live in one half word.                          *)

StatusFields == {"state", "openloop", "interface"}

Fields == StatusFields \cup
          {"unlocked", "setpoint", "scope_source", "scope_freq",
           "scope_duration", "scope_status", "wfmref", "sync_mode",
           "siggen", "siggen_enable", "dsp_module", "coeffs"}

\* The value of a field that comes from the packet.
FromInput == -1

\* The identifiers bsmp_init registers the functions under.
FuncIds == 0 .. 43

\* The parts of the skeleton:
\*   reset   where ulTimeout is cleared
\*   gate    the condition of the outermost if
\*   fallible TRUE if the input may be refused as Invalid_Command
\*   pre     what is written before the busy test
\*   busyIf  the test that answers Resource_Busy
\*   field, value   the payload written after the busy test ("none": none)
\*   all     TRUE if all power supplies get a payload
\*   toZero  TRUE if the message goes to id 0 and not to g_current_ps_id
\*   after   what is done once the C28 has acknowledged
CmdType ==
    [func : FuncIds, msg : Msgs, kind : {"low", "sync"},
     reset : {"first", "gated", "never"},
     gate : {"none", "offOrUnlocked", "unlocked"},
     fallible : BOOLEAN,
     pre : {"none", "itlk", "scope", "wfmref", "wfmref_sync", "sync",
            "coeffs"},
     busyIf : {"none", "playing", "siggen"},
     field : Fields \cup {"none"}, value : {FromInput} \cup 0 .. 8,
     all : BOOLEAN, toZero : BOOLEAN, alarm : BOOLEAN,
     after : {"none", "readPot", "writePot"}]

\* A function with an unconditional reset and no special part.
Plain(func, msg, field, value) ==
    [func |-> func, msg |-> msg, kind |-> "low", reset |-> "first",
     gate |-> "none", fallible |-> FALSE, pre |-> "none",
     busyIf |-> "none", field |-> field, value |-> value,
     all |-> FALSE, toZero |-> FALSE, alarm |-> FALSE, after |-> "none"]

bsmp_turn_on ==
    [Plain(0, Turn_On, "state", SlowRef) EXCEPT !.after = "readPot"]
bsmp_turn_off == Plain(1, Turn_Off, "state", Off)

\* ulTimeout = 0 comes before the gate in open_loop and after it in closed_loop.
bsmp_open_loop ==
    [Plain(2, Open_Loop, "openloop", 1)
     EXCEPT !.gate = "offOrUnlocked"]
bsmp_closed_loop ==
    [Plain(3, Close_Loop, "openloop", 0)
     EXCEPT !.gate = "offOrUnlocked", !.reset = "gated"]

bsmp_select_op_mode ==
    [Plain(4, Operating_Mode, "state", FromInput)
     EXCEPT !.pre = "sync"]

\* The ARM interlock registers are cleared before the busy test.
bsmp_reset_interlocks ==
    [Plain(5, Reset_Interlocks, "none", 0)
     EXCEPT !.pre = "itlk", !.alarm = TRUE]

bsmp_set_command_interface ==
    Plain(6, Set_Command_Interface, "interface",
          FromInput)

\* Neither function of the pair clears ulTimeout; the input is the password.
WithPassword(func, msg) ==
    [func |-> func, msg |-> msg, kind |-> "low", reset |-> "never",
     gate |-> "none", fallible |-> TRUE, pre |-> "none",
     busyIf |-> "none", field |-> "none", value |-> 0,
     all |-> FALSE, toZero |-> FALSE, alarm |-> FALSE, after |-> "none"]

bsmp_unlock_udc == WithPassword(8, Unlock_UDC)
bsmp_lock_udc == WithPassword(9, Lock_UDC)

bsmp_cfg_source_scope ==
    Plain(10, Cfg_Source_Scope, "scope_source", FromInput)
bsmp_cfg_freq_scope ==
    Plain(11, Cfg_Freq_Scope, "scope_freq", FromInput)
bsmp_cfg_duration_scope ==
    Plain(12, Cfg_Duration_Scope, "scope_duration",
          FromInput)

\* scope[0].buffer.status is written before the busy test (Buffering = 2,
\* Postmortem = 3), whichever power supply is addressed.
bsmp_enable_scope ==
    [Plain(13, Enable_Scope, "none", 2) EXCEPT !.pre = "scope"]
bsmp_disable_scope ==
    [Plain(14, Disable_Scope, "none", 3) EXCEPT !.pre = "scope"]

\* Not a low priority message: busy test, flag and poll use SYNC_PULSE; the
\* message code, which nobody sends, is not used.
bsmp_sync_pulse ==
    [Plain(15, 14, "none", 0) EXCEPT !.kind = "sync"]

bsmp_set_slowref ==
    [Plain(16, Set_SlowRef, "setpoint", FromInput)
     EXCEPT !.after = "writePot"]
bsmp_set_slowref_readback_mon ==
    Plain(18, Set_SlowRef, "setpoint", FromInput)
bsmp_set_slowref_readback_ref ==
    Plain(20, Set_SlowRef, "setpoint", FromInput)

bsmp_set_slowref_fbp ==
    [Plain(17, Set_SlowRef_All_PS, "setpoint", FromInput)
     EXCEPT !.all = TRUE, !.toZero = TRUE]
bsmp_set_slowref_fbp_readback_mon ==
    [bsmp_set_slowref_fbp EXCEPT !.func = 19]
bsmp_set_slowref_fbp_readback_ref ==
    [bsmp_set_slowref_fbp EXCEPT !.func = 21]

bsmp_reset_counters == Plain(22, Reset_Counters, "none", 0)

\* WFMREF is written before any test, and ulTimeout is not cleared.
bsmp_cfg_wfmref ==
    [Plain(23, Cfg_WfmRef, "none", FromInput)
     EXCEPT !.reset = "never", !.pre = "wfmref", !.busyIf = "playing"]
bsmp_select_wfmref ==
    [Plain(24, Update_WfmRef, "none", FromInput)
     EXCEPT !.reset = "never", !.pre = "wfmref_sync", !.busyIf = "playing"]
bsmp_reset_wfmref == Plain(26, Reset_WfmRef, "none", 0)

bsmp_cfg_siggen ==
    [Plain(27, Cfg_SigGen, "siggen", FromInput)
     EXCEPT !.busyIf = "siggen"]
bsmp_set_siggen == Plain(28, Set_SigGen, "siggen", FromInput)
bsmp_enable_siggen == Plain(29, Enable_SigGen, "none", 0)
bsmp_disable_siggen == Plain(30, Disable_SigGen, "none", 0)

\* The coefficients are in place before the busy test.
bsmp_set_dsp_coeffs ==
    [Plain(37, Set_DSP_Coeffs, "dsp_module", FromInput)
     EXCEPT !.gate = "unlocked", !.reset = "gated", !.fallible = TRUE,
            !.pre = "coeffs", !.toZero = TRUE]
bsmp_load_dsp_coeffs_eeprom ==
    [bsmp_set_dsp_coeffs
     EXCEPT !.func = 40, !.reset = "never"]

AllCommands ==
    {bsmp_turn_on, bsmp_turn_off, bsmp_open_loop, bsmp_closed_loop,
     bsmp_select_op_mode, bsmp_reset_interlocks, bsmp_set_command_interface,
     bsmp_unlock_udc, bsmp_lock_udc, bsmp_cfg_source_scope,
     bsmp_cfg_freq_scope, bsmp_cfg_duration_scope, bsmp_enable_scope,
     bsmp_disable_scope, bsmp_sync_pulse, bsmp_set_slowref,
     bsmp_set_slowref_readback_mon, bsmp_set_slowref_readback_ref,
     bsmp_set_slowref_fbp, bsmp_set_slowref_fbp_readback_mon,
     bsmp_set_slowref_fbp_readback_ref, bsmp_reset_counters,
     bsmp_cfg_wfmref, bsmp_select_wfmref, bsmp_reset_wfmref,
     bsmp_cfg_siggen, bsmp_set_siggen, bsmp_enable_siggen,
     bsmp_disable_siggen, bsmp_set_dsp_coeffs, bsmp_load_dsp_coeffs_eeprom}

\* The bits a function tests, sets and polls.
Reg(cmd) == IF cmd.kind = "sync" THEN {SYNC_PULSE}
            ELSE low_priority_msg_to_reg(cmd.msg)

=============================================================================
