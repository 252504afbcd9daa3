------------------------------ MODULE PsModels ------------------------------
(***************************************************************************)
(* The power supply models of ps_modules/: what each <model>.c wires up at *)
(* boot.  A model has                                                      *)
(*                                                                         *)
(*   - an ADCP table: the net signal of g_controller_mtoc that each of the *)
(*     eight analog channels is written to (adcp_channel_config);          *)
(*   - BSMP tables: the calls that create and redirect the variables of    *)
(*     the four servers (bsmp_init_server);                                *)
(*   - the interlock boards (IIB) on the CAN bus, in the order of their    *)
(*     CanAddress (init_iib), and where handle_can_data stores what each   *)
(*     of them sends.                                                      *)
(*                                                                         *)
(* The tables are data; SystemTask.tla and ParamBank.tla run them.  A      *)
(* model that calls no init_iib has no boards, and its pointer to          *)
(* handle_can_data stays null.                                             *)
(***************************************************************************)
EXTENDS Naturals, Sequences

NUM_MAX_PS_MODULES == 4

Servers == 0 .. NUM_MAX_PS_MODULES - 1

\* An analog channel with Enable = 0, or no net signal.
Unconnected == 99

AllOff == [c \in 0 .. 7 |-> Unconnected]

----------------------------------------------------------------------------
(* Where a BSMP variable takes its data from.                              *)

\* A member of g_ipc_ctom or g_ipc_mtoc of one power supply, or of neither.
Ctom(m, member) == <<"ctom", m, member>>
Mtoc(m, member) == <<"mtoc", m, member>>
Dummy == <<"dummy", 0, "dummy_u8">>

\* A net signal the ARM writes, and the k-th one a model takes from the C28.
Net(i) == <<"net", i, "mtoc">>
C28(k) == <<"c28", k, "ctom">>

\* A field of the board at a CAN address.
Iib(address, field) == <<"iib", address, field>>

\* The calls of bsmp_init_server, runs of calls for consecutive identifiers
\* together.
CallsFor(op, server, first, sources) ==
    <<[op |-> op, server |-> server, first |-> first, sources |-> sources]>>

CreateAll(server, first, sources) == CallsFor("create", server, first, sources)
ModifyAll(server, first, sources) == CallsFor("modify", server, first, sources)
InitServer(server) == CallsFor("init", server, 0, <<>>)

\* The variables 0 .. 30 that bsmp_init creates on every server.
CommonVars(server) ==
    <<Ctom(server, "ps_status"), Mtoc(server, "ps_setpoint"),
      Ctom(server, "ps_reference"), Ctom(0, "firmwares_version"),
      Ctom(0, "counter_set_slowref"), Ctom(0, "counter_sync_pulse")>>
    \o [k \in 1 .. 8 |-> Ctom(server,
            <<"enable", "type", "num_cycles", "n", "freq", "amplitude",
              "siggen.offset", "aux_param">>[k])]
    \o [k \in 1 .. 5 |-> Ctom(server,
            <<"wfmref_selected", "sync_mode", "freq_base", "gain",
              "wfmref.offset">>[k])]
    \o <<Mtoc(server, "wfmref_data_0.start"), Mtoc(server, "wfmref_data_0.end"),
         Ctom(server, "wfmref_data_0.idx"), Mtoc(server, "wfmref_data_1.start"),
         Mtoc(server, "wfmref_data_1.end"), Ctom(server, "wfmref_data_1.idx"),
         Ctom(server, "freq_sampling"), Ctom(server, "duration"),
         Ctom(server, "p_source"), Ctom(0, "period_sync_pulse"), Dummy, Dummy>>

\* The first identifier a model may use.
FirstModelVar == 31

\* Variables 31 and 32 of every model.
ModelInterlocks(m) == <<Ctom(m, "ps_soft_interlock"), Ctom(m, "ps_hard_interlock")>>

\* The variables of a second module show the state of the first one.
FollowModule0(server) ==
    ModifyAll(server, 0, <<Ctom(0, "ps_status"), Mtoc(0, "ps_setpoint"),
                           Ctom(0, "ps_reference")>>)

C28Signals(n) == [k \in 1 .. n |-> C28(k)]

----------------------------------------------------------------------------
(* The four kinds of boards: the pair of fields each message carries, the  *)
(* interlock message last, and the fields shown as BSMP variables.         *)

None == "none"

OsMessages ==
    <<<<"VdcLink", "DriverVoltage">>, <<"Iin", "Iout">>,
      <<"Driver1Current", "Driver2Current">>, <<"TempIGBT1", "TempIGBT2">>,
      <<"TempL", "TempHeatSink">>, <<"BoardTemperature", "RelativeHumidity">>,
      <<"InterlocksRegister", "AlarmsRegister">>>>

IsMessages ==
    <<<<"Vin", "DriverVoltage">>, <<"Iin", "DriverCurrent">>,
      <<"TempIGBT", None>>, <<"TempL", "TempHeatsink">>,
      <<"BoardTemperature", "RelativeHumidity">>,
      <<"InterlocksRegister", "AlarmsRegister">>>>

CmdMessages ==
    <<<<"VcapBank", "Vout">>, <<"AuxiliaryBoardCurrent", "IDBBoardCurrent">>,
      <<"ExternalBoardsVoltage", "GroundLeakage">>,
      <<"TempRectInductor", "TempRectHeatSink">>,
      <<"BoardTemperature", "RelativeHumidity">>,
      <<"InterlocksRegister", "AlarmsRegister">>>>

FapMessages ==
    <<<<"Vin", "Vout">>, <<"IoutA1", "IoutA2">>,
      <<"DriverVoltage", "GroundLeakage">>,
      <<"Driver1Current", "Driver2Current">>, <<"TempIGBT1", "TempIGBT2">>,
      <<"TempL", "TempHeatSink">>, <<"BoardTemperature", "RelativeHumidity">>,
      <<"InterlocksRegister", "AlarmsRegister">>>>

LastFields == <<"BoardTemperature", "RelativeHumidity", "InterlocksRegister",
          "AlarmsRegister">>

Fields(a, names) == [k \in 1 .. Len(names) |-> Iib(a, names[k])]

OsVars(a) == Fields(a, <<"VdcLink", "Iin", "Iout", "TempIGBT1", "TempIGBT2",
    "TempL", "TempHeatSink", "DriverVoltage", "Driver1Current",
    "Driver2Current">> \o LastFields)

IsVars(a) == Fields(a, <<"Iin", "Vin", "TempIGBT", "DriverVoltage",
    "DriverCurrent", "TempL", "TempHeatsink">> \o LastFields)

CmdVars(a) == Fields(a, <<"Vout", "VcapBank", "TempRectInductor",
    "TempRectHeatSink", "ExternalBoardsVoltage", "AuxiliaryBoardCurrent",
    "IDBBoardCurrent", "GroundLeakage">> \o LastFields)

FapFields == <<"Vin", "Vout", "IoutA1", "IoutA2", "TempIGBT1", "TempIGBT2",
    "DriverVoltage", "Driver1Current", "Driver2Current", "TempL",
    "TempHeatSink">>

FapVars(a) == Fields(a, FapFields \o LastFields)

(* A board: its messages in the order of the CAN identifiers, the          *)
(* interlock <<module, bit>> its handler sets, and the net signal the      *)
(* given field is copied to.                                               *)
Board(messages, module, bit, field, signal) ==
    [messages |-> messages, itlk |-> <<module, bit>>, copied |-> field,
     signal |-> signal]

NoCopy == None

\* Board a sends message v (from 0) with this identifier.
CanId(a, v) == 10 * a + v

----------------------------------------------------------------------------
(* FBP: four power supplies, no boards.                                    *)

fbp_adcp_channel_config ==
    [c \in 0 .. 7 |-> <<3, 1, 0, 6, 2, 7, 4, 5>>[c + 1]]

fbp_ps_vars(m) ==
    ModelInterlocks(m)
    \o <<C28(m), Net(4 + m), Net(m), Net(8 + m), C28(4 + m), Ctom(m, "ps_alarms")>>

OfEveryPs(member) == [k \in 1 .. NUM_MAX_PS_MODULES |-> Ctom(k - 1, member)]

fbp_shared_vars ==
    [k \in 1 .. 7 |-> Dummy]
    \o OfEveryPs("ps_status")
    \o [k \in 1 .. NUM_MAX_PS_MODULES |-> Mtoc(k - 1, "ps_setpoint")]
    \o OfEveryPs("ps_reference")
    \o OfEveryPs("ps_soft_interlock")
    \o OfEveryPs("ps_hard_interlock")
    \o [k \in 1 .. NUM_MAX_PS_MODULES |-> C28(k - 1)]
    \o OfEveryPs("ps_alarms")

fbp_bsmp_init_server ==
    InitServer(1) \o InitServer(2) \o InitServer(3)
    \o CreateAll(0, 31, fbp_ps_vars(0)) \o CreateAll(1, 31, fbp_ps_vars(1))
    \o CreateAll(2, 31, fbp_ps_vars(2)) \o CreateAll(3, 31, fbp_ps_vars(3))
    \o CreateAll(0, 39, fbp_shared_vars) \o CreateAll(1, 39, fbp_shared_vars)
    \o CreateAll(2, 39, fbp_shared_vars) \o CreateAll(3, 39, fbp_shared_vars)

----------------------------------------------------------------------------
(* FBP DC link: three modules that show the same supply, no boards.        *)

fbp_dclink_adcp_channel_config ==
    [AllOff EXCEPT ![0] = 0, ![1] = 1, ![2] = 3, ![3] = 2]

fbp_dclink_vars ==
    ModelInterlocks(0) \o <<C28(1), Net(0), Net(1), Net(2), Net(3), Net(4)>>

fbp_dclink_bsmp_init_server ==
    CreateAll(0, 31, fbp_dclink_vars)
    \o InitServer(1) \o FollowModule0(1) \o CreateAll(1, 31, fbp_dclink_vars)
    \o InitServer(2) \o FollowModule0(2) \o CreateAll(2, 31, fbp_dclink_vars)

----------------------------------------------------------------------------
(* FAC ACDC: an input stage board and a command board.                     *)

fac_acdc_adcp_channel_config == AllOff

fac_acdc_bsmp_init_server ==
    CreateAll(0, 31, ModelInterlocks(0) \o C28Signals(3) \o IsVars(1) \o CmdVars(2))

fac_acdc_IIB_IS_Itlk == 6
fac_acdc_IIB_Cmd_Itlk == 7

fac_acdc_boards_same_bit == \* mutant: both boards raise interlock 6
    <<Board(IsMessages, 0, fac_acdc_IIB_IS_Itlk, "Vin", 0),
      Board(CmdMessages, 0, fac_acdc_IIB_IS_Itlk, NoCopy, Unconnected)>>

fac_acdc_boards ==
    <<Board(IsMessages, 0, fac_acdc_IIB_IS_Itlk, "Vin", 0),
      Board(CmdMessages, 0, fac_acdc_IIB_Cmd_Itlk, NoCopy, Unconnected)>>

----------------------------------------------------------------------------
(* FAC DCDC, FAC DCDC EMA and FAP: one output stage board.                 *)

fac_dcdc_adcp_channel_config == [AllOff EXCEPT ![4] = 0]

fac_dcdc_bsmp_init_server ==
    CreateAll(0, 31, ModelInterlocks(0) \o C28Signals(5) \o <<Net(0)>> \o OsVars(1)
                     \o <<Ctom(0, "ps_alarms")>>)

fac_dcdc_IIB_Itlk == 3

fac_dcdc_boards == <<Board(OsMessages, 0, fac_dcdc_IIB_Itlk, NoCopy, Unconnected)>>

fac_dcdc_ema_adcp_channel_config == [AllOff EXCEPT ![0] = 0]

fac_dcdc_ema_bsmp_init_server ==
    CreateAll(0, 31, ModelInterlocks(0) \o C28Signals(3) \o <<Net(0)>> \o OsVars(1)
                     \o <<Ctom(0, "ps_alarms")>>)

fac_dcdc_ema_IIB_Itlk == 6

fac_dcdc_ema_boards == <<Board(OsMessages, 0, fac_dcdc_ema_IIB_Itlk, NoCopy, Unconnected)>>

fap_adcp_channel_config == [AllOff EXCEPT ![0] = 0, ![1] = 1]

fap_bsmp_init_server ==
    CreateAll(0, 31, ModelInterlocks(0) \o C28Signals(4) \o <<Net(0), Net(1)>>
                     \o <<C28(5), C28(6), C28(7)>>
                     \o Fields(1, FapFields \o <<"GroundLeakage">> \o LastFields)
                     \o <<Ctom(0, "ps_alarms")>>)

fap_IIB_Itlk == 8

fap_boards_on_adc == \* mutant: Vout is copied to a signal of the ADC
    <<Board(FapMessages, 0, fap_IIB_Itlk, "Vout", 1)>>

fap_boards == <<Board(FapMessages, 0, fap_IIB_Itlk, "Vout", 2)>>

----------------------------------------------------------------------------
(* FAC 2S ACDC and FAC 2P4S ACDC: input boards of modules A and B, then    *)
(* their command boards.                                                   *)

fac_2s_acdc_adcp_channel_config == AllOff

fac_2s_acdc_bsmp_init_server ==
    CreateAll(0, 31, ModelInterlocks(0) \o C28Signals(3) \o IsVars(1) \o CmdVars(3))
    \o InitServer(1) \o FollowModule0(1)
    \o CreateAll(1, 31, ModelInterlocks(1) \o C28Signals(3) \o IsVars(2) \o CmdVars(4))

fac_2s_acdc_IIB_IS_Itlk == 6
fac_2s_acdc_IIB_Cmd_Itlk == 7

fac_2s_acdc_boards ==
    <<Board(IsMessages, 0, fac_2s_acdc_IIB_IS_Itlk, "Vin", 0),
      Board(IsMessages, 1, fac_2s_acdc_IIB_IS_Itlk, "Vin", 1),
      Board(CmdMessages, 0, fac_2s_acdc_IIB_Cmd_Itlk, NoCopy, Unconnected),
      Board(CmdMessages, 1, fac_2s_acdc_IIB_Cmd_Itlk, NoCopy, Unconnected)>>

fac_2p4s_acdc_adcp_channel_config == AllOff

fac_2p4s_acdc_bsmp_init_server ==
    CreateAll(0, 31, ModelInterlocks(0) \o C28Signals(3) \o IsVars(1) \o CmdVars(3))
    \o InitServer(1) \o FollowModule0(1)
    \o CreateAll(1, 31, ModelInterlocks(1) \o C28Signals(3) \o IsVars(2) \o CmdVars(4))

fac_2p4s_acdc_IIB_IS_Itlk == 6
fac_2p4s_acdc_IIB_Cmd_Itlk == 7

fac_2p4s_acdc_boards ==
    <<Board(IsMessages, 0, fac_2p4s_acdc_IIB_IS_Itlk, "Vin", 0),
      Board(IsMessages, 1, fac_2p4s_acdc_IIB_IS_Itlk, "Vin", 1),
      Board(CmdMessages, 0, fac_2p4s_acdc_IIB_Cmd_Itlk, NoCopy, Unconnected),
      Board(CmdMessages, 1, fac_2p4s_acdc_IIB_Cmd_Itlk, NoCopy, Unconnected)>>

----------------------------------------------------------------------------
(* FAC 2S DCDC: two output boards.  FAC 2P4S DCDC: eight, two on a server. *)

fac_2s_dcdc_adcp_channel_config == AllOff

fac_2s_dcdc_bsmp_init_server ==
    CreateAll(0, 31, ModelInterlocks(0) \o C28Signals(7) \o OsVars(1) \o OsVars(2)
                     \o <<Ctom(0, "ps_alarms")>>)

fac_2s_dcdc_IIB_Mod_1_Itlk == 5

fac_2s_dcdc_boards ==
    <<Board(OsMessages, 0, fac_2s_dcdc_IIB_Mod_1_Itlk, NoCopy, Unconnected),
      Board(OsMessages, 0, fac_2s_dcdc_IIB_Mod_1_Itlk + 1, NoCopy, Unconnected)>>

fac_2p4s_dcdc_adcp_channel_config ==
    [c \in 0 .. 7 |-> <<0, 1, 3, 2, 4, 5, 6, 7>>[c + 1]]

fac_2p4s_dcdc_vars(server) ==
    ModelInterlocks(0) \o C28Signals(5) \o [k \in 1 .. 8 |-> Net(k - 1)]
    \o [k \in 1 .. 8 |-> C28(5 + k)]
    \o OsVars(2 * server + 1) \o OsVars(2 * server + 2) \o <<Ctom(0, "ps_alarms")>>

MirrorServer0(server) == ModifyAll(server, 0, CommonVars(0))

fac_2p4s_dcdc_bsmp_init_server ==
    InitServer(1) \o InitServer(2) \o InitServer(3)
    \o CreateAll(0, 31, fac_2p4s_dcdc_vars(0))
    \o MirrorServer0(1) \o CreateAll(1, 31, fac_2p4s_dcdc_vars(1))
    \o MirrorServer0(2) \o CreateAll(2, 31, fac_2p4s_dcdc_vars(2))
    \o MirrorServer0(3) \o CreateAll(3, 31, fac_2p4s_dcdc_vars(3))

fac_2p4s_dcdc_IIB_Mod_1_Itlk == 17

fac_2p4s_dcdc_boards ==
    [a \in 1 .. 8 |->
        Board(OsMessages, 0, fac_2p4s_dcdc_IIB_Mod_1_Itlk + a - 1, NoCopy, Unconnected)]

----------------------------------------------------------------------------
(* The IMAS variants have no boards.                                       *)

fac_2p_acdc_imas_adcp_channel_config == AllOff

fac_2p_acdc_imas_bsmp_init_server ==
    CreateAll(0, 31, ModelInterlocks(0) \o C28Signals(3))
    \o InitServer(1) \o FollowModule0(1)
    \o CreateAll(1, 31, ModelInterlocks(1) \o C28Signals(3))

fac_2p_dcdc_imas_adcp_channel_config == [AllOff EXCEPT ![1] = 0, ![2] = 1]

fac_2p_dcdc_imas_bsmp_init_server ==
    CreateAll(0, 31, ModelInterlocks(0) \o C28Signals(2) \o <<Net(0), Net(1)>>
                     \o [k \in 1 .. 6 |-> C28(2 + k)])

----------------------------------------------------------------------------
(* FAP 4P and FAP 2P2S: four boards; only the first one's ground leakage   *)
(* is a variable.                                                          *)

fap_4p_adcp_channel_config == [c \in 0 .. 7 |-> c]

fap_4p_bsmp_init_server ==
    CreateAll(0, 31, ModelInterlocks(0) \o C28Signals(4)
                     \o [k \in 1 .. 12 |-> Net(k - 1)] \o [k \in 1 .. 9 |-> C28(4 + k)]
                     \o <<Iib(1, "GroundLeakage")>>
                     \o FapVars(1) \o FapVars(2) \o FapVars(3) \o FapVars(4)
                     \o <<Ctom(0, "ps_alarms")>>)

fap_4p_IIB_Mod_1_Itlk == 26

fap_4p_boards ==
    [a \in 1 .. 4 |->
        Board(FapMessages, 0, fap_4p_IIB_Mod_1_Itlk + a - 1, "Vin", 8 + a - 1)]

fap_2p2s_adcp_channel_config == [c \in 0 .. 7 |-> c]

fap_2p2s_bsmp_init_server ==
    CreateAll(0, 31, ModelInterlocks(0) \o C28Signals(5)
                     \o [k \in 1 .. 8 |-> Net(k - 1)] \o [k \in 1 .. 4 |-> C28(5 + k)]
                     \o [k \in 1 .. 4 |-> Net(7 + k)] \o [k \in 1 .. 10 |-> C28(9 + k)]
                     \o <<Iib(1, "GroundLeakage")>>
                     \o FapVars(1) \o FapVars(2) \o FapVars(3) \o FapVars(4)
                     \o <<Ctom(0, "ps_alarms")>>)

fap_2p2s_IIB_Mod_1_Itlk == 25

fap_2p2s_boards ==
    [a \in 1 .. 4 |->
        Board(FapMessages, 0, fap_2p2s_IIB_Mod_1_Itlk + a - 1, "Vin", 8 + a - 1)]

----------------------------------------------------------------------------
(* A waveform buffer and a scope buffer, as <<first float, floats>> in the *)
(* memory of the waveforms and of the samples; NoBuffer is a null pointer. *)

NoBuffer == <<0, 0>>

Block == 256                       \* floats in a block of 1024 bytes
SIZE_WFMREF == 4096
SIZE_WFMREF_FBP == 1024
SIZE_BUF_SAMPLES_CTOM == 4096

Nothing == [s \in Servers |-> NoBuffer]

\* init_wfmref of server 0 only, of all four FBP supplies, of none.
OneWfmref == [Nothing EXCEPT ![0] = <<0, SIZE_WFMREF>>]
FbpWfmref == [s \in Servers |-> <<2 * SIZE_WFMREF_FBP * s, SIZE_WFMREF_FBP>>]

ScopeParts(n) ==
    [s \in Servers |-> IF s < n
        THEN <<s * (SIZE_BUF_SAMPLES_CTOM \div n), SIZE_BUF_SAMPLES_CTOM \div n>>
        ELSE NoBuffer]

(* What <model>_system_config sets up, by model; the others (FAP_IMAS,     *)
(* Uninitialized) set nothing up.                                          *)
Config(adcp, server, boards, wfmref, scopes) ==
    [adcp |-> adcp, server |-> server, boards |-> boards, wfmref |-> wfmref,
     scope |-> ScopeParts(scopes)]

fbp_system_config == Config(fbp_adcp_channel_config, fbp_bsmp_init_server, <<>>,
    FbpWfmref, 4)
fbp_dclink_system_config == Config(fbp_dclink_adcp_channel_config,
    fbp_dclink_bsmp_init_server, <<>>, Nothing, 0)
fac_acdc_system_config == Config(fac_acdc_adcp_channel_config,
    fac_acdc_bsmp_init_server, fac_acdc_boards, Nothing, 1)
fac_dcdc_system_config == Config(fac_dcdc_adcp_channel_config,
    fac_dcdc_bsmp_init_server, fac_dcdc_boards, OneWfmref, 1)
fac_dcdc_ema_system_config == Config(fac_dcdc_ema_adcp_channel_config,
    fac_dcdc_ema_bsmp_init_server, fac_dcdc_ema_boards, OneWfmref, 1)
fap_system_config == Config(fap_adcp_channel_config, fap_bsmp_init_server,
    fap_boards, OneWfmref, 1)
fac_2s_acdc_system_config == Config(fac_2s_acdc_adcp_channel_config,
    fac_2s_acdc_bsmp_init_server, fac_2s_acdc_boards, Nothing, 2)
fac_2p4s_acdc_system_config == Config(fac_2p4s_acdc_adcp_channel_config,
    fac_2p4s_acdc_bsmp_init_server, fac_2p4s_acdc_boards, Nothing, 2)
fac_2s_dcdc_system_config == Config(fac_2s_dcdc_adcp_channel_config,
    fac_2s_dcdc_bsmp_init_server, fac_2s_dcdc_boards, OneWfmref, 1)
fac_2p4s_dcdc_system_config == Config(fac_2p4s_dcdc_adcp_channel_config,
    fac_2p4s_dcdc_bsmp_init_server, fac_2p4s_dcdc_boards, OneWfmref, 1)
fac_2p_acdc_imas_system_config == Config(fac_2p_acdc_imas_adcp_channel_config,
    fac_2p_acdc_imas_bsmp_init_server, <<>>, Nothing, 2)
fac_2p_dcdc_imas_system_config == Config(fac_2p_dcdc_imas_adcp_channel_config,
    fac_2p_dcdc_imas_bsmp_init_server, <<>>, OneWfmref, 1)
fap_4p_system_config == Config(fap_4p_adcp_channel_config,
    fap_4p_bsmp_init_server, fap_4p_boards, OneWfmref, 1)
fap_2p2s_system_config == Config(fap_2p2s_adcp_channel_config,
    fap_2p2s_bsmp_init_server, fap_2p2s_boards, OneWfmref, 1)

\* The switch of main().
SystemConfig == [
    FBP |-> fbp_system_config, FBP_DCLink |-> fbp_dclink_system_config,
    FAC_ACDC |-> fac_acdc_system_config, FAC_DCDC |-> fac_dcdc_system_config,
    FAC_DCDC_EMA |-> fac_dcdc_ema_system_config, FAP |-> fap_system_config,
    FAC_2S_ACDC |-> fac_2s_acdc_system_config,
    FAC_2P4S_ACDC |-> fac_2p4s_acdc_system_config,
    FAC_2S_DCDC |-> fac_2s_dcdc_system_config,
    FAC_2P4S_DCDC |-> fac_2p4s_dcdc_system_config,
    FAC_2P_ACDC_IMAS |-> fac_2p_acdc_imas_system_config,
    FAC_2P_DCDC_IMAS |-> fac_2p_dcdc_imas_system_config,
    FAP_4P |-> fap_4p_system_config, FAP_2P2S |-> fap_2p2s_system_config,
    Uninitialized |-> Config(AllOff, <<>>, <<>>, Nothing, 0)]

AllModels == DOMAIN SystemConfig
=============================================================================
