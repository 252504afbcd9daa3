--------------------------- MODULE PsModelsProofs ---------------------------
(***************************************************************************)
(* What the BSMP tables of every power supply model have in common: each   *)
(* of their variables takes its data from the IPC structures, from a net   *)
(* signal, or from a field that a board of that model sends.               *)
(***************************************************************************)
EXTENDS PsModels, SequenceTheorems, TLAPS

\* The fields the messages of a board carry.
FieldNames(messages) == {messages[k][h] : k \in DOMAIN messages, h \in {1, 2}}

\* The sources that are words of the boards or signals, and all the others.
BoardSources(boards) ==
    {Net(i) : i \in 0 .. 11}
    \cup UNION {{Iib(a, f) : f \in FieldNames(boards[a].messages)} : a \in DOMAIN boards}

Members == {"ps_status", "ps_setpoint", "ps_reference", "firmwares_version",
    "counter_set_slowref", "counter_sync_pulse", "enable", "type", "num_cycles", "n",
    "freq", "amplitude", "siggen.offset", "aux_param", "wfmref_selected", "sync_mode",
    "freq_base", "gain", "wfmref.offset", "wfmref_data_0.start", "wfmref_data_0.end",
    "wfmref_data_0.idx", "wfmref_data_1.start", "wfmref_data_1.end", "wfmref_data_1.idx",
    "freq_sampling", "duration", "p_source", "period_sync_pulse", "ps_soft_interlock",
    "ps_hard_interlock", "ps_alarms", "dummy_u8", "ctom"}

OtherSources == {"ctom", "mtoc", "dummy", "c28"} \X Nat \X Members

\* The calls of bsmp_init_server for variables with these sources.
CallsWith(S) == [op : {"create", "modify", "init"}, server : Nat, first : Nat, sources : Seq(S)]

\* Every variable of a board shows a field its messages fill.
SourcesWith(boards) == BoardSources(boards) \cup OtherSources

Sourced(cfg) == cfg.server \in Seq(CallsWith(SourcesWith(cfg.boards)))

LEMMA CallsTyped ==
    ASSUME NEW S, NEW s \in Nat, NEW first \in Nat, NEW sources \in Seq(S)
    PROVE  /\ CreateAll(s, first, sources) \in Seq(CallsWith(S))
           /\ ModifyAll(s, first, sources) \in Seq(CallsWith(S))
           /\ InitServer(s) \in Seq(CallsWith(S))
BY DEF CreateAll, ModifyAll, InitServer, CallsFor, CallsWith

LEMMA OthersTyped ==
    ASSUME NEW m \in Nat, NEW n \in Nat, NEW name \in Members
    PROVE  /\ Ctom(m, name) \in OtherSources /\ Mtoc(m, name) \in OtherSources
           /\ C28(m) \in OtherSources /\ Dummy \in OtherSources
           /\ C28Signals(n) \in Seq(OtherSources)
           /\ ModelInterlocks(m) \in Seq(OtherSources)
<1>1. C28Signals(n) \in [1 .. n -> OtherSources]
  BY DEF C28Signals, C28, OtherSources, Members
<1>2. C28Signals(n) \in Seq(OtherSources)
  BY <1>1, SeqDef
<1> QED BY <1>2 DEF Ctom, Mtoc, C28, Dummy, ModelInterlocks, OtherSources, Members

LEMMA CommonTyped ==
    ASSUME NEW s \in Nat
    PROVE  CommonVars(s) \in Seq(OtherSources)
<1> DEFINE O == OtherSources
           signal == <<"enable", "type", "num_cycles", "n", "freq", "amplitude",
                       "siggen.offset", "aux_param">>
           wave == <<"wfmref_selected", "sync_mode", "freq_base", "gain", "wfmref.offset">>
<1>0. \A m \in Nat, name \in Members : Ctom(m, name) \in O /\ Mtoc(m, name) \in O
  BY OthersTyped
<1>1. \A k \in 1 .. 8 : signal[k] \in Members
  BY DEF Members
<1>2. \A k \in 1 .. 5 : wave[k] \in Members
  BY DEF Members
<1> HIDE DEF O, signal, wave
<1>3. [k \in 1 .. 8 |-> Ctom(s, signal[k])] \in Seq(O)
  <2>1. [k \in 1 .. 8 |-> Ctom(s, signal[k])] \in [1 .. 8 -> O]
    BY <1>0, <1>1
  <2> QED BY <2>1, SeqDef
<1>4. [k \in 1 .. 5 |-> Ctom(s, wave[k])] \in Seq(O)
  <2>1. [k \in 1 .. 5 |-> Ctom(s, wave[k])] \in [1 .. 5 -> O]
    BY <1>0, <1>2
  <2> QED BY <2>1, SeqDef
<1>5. <<Ctom(s, "ps_status"), Mtoc(s, "ps_setpoint"),
        Ctom(s, "ps_reference"), Ctom(0, "firmwares_version"),
        Ctom(0, "counter_set_slowref"), Ctom(0, "counter_sync_pulse")>> \in Seq(O)
  BY <1>0 DEF Members
<1>6. Dummy \in O
  BY OthersTyped DEF O, Members
<1>7. <<Mtoc(s, "wfmref_data_0.start"), Mtoc(s, "wfmref_data_0.end"),
         Ctom(s, "wfmref_data_0.idx"), Mtoc(s, "wfmref_data_1.start"),
         Mtoc(s, "wfmref_data_1.end"), Ctom(s, "wfmref_data_1.idx"),
         Ctom(s, "freq_sampling"), Ctom(s, "duration"),
         Ctom(s, "p_source"), Ctom(0, "period_sync_pulse"), Dummy, Dummy>> \in Seq(O)
  BY <1>0, <1>6 DEF Members
<1>8. CommonVars(s) \in Seq(O)
  BY <1>3, <1>4, <1>5, <1>7 DEF CommonVars, signal, wave
<1> QED BY <1>8 DEF O

\* The fields shown are fields of the messages of that kind of board.
LEMMA FieldsTyped ==
    ASSUME NEW a, NEW F, NEW names \in Seq(F)
    PROVE  Fields(a, names) \in Seq({Iib(a, f) : f \in F})
<1>1. \A k \in 1 .. Len(names) : names[k] \in F
  OBVIOUS
<1>2. Fields(a, names) \in [1 .. Len(names) -> {Iib(a, f) : f \in F}]
  BY <1>1 DEF Fields
<1> QED BY <1>2, SeqDef

LEMMA OsNames ==
    <<"VdcLink", "Iin", "Iout", "TempIGBT1", "TempIGBT2",
      "TempL", "TempHeatSink", "DriverVoltage", "Driver1Current",
      "Driver2Current">> \o LastFields \in Seq(FieldNames(OsMessages))
<1>1. /\ OsMessages[1] = <<"VdcLink", "DriverVoltage">> /\ OsMessages[2] = <<"Iin", "Iout">>
      /\ OsMessages[3] = <<"Driver1Current", "Driver2Current">>
      /\ OsMessages[4] = <<"TempIGBT1", "TempIGBT2">>
      /\ OsMessages[5] = <<"TempL", "TempHeatSink">>
      /\ OsMessages[6] = <<"BoardTemperature", "RelativeHumidity">>
      /\ OsMessages[7] = <<"InterlocksRegister", "AlarmsRegister">>
      /\ DOMAIN OsMessages = 1 .. 7
  BY DEF OsMessages
<1>2. \A k \in 1 .. 7 : {OsMessages[k][1], OsMessages[k][2]} \subseteq FieldNames(OsMessages)
  BY <1>1 DEF FieldNames
<1>3. {"VdcLink", "Iin", "Iout", "TempIGBT1", "TempIGBT2", "TempL", "TempHeatSink",
       "DriverVoltage", "Driver1Current", "Driver2Current", "BoardTemperature",
       "RelativeHumidity", "InterlocksRegister", "AlarmsRegister"} \subseteq FieldNames(OsMessages)
  BY <1>1, <1>2
<1> HIDE DEF FieldNames
<1> QED BY <1>3 DEF LastFields

LEMMA IsNames ==
    <<"Iin", "Vin", "TempIGBT", "DriverVoltage",
      "DriverCurrent", "TempL", "TempHeatsink">> \o LastFields \in Seq(FieldNames(IsMessages))
<1>1. /\ IsMessages[1] = <<"Vin", "DriverVoltage">>
      /\ IsMessages[2] = <<"Iin", "DriverCurrent">>
      /\ IsMessages[3] = <<"TempIGBT", "none">>
      /\ IsMessages[4] = <<"TempL", "TempHeatsink">>
      /\ IsMessages[5] = <<"BoardTemperature", "RelativeHumidity">>
      /\ IsMessages[6] = <<"InterlocksRegister", "AlarmsRegister">>
      /\ DOMAIN IsMessages = 1 .. 6
  BY DEF IsMessages, None
<1>2. \A k \in 1 .. 6 : {IsMessages[k][1], IsMessages[k][2]} \subseteq FieldNames(IsMessages)
  BY <1>1 DEF FieldNames
<1>3. {"Vin", "DriverVoltage", "Iin", "DriverCurrent", "TempIGBT", "none",
       "TempL", "TempHeatsink", "BoardTemperature", "RelativeHumidity",
       "InterlocksRegister", "AlarmsRegister"}
          \subseteq FieldNames(IsMessages)
  BY <1>1, <1>2
<1> HIDE DEF FieldNames
<1> QED BY <1>3 DEF LastFields

LEMMA CmdNames ==
    <<"Vout", "VcapBank", "TempRectInductor",
      "TempRectHeatSink", "ExternalBoardsVoltage", "AuxiliaryBoardCurrent",
      "IDBBoardCurrent", "GroundLeakage">> \o LastFields \in Seq(FieldNames(CmdMessages))
<1>1. /\ CmdMessages[1] = <<"VcapBank", "Vout">>
      /\ CmdMessages[2] = <<"AuxiliaryBoardCurrent", "IDBBoardCurrent">>
      /\ CmdMessages[3] = <<"ExternalBoardsVoltage", "GroundLeakage">>
      /\ CmdMessages[4] = <<"TempRectInductor", "TempRectHeatSink">>
      /\ CmdMessages[5] = <<"BoardTemperature", "RelativeHumidity">>
      /\ CmdMessages[6] = <<"InterlocksRegister", "AlarmsRegister">>
      /\ DOMAIN CmdMessages = 1 .. 6
  BY DEF CmdMessages
<1>2. \A k \in 1 .. 6 : {CmdMessages[k][1], CmdMessages[k][2]} \subseteq FieldNames(CmdMessages)
  BY <1>1 DEF FieldNames
<1>3. {"VcapBank", "Vout", "AuxiliaryBoardCurrent", "IDBBoardCurrent",
       "ExternalBoardsVoltage", "GroundLeakage", "TempRectInductor",
       "TempRectHeatSink", "BoardTemperature", "RelativeHumidity",
       "InterlocksRegister", "AlarmsRegister"}
          \subseteq FieldNames(CmdMessages)
  BY <1>1, <1>2
<1> HIDE DEF FieldNames
<1> QED BY <1>3 DEF LastFields

LEMMA FapNames ==
    /\ FapFields \o LastFields \in Seq(FieldNames(FapMessages))
    /\ FapFields \o <<"GroundLeakage">> \o LastFields \in Seq(FieldNames(FapMessages))
    /\ "GroundLeakage" \in FieldNames(FapMessages)
<1>1. /\ FapMessages[1] = <<"Vin", "Vout">>
      /\ FapMessages[2] = <<"IoutA1", "IoutA2">>
      /\ FapMessages[3] = <<"DriverVoltage", "GroundLeakage">>
      /\ FapMessages[4] = <<"Driver1Current", "Driver2Current">>
      /\ FapMessages[5] = <<"TempIGBT1", "TempIGBT2">>
      /\ FapMessages[6] = <<"TempL", "TempHeatSink">>
      /\ FapMessages[7] = <<"BoardTemperature", "RelativeHumidity">>
      /\ FapMessages[8] = <<"InterlocksRegister", "AlarmsRegister">>
      /\ DOMAIN FapMessages = 1 .. 8
  BY DEF FapMessages
<1>2. \A k \in 1 .. 8 : {FapMessages[k][1], FapMessages[k][2]} \subseteq FieldNames(FapMessages)
  BY <1>1 DEF FieldNames
<1>3. {"Vin", "Vout", "IoutA1", "IoutA2", "DriverVoltage", "GroundLeakage",
       "Driver1Current", "Driver2Current", "TempIGBT1", "TempIGBT2", "TempL",
       "TempHeatSink", "BoardTemperature", "RelativeHumidity",
       "InterlocksRegister", "AlarmsRegister"}
          \subseteq FieldNames(FapMessages)
  BY <1>1, <1>2
<1> HIDE DEF FieldNames
<1> QED BY <1>3 DEF LastFields, FapFields

\* The variables of a board of each kind.
LEMMA BoardVarsTyped ==
    ASSUME NEW a
    PROVE  /\ OsVars(a) \in Seq({Iib(a, f) : f \in FieldNames(OsMessages)})
           /\ IsVars(a) \in Seq({Iib(a, f) : f \in FieldNames(IsMessages)})
           /\ CmdVars(a) \in Seq({Iib(a, f) : f \in FieldNames(CmdMessages)})
           /\ FapVars(a) \in Seq({Iib(a, f) : f \in FieldNames(FapMessages)})
           /\ Fields(a, FapFields \o <<"GroundLeakage">> \o LastFields)
                 \in Seq({Iib(a, f) : f \in FieldNames(FapMessages)})
           /\ Iib(a, "GroundLeakage") \in {Iib(a, f) : f \in FieldNames(FapMessages)}
<1> HIDE DEF Iib, FieldNames
<1> QED BY FieldsTyped, OsNames, IsNames, CmdNames, FapNames DEF OsVars, IsVars, CmdVars, FapVars

LEMMA WiderSeq ==
    ASSUME NEW A, NEW S, A \subseteq S, NEW s \in Seq(A)
    PROVE  s \in Seq(S)
<1>1. s \in [1 .. Len(s) -> S] /\ Len(s) \in Nat
  OBVIOUS
<1> QED BY <1>1, SeqDef

\* What a model's tables are put together from.
LEMMA Ingredients ==
    ASSUME NEW boards
    PROVE  /\ \A m \in Nat : /\ ModelInterlocks(m) \in Seq(SourcesWith(boards))
                             /\ C28Signals(m) \in Seq(SourcesWith(boards))
                             /\ CommonVars(m) \in Seq(SourcesWith(boards))
                             /\ C28(m) \in SourcesWith(boards)
                             /\ \A name \in Members : /\ Ctom(m, name) \in SourcesWith(boards)
                                                      /\ Mtoc(m, name) \in SourcesWith(boards)
           /\ Dummy \in SourcesWith(boards)
           /\ \A i \in 0 .. 11 : Net(i) \in SourcesWith(boards)
<1> DEFINE S == SourcesWith(boards)
<1>1. OtherSources \subseteq S
  BY DEF SourcesWith
<1>2. \A i \in 0 .. 11 : Net(i) \in S
  BY DEF SourcesWith, BoardSources
<1>3. "ps_status" \in Members /\ 0 \in Nat
  BY DEF Members
<1> HIDE DEF S
<1>4. Dummy \in S
  BY <1>1, <1>3, OthersTyped
<1>5. ASSUME NEW m \in Nat
      PROVE  /\ ModelInterlocks(m) \in Seq(S) /\ C28Signals(m) \in Seq(S)
             /\ CommonVars(m) \in Seq(S) /\ C28(m) \in S
             /\ \A name \in Members : Ctom(m, name) \in S /\ Mtoc(m, name) \in S
  <2>1. /\ ModelInterlocks(m) \in Seq(OtherSources) /\ C28Signals(m) \in Seq(OtherSources)
        /\ CommonVars(m) \in Seq(OtherSources) /\ C28(m) \in OtherSources
    BY <1>3, OthersTyped, CommonTyped
  <2>2. \A name \in Members : Ctom(m, name) \in OtherSources /\ Mtoc(m, name) \in OtherSources
    BY OthersTyped
  <2>3. \A q \in Seq(OtherSources) : q \in Seq(S)
    BY <1>1, WiderSeq
  <2> QED BY <1>1, <2>1, <2>2, <2>3
<1> QED BY <1>2, <1>4, <1>5 DEF S

LEMMA IngredientsOfBoards ==
    ASSUME NEW boards, NEW a \in DOMAIN boards
    PROVE  /\ boards[a].messages = OsMessages => OsVars(a) \in Seq(SourcesWith(boards))
           /\ boards[a].messages = IsMessages => IsVars(a) \in Seq(SourcesWith(boards))
           /\ boards[a].messages = CmdMessages => CmdVars(a) \in Seq(SourcesWith(boards))
           /\ boards[a].messages = FapMessages =>
                 /\ FapVars(a) \in Seq(SourcesWith(boards))
                 /\ Iib(a, "GroundLeakage") \in SourcesWith(boards)
                 /\ Fields(a, FapFields \o <<"GroundLeakage">> \o LastFields)
                       \in Seq(SourcesWith(boards))
<1> DEFINE S == SourcesWith(boards)
           B == {Iib(a, f) : f \in FieldNames(boards[a].messages)}
<1>1. B \subseteq S
  BY DEF SourcesWith, BoardSources
<1>0. ASSUME NEW q \in Seq(B) PROVE q \in Seq(S)
  BY <1>1, WiderSeq
<1> HIDE DEF S
<1>2. boards[a].messages = OsMessages => OsVars(a) \in Seq(S)
  BY <1>0, <1>1, BoardVarsTyped
<1>3. boards[a].messages = IsMessages => IsVars(a) \in Seq(S)
  BY <1>0, <1>1, BoardVarsTyped
<1>4. boards[a].messages = CmdMessages => CmdVars(a) \in Seq(S)
  BY <1>0, <1>1, BoardVarsTyped
<1>5. boards[a].messages = FapMessages =>
          /\ FapVars(a) \in Seq(S) /\ Iib(a, "GroundLeakage") \in S
          /\ Fields(a, FapFields \o <<"GroundLeakage">> \o LastFields) \in Seq(S)
  BY <1>0, <1>1, BoardVarsTyped
<1> QED BY <1>2, <1>3, <1>4, <1>5 DEF S

\* A redirection of the first three variables, or of all common ones.
LEMMA RedirectsTyped ==
    ASSUME NEW boards, NEW s \in Nat
    PROVE  /\ FollowModule0(s) \in Seq(CallsWith(SourcesWith(boards)))
           /\ MirrorServer0(s) \in Seq(CallsWith(SourcesWith(boards)))
           /\ InitServer(s) \in Seq(CallsWith(SourcesWith(boards)))
<1>1. {"ps_status", "ps_setpoint", "ps_reference"} \subseteq Members
  BY DEF Members
<1>2. <<Ctom(0, "ps_status"), Mtoc(0, "ps_setpoint"), Ctom(0, "ps_reference")>>
          \in Seq(SourcesWith(boards))
  BY <1>1, Ingredients
<1> QED BY <1>2, Ingredients, CallsTyped DEF FollowModule0, MirrorServer0

LEMMA FbpSourced == Sourced(fbp_system_config) /\ Sourced(fbp_dclink_system_config)
<1> DEFINE S == SourcesWith(<<>>)
<1>0. {"ps_status", "ps_setpoint", "ps_reference", "ps_soft_interlock", "ps_hard_interlock",
       "ps_alarms"} \subseteq Members
  BY DEF Members
<1> HIDE DEF S
<1>1. /\ \A m \in Nat : /\ ModelInterlocks(m) \in Seq(S) /\ C28(m) \in S
                        /\ \A name \in Members : Ctom(m, name) \in S /\ Mtoc(m, name) \in S
      /\ Dummy \in S
      /\ \A i \in 0 .. 11 : Net(i) \in S
  BY Zenon, Ingredients DEF S
<1>2. /\ \A s, first \in Nat, q \in Seq(S) : CreateAll(s, first, q) \in Seq(CallsWith(S))
      /\ \A s \in Nat : /\ InitServer(s) \in Seq(CallsWith(S))
                        /\ FollowModule0(s) \in Seq(CallsWith(S))
  BY CallsTyped, RedirectsTyped DEF S
<1>3. ASSUME NEW m \in 0 .. 3 PROVE fbp_ps_vars(m) \in Seq(S)
  <2>1. <<C28(m), Net(4 + m), Net(m), Net(8 + m), C28(4 + m), Ctom(m, "ps_alarms")>> \in Seq(S)
    <3>0. m \in Nat /\ 4 + m \in Nat /\ {m, 4 + m, 8 + m} \subseteq 0 .. 11
      OBVIOUS
    <3>1. C28(m) \in S /\ C28(4 + m) \in S /\ Net(4 + m) \in S /\ Net(m) \in S /\ Net(8 + m) \in S
      BY <1>1, <3>0
    <3>2. Ctom(m, "ps_alarms") \in S
      BY <1>0, <1>1, <3>0
    <3> QED BY <3>1, <3>2
  <2>2. ModelInterlocks(m) \in Seq(S)
    <3>1. m \in Nat
      OBVIOUS
    <3> QED BY <1>1, <3>1
  <2> QED BY <2>1, <2>2 DEF fbp_ps_vars
<1>4. \A name \in Members : OfEveryPs(name) \in Seq(S)
  <2>1. \A name \in Members : OfEveryPs(name) \in [1 .. 4 -> S]
    BY <1>1 DEF OfEveryPs, NUM_MAX_PS_MODULES
  <2> QED BY <2>1, SeqDef
<1>5. fbp_shared_vars \in Seq(S)
  <2>1. [k \in 1 .. 7 |-> Dummy] \in [1 .. 7 -> S]
    BY <1>1
  <2>2. [k \in 1 .. NUM_MAX_PS_MODULES |-> Mtoc(k - 1, "ps_setpoint")] \in [1 .. 4 -> S]
    BY <1>0, <1>1 DEF NUM_MAX_PS_MODULES
  <2>3. [k \in 1 .. NUM_MAX_PS_MODULES |-> C28(k - 1)] \in [1 .. 4 -> S]
    BY <1>1 DEF NUM_MAX_PS_MODULES
  <2>4. /\ [k \in 1 .. 7 |-> Dummy] \in Seq(S)
        /\ [k \in 1 .. NUM_MAX_PS_MODULES |-> Mtoc(k - 1, "ps_setpoint")] \in Seq(S)
        /\ [k \in 1 .. NUM_MAX_PS_MODULES |-> C28(k - 1)] \in Seq(S)
    <3>1. \A n \in Nat : \A f \in [1 .. n -> S] : f \in Seq(S)
      BY SeqDef
    <3>2. 4 \in Nat /\ 7 \in Nat
      OBVIOUS
    <3> QED BY <2>1, <2>2, <2>3, <3>1, <3>2
  <2>5. /\ OfEveryPs("ps_status") \in Seq(S) /\ OfEveryPs("ps_reference") \in Seq(S)
        /\ OfEveryPs("ps_soft_interlock") \in Seq(S)
        /\ OfEveryPs("ps_hard_interlock") \in Seq(S) /\ OfEveryPs("ps_alarms") \in Seq(S)
    BY <1>0, <1>4
  <2> QED BY <2>4, <2>5 DEF fbp_shared_vars
<1>6. fbp_bsmp_init_server \in Seq(CallsWith(S))
  <2>1. /\ CreateAll(0, 31, fbp_ps_vars(0)) \in Seq(CallsWith(S))
        /\ CreateAll(1, 31, fbp_ps_vars(1)) \in Seq(CallsWith(S))
        /\ CreateAll(2, 31, fbp_ps_vars(2)) \in Seq(CallsWith(S))
        /\ CreateAll(3, 31, fbp_ps_vars(3)) \in Seq(CallsWith(S))
    <3>1. \A m \in 0 .. 3 : fbp_ps_vars(m) \in Seq(S)
      BY <1>3
    <3>2. /\ fbp_ps_vars(0) \in Seq(S) /\ fbp_ps_vars(1) \in Seq(S)
          /\ fbp_ps_vars(2) \in Seq(S) /\ fbp_ps_vars(3) \in Seq(S)
      BY <3>1
    <3> QED BY <1>2, <3>2
  <2>2. \A s \in Nat : CreateAll(s, 39, fbp_shared_vars) \in Seq(CallsWith(S))
    BY <1>2, <1>5
  <2>3. InitServer(1) \in Seq(CallsWith(S)) /\ InitServer(2) \in Seq(CallsWith(S))
        /\ InitServer(3) \in Seq(CallsWith(S))
    BY <1>2
  <2> QED BY <2>1, <2>2, <2>3 DEF fbp_bsmp_init_server
<1>7. fbp_dclink_vars \in Seq(S)
  <2>1. C28(1) \in S /\ ModelInterlocks(0) \in Seq(S)
    BY <1>1
  <2>2. Net(0) \in S /\ Net(1) \in S /\ Net(2) \in S /\ Net(3) \in S /\ Net(4) \in S
    BY <1>1
  <2>3. <<C28(1), Net(0), Net(1), Net(2), Net(3), Net(4)>> \in Seq(S)
    BY <2>1, <2>2
  <2> QED BY <2>1, <2>3 DEF fbp_dclink_vars
<1>8. fbp_dclink_bsmp_init_server \in Seq(CallsWith(S))
  <2>1. \A s \in 0 .. 2 : /\ CreateAll(s, 31, fbp_dclink_vars) \in Seq(CallsWith(S))
                         /\ InitServer(s) \in Seq(CallsWith(S))
                         /\ FollowModule0(s) \in Seq(CallsWith(S))
    <3>1. 0 .. 2 \subseteq Nat /\ 31 \in Nat
      OBVIOUS
    <3> QED BY <1>2, <1>7, <3>1
  <2> QED BY <2>1 DEF fbp_dclink_bsmp_init_server
<1> QED BY <1>6, <1>8 DEF S, Sourced, fbp_system_config, fbp_dclink_system_config, Config

LEMMA OneBoardSourced ==
    /\ Sourced(fac_dcdc_system_config) /\ Sourced(fac_dcdc_ema_system_config)
    /\ Sourced(fap_system_config)
<1>0. Ctom(0, "ps_alarms") \in OtherSources
  BY OthersTyped DEF Members
<1>1. Sourced(fac_dcdc_system_config)
  <2> DEFINE S == SourcesWith(fac_dcdc_boards)
  <2>1. OsVars(1) \in Seq(S)
    BY IngredientsOfBoards DEF fac_dcdc_boards, Board
  <2>2. ModelInterlocks(0) \in Seq(S) /\ C28Signals(5) \in Seq(S) /\ Net(0) \in S
    BY Ingredients
  <2>3. Ctom(0, "ps_alarms") \in S
    BY <1>0 DEF SourcesWith
  <2> HIDE DEF S
  <2>4. fac_dcdc_bsmp_init_server \in Seq(CallsWith(S))
    <3>1. <<Net(0)>> \in Seq(S) /\ <<Ctom(0, "ps_alarms")>> \in Seq(S)
      BY <2>1, <2>2, <2>3
    <3>2. ModelInterlocks(0) \o C28Signals(5) \o <<Net(0)>> \o OsVars(1)
                     \o <<Ctom(0, "ps_alarms")>> \in Seq(S)
      BY <2>1, <2>2, <2>3, <3>1
    <3> QED BY <3>2, CallsTyped DEF fac_dcdc_bsmp_init_server
  <2> QED BY <2>4 DEF S, Sourced, fac_dcdc_system_config, Config
<1>2. Sourced(fac_dcdc_ema_system_config)
  <2> DEFINE S == SourcesWith(fac_dcdc_ema_boards)
  <2>1. OsVars(1) \in Seq(S)
    BY IngredientsOfBoards DEF fac_dcdc_ema_boards, Board
  <2>2. ModelInterlocks(0) \in Seq(S) /\ C28Signals(3) \in Seq(S) /\ Net(0) \in S
    BY Ingredients
  <2>3. Ctom(0, "ps_alarms") \in S
    BY <1>0 DEF SourcesWith
  <2> HIDE DEF S
  <2>4. fac_dcdc_ema_bsmp_init_server \in Seq(CallsWith(S))
    <3>1. <<Net(0)>> \in Seq(S) /\ <<Ctom(0, "ps_alarms")>> \in Seq(S)
      BY <2>1, <2>2, <2>3
    <3>2. ModelInterlocks(0) \o C28Signals(3) \o <<Net(0)>> \o OsVars(1)
                     \o <<Ctom(0, "ps_alarms")>> \in Seq(S)
      BY <2>1, <2>2, <2>3, <3>1
    <3> QED BY <3>2, CallsTyped DEF fac_dcdc_ema_bsmp_init_server
  <2> QED BY <2>4 DEF S, Sourced, fac_dcdc_ema_system_config, Config
<1>3. Sourced(fap_system_config)
  <2> DEFINE S == SourcesWith(fap_boards)
             fields == Fields(1, FapFields \o <<"GroundLeakage">> \o LastFields)
  <2>1. fields \in Seq(S)
    BY IngredientsOfBoards DEF fap_boards, Board
  <2>2. /\ ModelInterlocks(0) \in Seq(S) /\ C28Signals(4) \in Seq(S)
        /\ Net(0) \in S /\ Net(1) \in S /\ C28(5) \in S /\ C28(6) \in S /\ C28(7) \in S
    BY Ingredients
  <2>3. Ctom(0, "ps_alarms") \in S
    BY <1>0 DEF SourcesWith
  <2> HIDE DEF S, fields
  <2>4. CreateAll(0, 31, ModelInterlocks(0) \o C28Signals(4) \o <<Net(0), Net(1)>>
                     \o <<C28(5), C28(6), C28(7)>> \o fields
                     \o <<Ctom(0, "ps_alarms")>>) \in Seq(CallsWith(S))
    <3>1. /\ <<Net(0), Net(1)>> \in Seq(S) /\ <<C28(5), C28(6), C28(7)>> \in Seq(S)
          /\ <<Ctom(0, "ps_alarms")>> \in Seq(S)
      BY <2>2, <2>3
    <3>2. ModelInterlocks(0) \o C28Signals(4) \o <<Net(0), Net(1)>>
            \o <<C28(5), C28(6), C28(7)>> \o fields \o <<Ctom(0, "ps_alarms")>> \in Seq(S)
      BY <2>1, <2>2, <3>1
    <3> QED BY <3>2, CallsTyped
  <2> QED BY <2>4 DEF S, fields, Sourced, fap_system_config, Config, fap_bsmp_init_server
<1> QED BY <1>1, <1>2, <1>3

LEMMA AcdcSourced ==
    /\ Sourced(fac_acdc_system_config) /\ Sourced(fac_2s_acdc_system_config)
    /\ Sourced(fac_2p4s_acdc_system_config) /\ Sourced(fac_2p_acdc_imas_system_config)
<1>1. Sourced(fac_acdc_system_config)
  <2> DEFINE S == SourcesWith(fac_acdc_boards)
  <2>1. IsVars(1) \in Seq(S) /\ CmdVars(2) \in Seq(S)
    BY IngredientsOfBoards DEF fac_acdc_boards, Board
  <2>2. ModelInterlocks(0) \in Seq(S) /\ C28Signals(3) \in Seq(S)
    BY Ingredients
  <2> HIDE DEF S
  <2>3. fac_acdc_bsmp_init_server \in Seq(CallsWith(S))
    <3>1. ModelInterlocks(0) \o C28Signals(3) \o IsVars(1) \o CmdVars(2) \in Seq(S)
      BY <2>1, <2>2
    <3> QED BY <3>1, CallsTyped DEF fac_acdc_bsmp_init_server
  <2> QED BY <2>3 DEF S, Sourced, fac_acdc_system_config, Config
<1>2. Sourced(fac_2s_acdc_system_config)
  <2> DEFINE S == SourcesWith(fac_2s_acdc_boards)
  <2>1. IsVars(1) \in Seq(S) /\ IsVars(2) \in Seq(S) /\ CmdVars(3) \in Seq(S) /\ CmdVars(4) \in Seq(S)
    BY IngredientsOfBoards DEF fac_2s_acdc_boards, Board
  <2>2. /\ ModelInterlocks(0) \in Seq(S) /\ ModelInterlocks(1) \in Seq(S)
        /\ C28Signals(3) \in Seq(S)
    BY Ingredients
  <2>3. InitServer(1) \in Seq(CallsWith(S)) /\ FollowModule0(1) \in Seq(CallsWith(S))
    BY RedirectsTyped
  <2> HIDE DEF S
  <2>4. fac_2s_acdc_bsmp_init_server \in Seq(CallsWith(S))
    <3>1. ModelInterlocks(0) \o C28Signals(3) \o IsVars(1) \o CmdVars(3) \in Seq(S)
      BY <2>1, <2>2
    <3>2. ModelInterlocks(1) \o C28Signals(3) \o IsVars(2) \o CmdVars(4) \in Seq(S)
      BY <2>1, <2>2, <2>3
    <3>3. CreateAll(0, 31, ModelInterlocks(0) \o C28Signals(3) \o IsVars(1) \o CmdVars(3)) \in Seq(CallsWith(S))
      BY <3>1, CallsTyped
    <3>4. CreateAll(1, 31, ModelInterlocks(1) \o C28Signals(3) \o IsVars(2) \o CmdVars(4)) \in Seq(CallsWith(S))
      BY <3>2, CallsTyped
    <3> QED BY <2>3, <3>3, <3>4 DEF fac_2s_acdc_bsmp_init_server
  <2> QED BY <2>4 DEF S, Sourced, fac_2s_acdc_system_config, Config
<1>3. Sourced(fac_2p4s_acdc_system_config)
  <2> DEFINE S == SourcesWith(fac_2p4s_acdc_boards)
  <2>1. IsVars(1) \in Seq(S) /\ IsVars(2) \in Seq(S) /\ CmdVars(3) \in Seq(S) /\ CmdVars(4) \in Seq(S)
    BY IngredientsOfBoards DEF fac_2p4s_acdc_boards, Board
  <2>2. /\ ModelInterlocks(0) \in Seq(S) /\ ModelInterlocks(1) \in Seq(S)
        /\ C28Signals(3) \in Seq(S)
    BY Ingredients
  <2>3. InitServer(1) \in Seq(CallsWith(S)) /\ FollowModule0(1) \in Seq(CallsWith(S))
    BY RedirectsTyped
  <2> HIDE DEF S
  <2>4. fac_2p4s_acdc_bsmp_init_server \in Seq(CallsWith(S))
    <3>1. ModelInterlocks(0) \o C28Signals(3) \o IsVars(1) \o CmdVars(3) \in Seq(S)
      BY <2>1, <2>2
    <3>2. ModelInterlocks(1) \o C28Signals(3) \o IsVars(2) \o CmdVars(4) \in Seq(S)
      BY <2>1, <2>2, <2>3
    <3>3. CreateAll(0, 31, ModelInterlocks(0) \o C28Signals(3) \o IsVars(1) \o CmdVars(3)) \in Seq(CallsWith(S))
      BY <3>1, CallsTyped
    <3>4. CreateAll(1, 31, ModelInterlocks(1) \o C28Signals(3) \o IsVars(2) \o CmdVars(4)) \in Seq(CallsWith(S))
      BY <3>2, CallsTyped
    <3> QED BY <2>3, <3>3, <3>4 DEF fac_2p4s_acdc_bsmp_init_server
  <2> QED BY <2>4 DEF S, Sourced, fac_2p4s_acdc_system_config, Config
<1>4. Sourced(fac_2p_acdc_imas_system_config)
  <2> DEFINE S == SourcesWith(<<>>)
  <2>1. /\ ModelInterlocks(0) \in Seq(S) /\ ModelInterlocks(1) \in Seq(S)
        /\ C28Signals(3) \in Seq(S)
    BY Ingredients
  <2>2. InitServer(1) \in Seq(CallsWith(S)) /\ FollowModule0(1) \in Seq(CallsWith(S))
    BY RedirectsTyped
  <2> HIDE DEF S
  <2>3. fac_2p_acdc_imas_bsmp_init_server \in Seq(CallsWith(S))
    <3>1. /\ ModelInterlocks(0) \o C28Signals(3) \in Seq(S)
          /\ ModelInterlocks(1) \o C28Signals(3) \in Seq(S)
      BY <2>1
    <3>2. /\ CreateAll(0, 31, ModelInterlocks(0) \o C28Signals(3)) \in Seq(CallsWith(S))
          /\ CreateAll(1, 31, ModelInterlocks(1) \o C28Signals(3)) \in Seq(CallsWith(S))
      BY <3>1, CallsTyped
    <3> QED BY <2>2, <3>2 DEF fac_2p_acdc_imas_bsmp_init_server
  <2> QED BY <2>3 DEF S, Sourced, fac_2p_acdc_imas_system_config, Config
<1> QED BY <1>1, <1>2, <1>3, <1>4

LEMMA DcdcSourced ==
    /\ Sourced(fac_2s_dcdc_system_config) /\ Sourced(fac_2p4s_dcdc_system_config)
    /\ Sourced(fac_2p_dcdc_imas_system_config)
<1>0. Ctom(0, "ps_alarms") \in OtherSources
  BY OthersTyped DEF Members
<1>1. Sourced(fac_2s_dcdc_system_config)
  <2> DEFINE S == SourcesWith(fac_2s_dcdc_boards)
  <2>1. OsVars(1) \in Seq(S) /\ OsVars(2) \in Seq(S)
    BY IngredientsOfBoards DEF fac_2s_dcdc_boards, Board
  <2>2. ModelInterlocks(0) \in Seq(S) /\ C28Signals(7) \in Seq(S)
    BY Ingredients
  <2>3. Ctom(0, "ps_alarms") \in S
    BY <1>0 DEF SourcesWith
  <2> HIDE DEF S
  <2>4. fac_2s_dcdc_bsmp_init_server \in Seq(CallsWith(S))
    <3>1. <<Ctom(0, "ps_alarms")>> \in Seq(S)
      BY <2>1, <2>2, <2>3
    <3>2. ModelInterlocks(0) \o C28Signals(7) \o OsVars(1) \o OsVars(2)
                     \o <<Ctom(0, "ps_alarms")>> \in Seq(S)
      BY <2>1, <2>2, <2>3, <3>1
    <3> QED BY <3>2, CallsTyped DEF fac_2s_dcdc_bsmp_init_server
  <2> QED BY <2>4 DEF S, Sourced, fac_2s_dcdc_system_config, Config
<1>2. Sourced(fac_2p4s_dcdc_system_config)
  <2> DEFINE S == SourcesWith(fac_2p4s_dcdc_boards)
  <2>1. \A a \in 1 .. 8 : OsVars(a) \in Seq(S)
    BY IngredientsOfBoards DEF fac_2p4s_dcdc_boards, Board
  <2>2. /\ ModelInterlocks(0) \in Seq(S) /\ C28Signals(5) \in Seq(S)
        /\ \A i \in 0 .. 11 : Net(i) \in S
        /\ \A n \in Nat : C28(n) \in S
    BY Ingredients
  <2>3. Ctom(0, "ps_alarms") \in S
    BY <1>0 DEF SourcesWith
  <2>4. \A s \in Nat : InitServer(s) \in Seq(CallsWith(S)) /\ MirrorServer0(s) \in Seq(CallsWith(S))
    BY RedirectsTyped
  <2> HIDE DEF S
  <2>5. [k \in 1 .. 8 |-> Net(k - 1)] \in Seq(S) /\ [k \in 1 .. 8 |-> C28(5 + k)] \in Seq(S)
    <3>1. [k \in 1 .. 8 |-> Net(k - 1)] \in [1 .. 8 -> S]
      BY <2>2
    <3>2. [k \in 1 .. 8 |-> C28(5 + k)] \in [1 .. 8 -> S]
      BY <2>2
    <3> QED BY <3>1, <3>2, SeqDef
  <2>6. ASSUME NEW s \in 0 .. 3 PROVE fac_2p4s_dcdc_vars(s) \in Seq(S)
    <3>1. OsVars(2 * s + 1) \in Seq(S) /\ OsVars(2 * s + 2) \in Seq(S)
      BY <2>1
    <3>2. <<Ctom(0, "ps_alarms")>> \in Seq(S)
      BY <2>3
    <3>3. ModelInterlocks(0) \in Seq(S) /\ C28Signals(5) \in Seq(S)
      BY <2>2
    <3> QED BY <2>5, <3>1, <3>2, <3>3 DEF fac_2p4s_dcdc_vars
  <2>7. /\ CreateAll(0, 31, fac_2p4s_dcdc_vars(0)) \in Seq(CallsWith(S))
        /\ CreateAll(1, 31, fac_2p4s_dcdc_vars(1)) \in Seq(CallsWith(S))
        /\ CreateAll(2, 31, fac_2p4s_dcdc_vars(2)) \in Seq(CallsWith(S))
        /\ CreateAll(3, 31, fac_2p4s_dcdc_vars(3)) \in Seq(CallsWith(S))
    BY <2>6, CallsTyped
  <2>8. fac_2p4s_dcdc_bsmp_init_server \in Seq(CallsWith(S))
    <3>1. \A s \in 1 .. 3 : /\ InitServer(s) \in Seq(CallsWith(S))
                           /\ MirrorServer0(s) \in Seq(CallsWith(S))
      BY <2>4
    <3> QED BY <2>7, <3>1 DEF fac_2p4s_dcdc_bsmp_init_server
  <2> QED BY <2>8 DEF S, Sourced, fac_2p4s_dcdc_system_config, Config
<1>3. Sourced(fac_2p_dcdc_imas_system_config)
  <2> DEFINE S == SourcesWith(<<>>)
  <2>1. /\ ModelInterlocks(0) \in Seq(S) /\ C28Signals(2) \in Seq(S)
        /\ Net(0) \in S /\ Net(1) \in S /\ \A n \in Nat : C28(n) \in S
    BY Ingredients
  <2> HIDE DEF S
  <2>2. [k \in 1 .. 6 |-> C28(2 + k)] \in Seq(S)
    <3>1. [k \in 1 .. 6 |-> C28(2 + k)] \in [1 .. 6 -> S]
      BY <2>1
    <3> QED BY <3>1, SeqDef
  <2>3. fac_2p_dcdc_imas_bsmp_init_server \in Seq(CallsWith(S))
    <3>1. <<Net(0), Net(1)>> \in Seq(S)
      BY <2>1, <2>2
    <3>2. ModelInterlocks(0) \o C28Signals(2) \o <<Net(0), Net(1)>>
                     \o [k \in 1 .. 6 |-> C28(2 + k)] \in Seq(S)
      BY <2>1, <2>2, <3>1
    <3> QED BY <3>2, CallsTyped DEF fac_2p_dcdc_imas_bsmp_init_server
  <2> QED BY <2>3 DEF S, Sourced, fac_2p_dcdc_imas_system_config, Config
<1> QED BY <1>1, <1>2, <1>3

LEMMA FapSourced == Sourced(fap_4p_system_config) /\ Sourced(fap_2p2s_system_config)
<1>0. Ctom(0, "ps_alarms") \in OtherSources
  BY OthersTyped DEF Members
<1>1. Sourced(fap_4p_system_config)
  <2> DEFINE S == SourcesWith(fap_4p_boards)
  <2>1. \A a \in 1 .. 4 : FapVars(a) \in Seq(S) /\ Iib(a, "GroundLeakage") \in S
    BY IngredientsOfBoards DEF fap_4p_boards, Board
  <2>2. /\ ModelInterlocks(0) \in Seq(S) /\ C28Signals(4) \in Seq(S)
        /\ \A i \in 0 .. 11 : Net(i) \in S
        /\ \A n \in Nat : C28(n) \in S
    BY Ingredients
  <2>3. Ctom(0, "ps_alarms") \in S
    BY <1>0 DEF SourcesWith
  <2> HIDE DEF S
  <2>4. [k \in 1 .. 12 |-> Net(k - 1)] \in Seq(S) /\ [k \in 1 .. 9 |-> C28(4 + k)] \in Seq(S)
    <3>1. [k \in 1 .. 12 |-> Net(k - 1)] \in [1 .. 12 -> S]
      BY <2>2
    <3>2. [k \in 1 .. 9 |-> C28(4 + k)] \in [1 .. 9 -> S]
      BY <2>2
    <3> QED BY <3>1, <3>2, SeqDef
  <2>6. fap_4p_bsmp_init_server \in Seq(CallsWith(S))
    <3>1. <<Iib(1, "GroundLeakage")>> \in Seq(S) /\ <<Ctom(0, "ps_alarms")>> \in Seq(S)
      BY <2>1, <2>2, <2>3, <2>4
    <3>2. ModelInterlocks(0) \o C28Signals(4)
                     \o [k \in 1 .. 12 |-> Net(k - 1)] \o [k \in 1 .. 9 |-> C28(4 + k)]
                     \o <<Iib(1, "GroundLeakage")>>
                     \o FapVars(1) \o FapVars(2) \o FapVars(3) \o FapVars(4)
                     \o <<Ctom(0, "ps_alarms")>> \in Seq(S)
      BY <2>1, <2>2, <2>3, <2>4, <3>1
    <3> QED BY <3>2, CallsTyped DEF fap_4p_bsmp_init_server
  <2> QED BY <2>6 DEF S, Sourced, fap_4p_system_config, Config
<1>2. Sourced(fap_2p2s_system_config)
  <2> DEFINE S == SourcesWith(fap_2p2s_boards)
  <2>1. \A a \in 1 .. 4 : FapVars(a) \in Seq(S) /\ Iib(a, "GroundLeakage") \in S
    BY IngredientsOfBoards DEF fap_2p2s_boards, Board
  <2>2. /\ ModelInterlocks(0) \in Seq(S) /\ C28Signals(5) \in Seq(S)
        /\ \A i \in 0 .. 11 : Net(i) \in S
        /\ \A n \in Nat : C28(n) \in S
    BY Ingredients
  <2>3. Ctom(0, "ps_alarms") \in S
    BY <1>0 DEF SourcesWith
  <2> HIDE DEF S
  <2>4. /\ [k \in 1 .. 8 |-> Net(k - 1)] \in Seq(S) /\ [k \in 1 .. 4 |-> C28(5 + k)] \in Seq(S)
        /\ [k \in 1 .. 4 |-> Net(7 + k)] \in Seq(S) /\ [k \in 1 .. 10 |-> C28(9 + k)] \in Seq(S)
    <3>1. [k \in 1 .. 8 |-> Net(k - 1)] \in [1 .. 8 -> S]
      BY <2>2
    <3>2. [k \in 1 .. 4 |-> C28(5 + k)] \in [1 .. 4 -> S]
      BY <2>2
    <3>3. [k \in 1 .. 4 |-> Net(7 + k)] \in [1 .. 4 -> S]
      BY <2>2
    <3>4. [k \in 1 .. 10 |-> C28(9 + k)] \in [1 .. 10 -> S]
      BY <2>2
    <3> QED BY <3>1, <3>2, <3>3, <3>4, SeqDef
  <2>5. fap_2p2s_bsmp_init_server \in Seq(CallsWith(S))
    <3>1. <<Iib(1, "GroundLeakage")>> \in Seq(S) /\ <<Ctom(0, "ps_alarms")>> \in Seq(S)
      BY <2>1, <2>2, <2>3, <2>4
    <3>2. ModelInterlocks(0) \o C28Signals(5)
                     \o [k \in 1 .. 8 |-> Net(k - 1)] \o [k \in 1 .. 4 |-> C28(5 + k)]
                     \o [k \in 1 .. 4 |-> Net(7 + k)] \o [k \in 1 .. 10 |-> C28(9 + k)]
                     \o <<Iib(1, "GroundLeakage")>>
                     \o FapVars(1) \o FapVars(2) \o FapVars(3) \o FapVars(4)
                     \o <<Ctom(0, "ps_alarms")>> \in Seq(S)
      BY <2>1, <2>2, <2>3, <2>4, <3>1
    <3> QED BY <3>2, CallsTyped DEF fap_2p2s_bsmp_init_server
  <2> QED BY <2>5 DEF S, Sourced, fap_2p2s_system_config, Config
<1> QED BY <1>1, <1>2

LEMMA SourcedModels == \A m \in AllModels : Sourced(SystemConfig[m])
<1>1. Sourced(Config(AllOff, <<>>, <<>>, Nothing, 0))
  BY DEF Sourced, Config
<1> QED BY <1>1, FbpSourced, OneBoardSourced, AcdcSourced, DcdcSourced, FapSourced
        DEF AllModels, SystemConfig

----------------------------------------------------------------------------
(* The identifiers the tables ask for.                                     *)

\* q is a sequence of n elements.
Listed(q, n) == n \in Nat /\ q \in Seq({q[k] : k \in 1 .. n}) /\ Len(q) = n

\* Every sequence is listed.
LEMMA ListedIf ==
    ASSUME NEW S, NEW q \in Seq(S)
    PROVE  Listed(q, Len(q))
<1>1. Len(q) \in Nat /\ q \in [1 .. Len(q) -> S]
  OBVIOUS
<1>2. q \in [1 .. Len(q) -> {q[k] : k \in 1 .. Len(q)}]
  BY <1>1
<1> QED BY <1>1, <1>2, SeqDef DEF Listed

LEMMA ListedDomain ==
    ASSUME NEW q, NEW n, Listed(q, n)
    PROVE  n \in Nat /\ DOMAIN q = 1 .. n /\ Len(q) = n
BY DEF Listed

\* Two lists, one after the other.
LEMMA ListedJoin ==
    ASSUME NEW q, NEW n, Listed(q, n), NEW r, NEW m, Listed(r, m)
    PROVE  /\ Listed(q \o r, n + m)
           /\ \A k \in 1 .. n : (q \o r)[k] = q[k]
           /\ \A k \in 1 .. m : (q \o r)[n + k] = r[k]
<1> DEFINE A == {q[k] : k \in 1 .. n}
           B == {r[k] : k \in 1 .. m}
           S == A \cup B
<1>1. n \in Nat /\ m \in Nat /\ q \in Seq(A) /\ r \in Seq(B) /\ Len(q) = n /\ Len(r) = m
  BY DEF Listed
<1> HIDE DEF A, B
<1>2. q \in Seq(S) /\ r \in Seq(S)
  BY <1>1, WiderSeq
<1> HIDE DEF S
<1>3. q \o r \in Seq(S) /\ Len(q \o r) = n + m
      /\ \A k \in 1 .. n + m : (q \o r)[k] = IF k <= n THEN q[k] ELSE r[k - n]
  BY <1>1, <1>2, ConcatProperties
<1>4. Listed(q \o r, n + m)
  BY <1>3, ListedIf
<1>5. ASSUME NEW k \in 1 .. m PROVE (q \o r)[n + k] = r[k]
  BY <1>1, <1>3
<1>6. ASSUME NEW k \in 1 .. n PROVE (q \o r)[k] = q[k]
  BY <1>1, <1>3
<1> QED BY <1>4, <1>5, <1>6

\* How many variables each of the servers has.
Lengths == [Servers -> 0 .. 128]
Have(a, b, c, d) == [s \in Servers |-> CASE s = 0 -> a [] s = 1 -> b [] s = 2 -> c [] s = 3 -> d]

\* Call c finds n variables and leaves m, and none it names is dropped.
InTurn(c, n, m) ==
    \/ c.op = "init" /\ n = 0 /\ m = 31 /\ c.sources = <<>>
    \/ c.op = "create" /\ n = c.first /\ m = n + Len(c.sources)
    \/ c.op = "modify" /\ c.first + Len(c.sources) <= n /\ m = n

\* The calls of a table take the servers from these lengths to those.
Takes(table, k, before, after) ==
    /\ table[k].server \in Servers
    /\ Listed(table[k].sources, Len(table[k].sources))
    /\ InTurn(table[k], before[table[k].server], after[table[k].server])
    /\ \A s \in Servers \ {table[k].server} : after[s] = before[s]

Fills(table, before, after) ==
    /\ Listed(table, Len(table))
    /\ \E g \in [0 .. Len(table) -> Lengths] :
          /\ g[0] = before /\ g[Len(table)] = after
          /\ \A k \in 1 .. Len(table) : Takes(table, k, g[k - 1], g[k])

\* Two tables, one after the other.
LEMMA FillsJoin ==
    ASSUME NEW t, NEW u, NEW a, NEW b, NEW c, Fills(t, a, b), Fills(u, b, c)
    PROVE  Fills(t \o u, a, c)
<1> DEFINE n == Len(t)
           m == Len(u)
           tu == t \o u
<1>1. /\ Listed(t, n) /\ Listed(u, m) /\ n \in Nat /\ m \in Nat
  BY DEF Fills, Listed
<1>2. PICK g \in [0 .. n -> Lengths] :
          /\ g[0] = a /\ g[n] = b /\ \A k \in 1 .. n : Takes(t, k, g[k - 1], g[k])
  BY DEF Fills
<1>3. PICK h \in [0 .. m -> Lengths] :
          /\ h[0] = b /\ h[m] = c /\ \A k \in 1 .. m : Takes(u, k, h[k - 1], h[k])
  BY DEF Fills
<1>4. /\ Listed(tu, n + m)
      /\ \A k \in 1 .. n : tu[k] = t[k]
      /\ \A k \in 1 .. m : tu[n + k] = u[k]
  BY <1>1, ListedJoin
<1> DEFINE f == [k \in 0 .. n + m |-> IF k <= n THEN g[k] ELSE h[k - n]]
<1> HIDE DEF n, m, tu
<1>5. f \in [0 .. n + m -> Lengths] /\ f[0] = a
  BY <1>1, <1>2, <1>3
<1>6. f[n + m] = c
  BY <1>1, <1>2, <1>3
<1>7. ASSUME NEW k \in 1 .. n + m PROVE Takes(tu, k, f[k - 1], f[k])
  <2>1. CASE k <= n
    <3>1. k \in 1 .. n /\ f[k] = g[k] /\ f[k - 1] = g[k - 1] /\ tu[k] = t[k]
      BY <1>1, <1>4, <2>1
    <3>2. Takes(t, k, g[k - 1], g[k])
      BY <1>2, <3>1
    <3> QED BY <3>1, <3>2 DEF Takes
  <2>2. CASE k > n
    <3>0. k - n \in 1 .. m /\ n + (k - n) = k /\ k - n - 1 \in 0 .. m /\ k - 1 - n = k - n - 1
      BY <1>1, <2>2
    <3> DEFINE j == k - n
    <3>1. f[k] = h[j]
      BY <1>1, <2>2
    <3>2. f[k - 1] = h[j - 1]
      <4>1. CASE k - 1 = n
        BY <1>1, <1>2, <1>3, <4>1
      <4>2. CASE k - 1 # n
        BY <1>1, <2>2, <4>2
      <4> QED BY <4>1, <4>2
    <3>3. tu[k] = u[j]
      <4>1. tu[n + j] = u[j]
        BY <1>4, <3>0
      <4> QED BY <3>0, <4>1
    <3>4. Takes(u, j, h[j - 1], h[j])
      BY <1>3, <3>0
    <3> HIDE DEF j, f
    <3> QED BY <3>1, <3>2, <3>3, <3>4 DEF Takes
  <2> QED BY <1>1, <2>1, <2>2
<1> HIDE DEF f
<1>8. Len(tu) = n + m
  BY <1>4, ListedDomain
<1> QED BY <1>4, <1>5, <1>6, <1>7, <1>8 DEF Fills, tu

\* A table of one call.
LEMMA FillsOne ==
    ASSUME NEW c, NEW a \in Lengths, NEW b \in Lengths, c.server \in Servers,
           Listed(c.sources, Len(c.sources)),
           InTurn(c, a[c.server], b[c.server]),
           \A s \in Servers \ {c.server} : b[s] = a[s]
    PROVE  Fills(<<c>>, a, b)
<1>1. Listed(<<c>>, 1) /\ Len(<<c>>) = 1
  <2>1. <<c>> \in Seq({c}) /\ Len(<<c>>) = 1
    OBVIOUS
  <2>2. Listed(<<c>>, Len(<<c>>))
    BY <2>1, ListedIf
  <2> QED BY <2>1, <2>2
<1> DEFINE g == [k \in 0 .. 1 |-> IF k = 0 THEN a ELSE b]
<1>2. g \in [0 .. 1 -> Lengths] /\ g[0] = a /\ g[1] = b
  OBVIOUS
<1>3. ASSUME NEW k \in 1 .. 1 PROVE Takes(<<c>>, k, g[k - 1], g[k])
  BY DEF Takes
<1> HIDE DEF g
<1> QED BY <1>1, <1>2, <1>3 DEF Fills

----------------------------------------------------------------------------
(* How many variables the parts of the tables have.                        *)

LEMMA ListedFunction ==
    ASSUME NEW n \in Nat, NEW f, f = [k \in 1 .. n |-> f[k]]
    PROVE  Listed(f, n)
<1>1. f \in [1 .. n -> {f[k] : k \in 1 .. n}]
  OBVIOUS
<1>2. f \in Seq({f[k] : k \in 1 .. n}) /\ Len(f) = n
  BY <1>1, SeqDef
<1> QED BY <1>2 DEF Listed

LEMMA ListedFields ==
    ASSUME NEW a, NEW names, NEW n, Listed(names, n)
    PROVE  Listed(Fields(a, names), n)
<1>1. n \in Nat /\ Len(names) = n
  BY DEF Listed
<1>2. Fields(a, names) = [k \in 1 .. n |-> Iib(a, names[k])]
  BY <1>1 DEF Fields
<1> QED BY <1>1, <1>2, ListedFunction

LEMMA ListedSignals ==
    ASSUME NEW n \in Nat
    PROVE  Listed(C28Signals(n), n)
BY ListedFunction DEF C28Signals

LEMMA ListedInterlocks ==
    ASSUME NEW m
    PROVE  Listed(ModelInterlocks(m), 2)
<1> DEFINE a == Ctom(m, "ps_soft_interlock")
           b == Ctom(m, "ps_hard_interlock")
<1> HIDE DEF a, b
<1>1. <<a, b>> \in Seq({a, b}) /\ Len(<<a, b>>) = 2
  OBVIOUS
<1> QED BY <1>1, ListedIf DEF ModelInterlocks, a, b

LEMMA ListedOne ==
    ASSUME NEW a
    PROVE  Listed(<<a>>, 1)
<1>1. <<a>> \in Seq({a}) /\ Len(<<a>>) = 1
  OBVIOUS
<1>2. Listed(<<a>>, Len(<<a>>))
  BY <1>1, ListedIf
<1> QED BY <1>1, <1>2

LEMMA ListedTwo ==
    ASSUME NEW a, NEW b
    PROVE  Listed(<<a, b>>, 2)
<1>1. <<a, b>> \in Seq({a, b}) /\ Len(<<a, b>>) = 2
  OBVIOUS
<1>2. Listed(<<a, b>>, Len(<<a, b>>))
  BY <1>1, ListedIf
<1> QED BY <1>1, <1>2

LEMMA ListedNames ==
    /\ Listed(LastFields, 4) /\ Listed(FapFields, 11)
    /\ Listed(<<"VdcLink", "Iin", "Iout", "TempIGBT1", "TempIGBT2",
                "TempL", "TempHeatSink", "DriverVoltage", "Driver1Current",
                "Driver2Current">>, 10)
    /\ Listed(<<"Iin", "Vin", "TempIGBT", "DriverVoltage",
                "DriverCurrent", "TempL", "TempHeatsink">>, 7)
    /\ Listed(<<"Vout", "VcapBank", "TempRectInductor",
                "TempRectHeatSink", "ExternalBoardsVoltage", "AuxiliaryBoardCurrent",
                "IDBBoardCurrent", "GroundLeakage">>, 8)
<1>1. Listed(LastFields, 4)
  <2> DEFINE q == LastFields
             names == {"BoardTemperature", "RelativeHumidity", "InterlocksRegister", "AlarmsRegister"}
  <2>1. q \in Seq(names) /\ Len(q) = 4
    BY DEF LastFields
  <2> HIDE DEF names
  <2>2. Listed(q, Len(q))
    BY <2>1, ListedIf
  <2> QED BY <2>1, <2>2
<1>2. Listed(FapFields, 11)
  <2> DEFINE q == FapFields
             names == {"Vin", "Vout", "IoutA1", "IoutA2",
                       "TempIGBT1", "TempIGBT2", "DriverVoltage", "Driver1Current",
                       "Driver2Current", "TempL", "TempHeatSink"}
  <2>1. q \in Seq(names) /\ Len(q) = 11
    BY DEF FapFields
  <2> HIDE DEF names
  <2>2. Listed(q, Len(q))
    BY <2>1, ListedIf
  <2> QED BY <2>1, <2>2
<1>3. Listed(<<"VdcLink", "Iin", "Iout", "TempIGBT1",
            "TempIGBT2", "TempL", "TempHeatSink", "DriverVoltage",
            "Driver1Current", "Driver2Current">>, 10)
  <2> DEFINE q == <<"VdcLink", "Iin", "Iout", "TempIGBT1",
                    "TempIGBT2", "TempL", "TempHeatSink", "DriverVoltage",
                    "Driver1Current", "Driver2Current">>
             names == {"VdcLink", "Iin", "Iout", "TempIGBT1",
                       "TempIGBT2", "TempL", "TempHeatSink", "DriverVoltage",
                       "Driver1Current", "Driver2Current"}
  <2>1. q \in Seq(names) /\ Len(q) = 10
    OBVIOUS
  <2> HIDE DEF names
  <2>2. Listed(q, Len(q))
    BY <2>1, ListedIf
  <2> QED BY <2>1, <2>2
<1>4. Listed(<<"Iin", "Vin", "TempIGBT", "DriverVoltage",
            "DriverCurrent", "TempL", "TempHeatsink">>, 7)
  <2> DEFINE q == <<"Iin", "Vin", "TempIGBT", "DriverVoltage",
                    "DriverCurrent", "TempL", "TempHeatsink">>
             names == {"Iin", "Vin", "TempIGBT", "DriverVoltage",
                       "DriverCurrent", "TempL", "TempHeatsink"}
  <2>1. q \in Seq(names) /\ Len(q) = 7
    OBVIOUS
  <2> HIDE DEF names
  <2>2. Listed(q, Len(q))
    BY <2>1, ListedIf
  <2> QED BY <2>1, <2>2
<1>5. Listed(<<"Vout", "VcapBank", "TempRectInductor", "TempRectHeatSink",
            "ExternalBoardsVoltage", "AuxiliaryBoardCurrent", "IDBBoardCurrent", "GroundLeakage">>, 8)
  <2> DEFINE q == <<"Vout", "VcapBank", "TempRectInductor", "TempRectHeatSink",
                    "ExternalBoardsVoltage", "AuxiliaryBoardCurrent", "IDBBoardCurrent", "GroundLeakage">>
             names == {"Vout", "VcapBank", "TempRectInductor", "TempRectHeatSink",
                       "ExternalBoardsVoltage", "AuxiliaryBoardCurrent", "IDBBoardCurrent", "GroundLeakage"}
  <2>1. q \in Seq(names) /\ Len(q) = 8
    OBVIOUS
  <2> HIDE DEF names
  <2>2. Listed(q, Len(q))
    BY <2>1, ListedIf
  <2> QED BY <2>1, <2>2
<1> QED BY <1>1, <1>2, <1>3, <1>4, <1>5

LEMMA ListedBoardVars ==
    ASSUME NEW a
    PROVE  /\ Listed(OsVars(a), 14) /\ Listed(IsVars(a), 11)
           /\ Listed(CmdVars(a), 12) /\ Listed(FapVars(a), 15)
           /\ Listed(Fields(a, FapFields \o <<"GroundLeakage">> \o LastFields), 16)
<1>1. Listed(OsVars(a), 14)
  <2>1. 10 + 4 = 14
    OBVIOUS
  <2> QED BY <2>1, ListedNames, ListedJoin, ListedFields DEF OsVars
<1>2. Listed(IsVars(a), 11)
  <2>1. 7 + 4 = 11
    OBVIOUS
  <2> QED BY <2>1, ListedNames, ListedJoin, ListedFields DEF IsVars
<1>3. Listed(CmdVars(a), 12)
  <2>1. 8 + 4 = 12
    OBVIOUS
  <2> QED BY <2>1, ListedNames, ListedJoin, ListedFields DEF CmdVars
<1>4. Listed(FapVars(a), 15)
  <2>1. 11 + 4 = 15
    OBVIOUS
  <2> QED BY <2>1, ListedNames, ListedJoin, ListedFields DEF FapVars
<1>5. Listed(Fields(a, FapFields \o <<"GroundLeakage">> \o LastFields), 16)
  <2>1. 11 + 1 = 12 /\ 12 + 4 = 16
    OBVIOUS
  <2>2. Listed(FapFields \o <<"GroundLeakage">>, 12)
    BY <2>1, ListedNames, ListedJoin, ListedOne
  <2> DEFINE some == FapFields \o <<"GroundLeakage">>
  <2> HIDE DEF some
  <2>3. Listed(some \o LastFields, 16)
    <3>1. Listed(some, 12)
      BY <2>2 DEF some
    <3>2. Listed(LastFields, 4)
      BY ListedNames
    <3>3. Listed(some \o LastFields, 12 + 4)
      BY <3>1, <3>2, ListedJoin
    <3> QED BY <2>1, <3>3
  <2> QED BY <2>3, ListedFields DEF some
<1> QED BY <1>1, <1>2, <1>3, <1>4, <1>5

LEMMA ListedCommon ==
    ASSUME NEW s
    PROVE  Listed(CommonVars(s), 31)
<1> DEFINE a == <<Ctom(s, "ps_status"), Mtoc(s, "ps_setpoint"),
                  Ctom(s, "ps_reference"), Ctom(0, "firmwares_version"),
                  Ctom(0, "counter_set_slowref"), Ctom(0, "counter_sync_pulse")>>
           b == [k \in 1 .. 8 |-> Ctom(s,
                    <<"enable", "type", "num_cycles", "n", "freq", "amplitude",
                      "siggen.offset", "aux_param">>[k])]
           c == [k \in 1 .. 5 |-> Ctom(s,
                    <<"wfmref_selected", "sync_mode", "freq_base", "gain",
                      "wfmref.offset">>[k])]
           d == <<Mtoc(s, "wfmref_data_0.start"), Mtoc(s, "wfmref_data_0.end"),
                  Ctom(s, "wfmref_data_0.idx"), Mtoc(s, "wfmref_data_1.start"),
                  Mtoc(s, "wfmref_data_1.end"), Ctom(s, "wfmref_data_1.idx"),
                  Ctom(s, "freq_sampling"), Ctom(s, "duration"),
                  Ctom(s, "p_source"), Ctom(0, "period_sync_pulse"), Dummy, Dummy>>
<1>1. Listed(a, 6)
  <2>1. \A p, q, r, t, u, v : Listed(<<p, q, r, t, u, v>>, 6)
    <3> SUFFICES ASSUME NEW p, NEW q, NEW r, NEW t, NEW u, NEW v
                 PROVE  Listed(<<p, q, r, t, u, v>>, 6)
      OBVIOUS
    <3>1. <<p, q, r, t, u, v>> \in Seq({p, q, r, t, u, v}) /\ Len(<<p, q, r, t, u, v>>) = 6
      OBVIOUS
    <3>2. Listed(<<p, q, r, t, u, v>>, Len(<<p, q, r, t, u, v>>))
      BY <3>1, ListedIf
    <3> QED BY <3>1, <3>2
  <2> QED BY <2>1, Zenon
<1>2. Listed(b, 8)
  BY ListedFunction
<1>3. Listed(c, 5)
  BY ListedFunction
<1>4. Listed(d, 12)
  <2>1. \A p, q, r, t, u, v, w, x, y, z : Listed(<<p, q, r, t, u, v, w, x, y, z, Dummy, Dummy>>, 12)
    <3> SUFFICES ASSUME NEW p, NEW q, NEW r, NEW t, NEW u, NEW v, NEW w, NEW x, NEW y, NEW z
                 PROVE  Listed(<<p, q, r, t, u, v, w, x, y, z, Dummy, Dummy>>, 12)
      OBVIOUS
    <3> DEFINE l == <<p, q, r, t, u, v, w, x, y, z, Dummy, Dummy>>
               S == {p, q, r, t, u, v, w, x, y, z, Dummy}
    <3>1. l \in Seq(S) /\ Len(l) = 12
      OBVIOUS
    <3> HIDE DEF S
    <3>2. Listed(l, Len(l))
      BY <3>1, ListedIf
    <3> QED BY <3>1, <3>2
  <2> QED BY <2>1, Zenon
<1> HIDE DEF a, b, c, d
<1>5. Listed(a \o b, 14)
  <2>1. Listed(a \o b, 6 + 8)
    BY <1>1, <1>2, ListedJoin
  <2> QED BY <2>1
<1> DEFINE ab == a \o b
<1> HIDE DEF ab
<1>6. Listed(ab \o c, 19)
  <2>1. Listed(ab, 14)
    BY <1>5 DEF ab
  <2>2. Listed(ab \o c, 14 + 5)
    BY <1>3, <2>1, ListedJoin
  <2> QED BY <2>2
<1> DEFINE abc == ab \o c
<1> HIDE DEF abc
<1>7. Listed(abc \o d, 31)
  <2>1. Listed(abc, 19)
    BY <1>6 DEF abc
  <2>2. Listed(abc \o d, 19 + 12)
    BY <1>4, <2>1, ListedJoin
  <2> QED BY <2>2
<1>8. CommonVars(s) = abc \o d
  BY DEF CommonVars, abc, ab, a, b, c, d
<1> QED BY <1>7, <1>8

----------------------------------------------------------------------------
(* The calls, one at a time.                                               *)

LEMMA FillsInit ==
    ASSUME NEW s \in Servers, NEW a \in Lengths, NEW b \in Lengths, a[s] = 0, b[s] = 31,
           \A r \in Servers \ {s} : b[r] = a[r]
    PROVE  Fills(InitServer(s), a, b)
<1> DEFINE c == [op |-> "init", server |-> s, first |-> 0, sources |-> <<>>]
<1>1. c.op = "init" /\ c.server = s /\ c.sources = <<>>
  OBVIOUS
<1>2. Listed(<<>>, 0) /\ Len(<<>>) = 0
  <2>1. <<>> \in Seq({}) /\ Len(<<>>) = 0
    OBVIOUS
  <2>2. Listed(<<>>, Len(<<>>))
    BY <2>1, ListedIf
  <2> QED BY <2>1, <2>2
<1> HIDE DEF c
<1>3. Fills(<<c>>, a, b)
  BY <1>1, <1>2, FillsOne DEF InTurn
<1> QED BY <1>3 DEF InitServer, CallsFor, c

LEMMA FillsCreate ==
    ASSUME NEW s \in Servers, NEW a \in Lengths, NEW b \in Lengths, NEW q, NEW n,
           Listed(q, n), NEW first, a[s] = first, b[s] = first + n,
           \A r \in Servers \ {s} : b[r] = a[r]
    PROVE  Fills(CreateAll(s, first, q), a, b)
<1> DEFINE c == [op |-> "create", server |-> s, first |-> first, sources |-> q]
<1>1. c.op = "create" /\ c.server = s /\ c.sources = q /\ c.first = first
  OBVIOUS
<1>2. Len(q) = n
  BY DEF Listed
<1> HIDE DEF c
<1>3. Fills(<<c>>, a, b)
  BY <1>1, <1>2, FillsOne DEF InTurn
<1> QED BY <1>3 DEF CreateAll, CallsFor, c

LEMMA FillsModify ==
    ASSUME NEW s \in Servers, NEW a \in Lengths, NEW q, NEW n,
           Listed(q, n), NEW first, first + n <= a[s]
    PROVE  Fills(ModifyAll(s, first, q), a, a)
<1> DEFINE c == [op |-> "modify", server |-> s, first |-> first, sources |-> q]
<1>1. c.op = "modify" /\ c.server = s /\ c.sources = q /\ c.first = first
  OBVIOUS
<1>2. Len(q) = n
  BY DEF Listed
<1> HIDE DEF c
<1>3. Fills(<<c>>, a, a)
  BY <1>1, <1>2, FillsOne DEF InTurn
<1> QED BY <1>3 DEF ModifyAll, CallsFor, c

\* Numbers of variables a server can have.
Counts == 0 .. 128

\* A call to server 0, 1, 2, 3 when the servers have a, b, c, d variables.
LEMMA Calls0 ==
    ASSUME NEW a \in Counts, NEW b \in Counts, NEW c \in Counts, NEW d \in Counts,
           NEW q, NEW n, Listed(q, n), NEW t \in Counts, t = a + n
    PROVE  Fills(CreateAll(0, a, q), Have(a, b, c, d), Have(t, b, c, d))
<1>1. 0 \in Servers /\ Servers = {0, 1, 2, 3}
  BY DEF Listed, Servers, NUM_MAX_PS_MODULES
<1>2. Have(a, b, c, d) \in Lengths /\ Have(t, b, c, d) \in Lengths
  BY <1>1 DEF Have, Lengths, Counts
<1>3. Have(a, b, c, d)[0] = a /\ Have(t, b, c, d)[0] = t
  BY <1>1 DEF Have, Lengths, Counts
<1>4. \A r \in Servers \ {0} : Have(t, b, c, d)[r] = Have(a, b, c, d)[r]
  BY <1>1 DEF Have, Lengths, Counts
<1> QED BY <1>1, <1>2, <1>3, <1>4, FillsCreate

LEMMA Calls1 ==
    ASSUME NEW a \in Counts, NEW b \in Counts, NEW c \in Counts, NEW d \in Counts
    PROVE  /\ \A q, n : \A t \in Counts :
                 /\ Listed(q, n) /\ t = b + n =>
                       Fills(CreateAll(1, b, q), Have(a, b, c, d), Have(a, t, c, d))
                 /\ Listed(q, n) /\ n <= b =>
                       Fills(ModifyAll(1, 0, q), Have(a, b, c, d), Have(a, b, c, d))
           /\ b = 0 => Fills(InitServer(1), Have(a, b, c, d), Have(a, 31, c, d))
<1>1. 1 \in Servers /\ Servers = {0, 1, 2, 3}
  BY DEF Servers, NUM_MAX_PS_MODULES
<1>2. Have(a, b, c, d) \in Lengths /\ Have(a, b, c, d)[1] = b
  BY <1>1 DEF Have, Lengths, Counts
<1>3. ASSUME NEW t \in Counts
      PROVE  /\ Have(a, t, c, d) \in Lengths /\ Have(a, t, c, d)[1] = t
             /\ \A r \in Servers \ {1} : Have(a, t, c, d)[r] = Have(a, b, c, d)[r]
  BY <1>1 DEF Have, Lengths, Counts
<1>4. ASSUME NEW t \in Counts, NEW q, NEW n, Listed(q, n), t = b + n
      PROVE  Fills(CreateAll(1, b, q), Have(a, b, c, d), Have(a, t, c, d))
  BY <1>1, <1>2, <1>3, <1>4, FillsCreate
<1>5. ASSUME NEW q, NEW n, Listed(q, n), n <= b
      PROVE  Fills(ModifyAll(1, 0, q), Have(a, b, c, d), Have(a, b, c, d))
  <2>1. 0 + n <= b
    BY <1>5 DEF Listed, Counts
  <2> QED BY <1>1, <1>2, <1>5, <2>1, FillsModify
<1>6. ASSUME b = 0
      PROVE  Fills(InitServer(1), Have(a, b, c, d), Have(a, 31, c, d))
  <2>1. 31 \in Counts
    BY DEF Counts
  <2> QED BY <1>1, <1>2, <1>3, <1>6, <2>1, FillsInit
<1> QED BY <1>4, <1>5, <1>6

LEMMA Calls2 ==
    ASSUME NEW a \in Counts, NEW b \in Counts, NEW c \in Counts, NEW d \in Counts
    PROVE  /\ \A q, n : \A t \in Counts :
                 /\ Listed(q, n) /\ t = c + n =>
                       Fills(CreateAll(2, c, q), Have(a, b, c, d), Have(a, b, t, d))
                 /\ Listed(q, n) /\ n <= c =>
                       Fills(ModifyAll(2, 0, q), Have(a, b, c, d), Have(a, b, c, d))
           /\ c = 0 => Fills(InitServer(2), Have(a, b, c, d), Have(a, b, 31, d))
<1>1. 2 \in Servers /\ Servers = {0, 1, 2, 3}
  BY DEF Servers, NUM_MAX_PS_MODULES
<1>2. Have(a, b, c, d) \in Lengths /\ Have(a, b, c, d)[2] = c
  BY <1>1 DEF Have, Lengths, Counts
<1>3. ASSUME NEW t \in Counts
      PROVE  /\ Have(a, b, t, d) \in Lengths /\ Have(a, b, t, d)[2] = t
             /\ \A r \in Servers \ {2} : Have(a, b, t, d)[r] = Have(a, b, c, d)[r]
  BY <1>1 DEF Have, Lengths, Counts
<1>4. ASSUME NEW t \in Counts, NEW q, NEW n, Listed(q, n), t = c + n
      PROVE  Fills(CreateAll(2, c, q), Have(a, b, c, d), Have(a, b, t, d))
  BY <1>1, <1>2, <1>3, <1>4, FillsCreate
<1>5. ASSUME NEW q, NEW n, Listed(q, n), n <= c
      PROVE  Fills(ModifyAll(2, 0, q), Have(a, b, c, d), Have(a, b, c, d))
  <2>1. 0 + n <= c
    BY <1>5 DEF Listed, Counts
  <2> QED BY <1>1, <1>2, <1>5, <2>1, FillsModify
<1>6. ASSUME c = 0
      PROVE  Fills(InitServer(2), Have(a, b, c, d), Have(a, b, 31, d))
  <2>1. 31 \in Counts
    BY DEF Counts
  <2> QED BY <1>1, <1>2, <1>3, <1>6, <2>1, FillsInit
<1> QED BY <1>4, <1>5, <1>6

LEMMA Calls3 ==
    ASSUME NEW a \in Counts, NEW b \in Counts, NEW c \in Counts, NEW d \in Counts
    PROVE  /\ \A q, n : \A t \in Counts :
                 /\ Listed(q, n) /\ t = d + n =>
                       Fills(CreateAll(3, d, q), Have(a, b, c, d), Have(a, b, c, t))
                 /\ Listed(q, n) /\ n <= d =>
                       Fills(ModifyAll(3, 0, q), Have(a, b, c, d), Have(a, b, c, d))
           /\ d = 0 => Fills(InitServer(3), Have(a, b, c, d), Have(a, b, c, 31))
<1>1. 3 \in Servers /\ Servers = {0, 1, 2, 3}
  BY DEF Servers, NUM_MAX_PS_MODULES
<1>2. Have(a, b, c, d) \in Lengths /\ Have(a, b, c, d)[3] = d
  BY <1>1 DEF Have, Lengths, Counts
<1>3. ASSUME NEW t \in Counts
      PROVE  /\ Have(a, b, c, t) \in Lengths /\ Have(a, b, c, t)[3] = t
             /\ \A r \in Servers \ {3} : Have(a, b, c, t)[r] = Have(a, b, c, d)[r]
  BY <1>1 DEF Have, Lengths, Counts
<1>4. ASSUME NEW t \in Counts, NEW q, NEW n, Listed(q, n), t = d + n
      PROVE  Fills(CreateAll(3, d, q), Have(a, b, c, d), Have(a, b, c, t))
  BY <1>1, <1>2, <1>3, <1>4, FillsCreate
<1>5. ASSUME NEW q, NEW n, Listed(q, n), n <= d
      PROVE  Fills(ModifyAll(3, 0, q), Have(a, b, c, d), Have(a, b, c, d))
  <2>1. 0 + n <= d
    BY <1>5 DEF Listed, Counts
  <2> QED BY <1>1, <1>2, <1>5, <2>1, FillsModify
<1>6. ASSUME d = 0
      PROVE  Fills(InitServer(3), Have(a, b, c, d), Have(a, b, c, 31))
  <2>1. 31 \in Counts
    BY DEF Counts
  <2> QED BY <1>1, <1>2, <1>3, <1>6, <2>1, FillsInit
<1> QED BY <1>4, <1>5, <1>6

LEMMA ListedSum ==
    ASSUME NEW q, NEW n, Listed(q, n), NEW r, NEW m, Listed(r, m), NEW t, t = n + m
    PROVE  Listed(q \o r, t)
BY ListedJoin

\* A table without calls.
LEMMA FillsNothing ==
    Fills(<<>>, Have(31, 0, 0, 0), Have(31, 0, 0, 0))
<1>1. Have(31, 0, 0, 0) \in Lengths
  BY DEF Have, Lengths, Servers, NUM_MAX_PS_MODULES
<1>2. Listed(<<>>, 0) /\ Len(<<>>) = 0
  <2>1. <<>> \in Seq({}) /\ Len(<<>>) = 0
    OBVIOUS
  <2>2. Listed(<<>>, Len(<<>>))
    BY <2>1, ListedIf
  <2> QED BY <2>1, <2>2
<1> DEFINE g == [k \in 0 .. 0 |-> Have(31, 0, 0, 0)]
<1>3. g \in [0 .. 0 -> Lengths] /\ g[0] = Have(31, 0, 0, 0)
  BY <1>1
<1> HIDE DEF g
<1> QED BY <1>2, <1>3 DEF Fills

LEMMA ListedThree ==
    ASSUME NEW a, NEW b, NEW c
    PROVE  Listed(<<a, b, c>>, 3)
<1> DEFINE q == <<a, b, c>>
           S == {a, b, c}
<1>1. q \in Seq(S) /\ Len(q) = 3
  OBVIOUS
<1> HIDE DEF S
<1>2. Listed(q, Len(q))
  BY <1>1, ListedIf
<1> QED BY <1>1, <1>2

LEMMA ListedSix ==
    ASSUME NEW a, NEW b, NEW c, NEW d, NEW e, NEW f
    PROVE  Listed(<<a, b, c, d, e, f>>, 6)
<1> DEFINE q == <<a, b, c, d, e, f>>
           S == {a, b, c, d, e, f}
<1>1. q \in Seq(S) /\ Len(q) = 6
  OBVIOUS
<1> HIDE DEF S
<1>2. Listed(q, Len(q))
  BY <1>1, ListedIf
<1> QED BY <1>1, <1>2

LEMMA ListedFbpVars ==
    ASSUME NEW m
    PROVE  Listed(fbp_ps_vars(m), 8)
<1> DEFINE p1 == ModelInterlocks(m)
           p2 == <<C28(m), Net(4 + m), Net(m), Net(8 + m), C28(4 + m), Ctom(m, "ps_alarms")>>
<1>1. Listed(p1, 2)
  BY ListedInterlocks
<1>2. Listed(p2, 6)
  BY ListedSix
<1> HIDE DEF p1, p2
<1>3. Listed(p1 \o p2, 8)
  BY <1>1, <1>2, ListedSum
<1> QED BY <1>3 DEF p1, p2, fbp_ps_vars

LEMMA ListedFbpShared ==
    Listed(fbp_shared_vars, 35)
<1> DEFINE p1 == [k \in 1 .. 7 |-> Dummy]
           p2 == [k \in 1 .. 4 |-> Ctom(k - 1, "ps_status")]
           p3 == [k \in 1 .. 4 |-> Mtoc(k - 1, "ps_setpoint")]
           p4 == [k \in 1 .. 4 |-> Ctom(k - 1, "ps_reference")]
           p5 == [k \in 1 .. 4 |-> Ctom(k - 1, "ps_soft_interlock")]
           p6 == [k \in 1 .. 4 |-> Ctom(k - 1, "ps_hard_interlock")]
           p7 == [k \in 1 .. 4 |-> C28(k - 1)]
           p8 == [k \in 1 .. 4 |-> Ctom(k - 1, "ps_alarms")]
<1>1. Listed(p1, 7)
  BY ListedFunction
<1>2. Listed(p2, 4)
  BY ListedFunction
<1>3. Listed(p3, 4)
  BY ListedFunction
<1>4. Listed(p4, 4)
  BY ListedFunction
<1>5. Listed(p5, 4)
  BY ListedFunction
<1>6. Listed(p6, 4)
  BY ListedFunction
<1>7. Listed(p7, 4)
  BY ListedFunction
<1>8. Listed(p8, 4)
  BY ListedFunction
<1> HIDE DEF p1, p2, p3, p4, p5, p6, p7, p8
<1>9. Listed(p1 \o p2, 11)
  BY <1>1, <1>2, ListedSum
<1>10. Listed(p1 \o p2 \o p3, 15)
  BY <1>9, <1>3, ListedSum
<1>11. Listed(p1 \o p2 \o p3 \o p4, 19)
  BY <1>10, <1>4, ListedSum
<1>12. Listed(p1 \o p2 \o p3 \o p4 \o p5, 23)
  BY <1>11, <1>5, ListedSum
<1>13. Listed(p1 \o p2 \o p3 \o p4 \o p5 \o p6, 27)
  BY <1>12, <1>6, ListedSum
<1>14. Listed(p1 \o p2 \o p3 \o p4 \o p5 \o p6 \o p7, 31)
  BY <1>13, <1>7, ListedSum
<1>15. Listed(p1 \o p2 \o p3 \o p4 \o p5 \o p6 \o p7 \o p8, 35)
  BY <1>14, <1>8, ListedSum
<1> QED BY <1>15 DEF p1, p2, p3, p4, p5, p6, p7, p8, fbp_shared_vars, OfEveryPs, NUM_MAX_PS_MODULES

LEMMA ListedFbpDclink ==
    Listed(fbp_dclink_vars, 8)
<1> DEFINE p1 == ModelInterlocks(0)
           p2 == <<C28(1), Net(0), Net(1), Net(2), Net(3), Net(4)>>
<1>1. Listed(p1, 2)
  BY ListedInterlocks
<1>2. Listed(p2, 6)
  BY ListedSix
<1> HIDE DEF p1, p2
<1>3. Listed(p1 \o p2, 8)
  BY <1>1, <1>2, ListedSum
<1> QED BY <1>3 DEF p1, p2, fbp_dclink_vars

LEMMA ListedFac2p4sDcdc ==
    ASSUME NEW server
    PROVE  Listed(fac_2p4s_dcdc_vars(server), 52)
<1> DEFINE p1 == ModelInterlocks(0)
           p2 == C28Signals(5)
           p3 == [k \in 1 .. 8 |-> Net(k - 1)]
           p4 == [k \in 1 .. 8 |-> C28(5 + k)]
           p5 == OsVars(2 * server + 1)
           p6 == OsVars(2 * server + 2)
           p7 == <<Ctom(0, "ps_alarms")>>
<1>1. Listed(p1, 2)
  BY ListedInterlocks
<1>2. Listed(p2, 5)
  BY ListedSignals
<1>3. Listed(p3, 8)
  BY ListedFunction
<1>4. Listed(p4, 8)
  BY ListedFunction
<1>5. Listed(p5, 14)
  BY ListedBoardVars
<1>6. Listed(p6, 14)
  BY ListedBoardVars
<1>7. Listed(p7, 1)
  BY ListedOne
<1> HIDE DEF p1, p2, p3, p4, p5, p6, p7
<1>8. Listed(p1 \o p2, 7)
  BY <1>1, <1>2, ListedSum
<1>9. Listed(p1 \o p2 \o p3, 15)
  BY <1>8, <1>3, ListedSum
<1>10. Listed(p1 \o p2 \o p3 \o p4, 23)
  BY <1>9, <1>4, ListedSum
<1>11. Listed(p1 \o p2 \o p3 \o p4 \o p5, 37)
  BY <1>10, <1>5, ListedSum
<1>12. Listed(p1 \o p2 \o p3 \o p4 \o p5 \o p6, 51)
  BY <1>11, <1>6, ListedSum
<1>13. Listed(p1 \o p2 \o p3 \o p4 \o p5 \o p6 \o p7, 52)
  BY <1>12, <1>7, ListedSum
<1> QED BY <1>13 DEF p1, p2, p3, p4, p5, p6, p7, fac_2p4s_dcdc_vars

\* The calls that redirect variables find them.
LEMMA RedirectsFill ==
    ASSUME NEW a \in Counts, NEW b \in Counts, NEW c \in Counts, NEW d \in Counts
    PROVE  /\ 3 <= b => Fills(FollowModule0(1), Have(a, b, c, d), Have(a, b, c, d))
           /\ 3 <= c => Fills(FollowModule0(2), Have(a, b, c, d), Have(a, b, c, d))
           /\ 31 <= b => Fills(MirrorServer0(1), Have(a, b, c, d), Have(a, b, c, d))
           /\ 31 <= c => Fills(MirrorServer0(2), Have(a, b, c, d), Have(a, b, c, d))
           /\ 31 <= d => Fills(MirrorServer0(3), Have(a, b, c, d), Have(a, b, c, d))
<1> DEFINE q == <<Ctom(0, "ps_status"), Mtoc(0, "ps_setpoint"), Ctom(0, "ps_reference")>>
           r == CommonVars(0)
<1>1. Listed(q, 3) /\ Listed(r, 31)
  BY ListedThree, ListedCommon
<1>2. {3, 31} \subseteq Counts
  BY DEF Counts
<1> HIDE DEF q, r
<1>3. 3 <= b => Fills(ModifyAll(1, 0, q), Have(a, b, c, d), Have(a, b, c, d))
  BY <1>1, <1>2, Calls1
<1>4. 3 <= c => Fills(ModifyAll(2, 0, q), Have(a, b, c, d), Have(a, b, c, d))
  BY <1>1, <1>2, Calls2
<1>5. 31 <= b => Fills(ModifyAll(1, 0, r), Have(a, b, c, d), Have(a, b, c, d))
  BY <1>1, <1>2, Calls1
<1>6. 31 <= c => Fills(ModifyAll(2, 0, r), Have(a, b, c, d), Have(a, b, c, d))
  BY <1>1, <1>2, Calls2
<1>7. 31 <= d => Fills(ModifyAll(3, 0, r), Have(a, b, c, d), Have(a, b, c, d))
  BY <1>1, <1>2, Calls3
<1> QED BY <1>3, <1>4, <1>5, <1>6, <1>7 DEF FollowModule0, MirrorServer0, q, r

LEMMA FbpFills ==
    Fills(fbp_bsmp_init_server, Have(31, 0, 0, 0), Have(74, 74, 74, 74))
<1> DEFINE c1 == InitServer(1)
           c2 == InitServer(2)
           c3 == InitServer(3)
           c4 == CreateAll(0, 31, fbp_ps_vars(0))
           c5 == CreateAll(1, 31, fbp_ps_vars(1))
           c6 == CreateAll(2, 31, fbp_ps_vars(2))
           c7 == CreateAll(3, 31, fbp_ps_vars(3))
           c8 == CreateAll(0, 39, fbp_shared_vars)
           c9 == CreateAll(1, 39, fbp_shared_vars)
           c10 == CreateAll(2, 39, fbp_shared_vars)
           c11 == CreateAll(3, 39, fbp_shared_vars)
<1>1. {0, 31, 39, 74} \subseteq Counts
  BY DEF Counts
<1>2. Fills(c1, Have(31, 0, 0, 0), Have(31, 31, 0, 0))
  BY <1>1, Calls1
<1>3. Fills(c2, Have(31, 31, 0, 0), Have(31, 31, 31, 0))
  BY <1>1, Calls2
<1>4. Fills(c3, Have(31, 31, 31, 0), Have(31, 31, 31, 31))
  BY <1>1, Calls3
<1>5. Fills(c4, Have(31, 31, 31, 31), Have(39, 31, 31, 31))
  BY <1>1, ListedFbpVars, Calls0
<1>6. Fills(c5, Have(39, 31, 31, 31), Have(39, 39, 31, 31))
  BY <1>1, ListedFbpVars, Calls1
<1>7. Fills(c6, Have(39, 39, 31, 31), Have(39, 39, 39, 31))
  BY <1>1, ListedFbpVars, Calls2
<1>8. Fills(c7, Have(39, 39, 39, 31), Have(39, 39, 39, 39))
  BY <1>1, ListedFbpVars, Calls3
<1>9. Fills(c8, Have(39, 39, 39, 39), Have(74, 39, 39, 39))
  BY <1>1, ListedFbpShared, Calls0
<1>10. Fills(c9, Have(74, 39, 39, 39), Have(74, 74, 39, 39))
  BY <1>1, ListedFbpShared, Calls1
<1>11. Fills(c10, Have(74, 74, 39, 39), Have(74, 74, 74, 39))
  BY <1>1, ListedFbpShared, Calls2
<1>12. Fills(c11, Have(74, 74, 74, 39), Have(74, 74, 74, 74))
  BY <1>1, ListedFbpShared, Calls3
<1> HIDE DEF c1, c2, c3, c4, c5, c6, c7, c8, c9, c10, c11
<1>13. Fills(c1 \o c2, Have(31, 0, 0, 0), Have(31, 31, 31, 0))
  BY <1>2, <1>3, FillsJoin
<1>14. Fills(c1 \o c2 \o c3, Have(31, 0, 0, 0), Have(31, 31, 31, 31))
  BY <1>13, <1>4, FillsJoin
<1>15. Fills(c1 \o c2 \o c3 \o c4, Have(31, 0, 0, 0), Have(39, 31, 31, 31))
  BY <1>14, <1>5, FillsJoin
<1>16. Fills(c1 \o c2 \o c3 \o c4 \o c5, Have(31, 0, 0, 0), Have(39, 39, 31, 31))
  BY <1>15, <1>6, FillsJoin
<1>17. Fills(c1 \o c2 \o c3 \o c4 \o c5 \o c6, Have(31, 0, 0, 0), Have(39, 39, 39, 31))
  BY <1>16, <1>7, FillsJoin
<1>18. Fills(c1 \o c2 \o c3 \o c4 \o c5 \o c6 \o c7, Have(31, 0, 0, 0), Have(39, 39, 39, 39))
  BY <1>17, <1>8, FillsJoin
<1>19. Fills(c1 \o c2 \o c3 \o c4 \o c5 \o c6 \o c7 \o c8, Have(31, 0, 0, 0), Have(74, 39, 39, 39))
  BY <1>18, <1>9, FillsJoin
<1>20. Fills(c1 \o c2 \o c3 \o c4 \o c5 \o c6 \o c7 \o c8 \o c9, Have(31, 0, 0, 0), Have(74, 74, 39, 39))
  BY <1>19, <1>10, FillsJoin
<1>21. Fills(c1 \o c2 \o c3 \o c4 \o c5 \o c6 \o c7 \o c8 \o c9 \o c10, Have(31, 0, 0, 0), Have(74, 74, 74, 39))
  BY <1>20, <1>11, FillsJoin
<1>22. Fills(c1 \o c2 \o c3 \o c4 \o c5 \o c6 \o c7 \o c8 \o c9 \o c10 \o c11, Have(31, 0, 0, 0), Have(74, 74, 74, 74))
  BY <1>21, <1>12, FillsJoin
<1> QED BY <1>22 DEF fbp_bsmp_init_server, c1, c2, c3, c4, c5, c6, c7, c8, c9, c10, c11

LEMMA FbpDclinkFills ==
    Fills(fbp_dclink_bsmp_init_server, Have(31, 0, 0, 0), Have(39, 39, 39, 0))
<1> DEFINE c1 == CreateAll(0, 31, fbp_dclink_vars)
           c2 == InitServer(1)
           c3 == FollowModule0(1)
           c4 == CreateAll(1, 31, fbp_dclink_vars)
           c5 == InitServer(2)
           c6 == FollowModule0(2)
           c7 == CreateAll(2, 31, fbp_dclink_vars)
<1>1. {0, 31, 39} \subseteq Counts
  BY DEF Counts
<1>2. Fills(c1, Have(31, 0, 0, 0), Have(39, 0, 0, 0))
  BY <1>1, ListedFbpDclink, Calls0
<1>3. Fills(c2, Have(39, 0, 0, 0), Have(39, 31, 0, 0))
  BY <1>1, Calls1
<1>4. Fills(c3, Have(39, 31, 0, 0), Have(39, 31, 0, 0))
  BY <1>1, RedirectsFill
<1>5. Fills(c4, Have(39, 31, 0, 0), Have(39, 39, 0, 0))
  BY <1>1, ListedFbpDclink, Calls1
<1>6. Fills(c5, Have(39, 39, 0, 0), Have(39, 39, 31, 0))
  BY <1>1, Calls2
<1>7. Fills(c6, Have(39, 39, 31, 0), Have(39, 39, 31, 0))
  BY <1>1, RedirectsFill
<1>8. Fills(c7, Have(39, 39, 31, 0), Have(39, 39, 39, 0))
  BY <1>1, ListedFbpDclink, Calls2
<1> HIDE DEF c1, c2, c3, c4, c5, c6, c7
<1>9. Fills(c1 \o c2, Have(31, 0, 0, 0), Have(39, 31, 0, 0))
  BY <1>2, <1>3, FillsJoin
<1>10. Fills(c1 \o c2 \o c3, Have(31, 0, 0, 0), Have(39, 31, 0, 0))
  BY <1>9, <1>4, FillsJoin
<1>11. Fills(c1 \o c2 \o c3 \o c4, Have(31, 0, 0, 0), Have(39, 39, 0, 0))
  BY <1>10, <1>5, FillsJoin
<1>12. Fills(c1 \o c2 \o c3 \o c4 \o c5, Have(31, 0, 0, 0), Have(39, 39, 31, 0))
  BY <1>11, <1>6, FillsJoin
<1>13. Fills(c1 \o c2 \o c3 \o c4 \o c5 \o c6, Have(31, 0, 0, 0), Have(39, 39, 31, 0))
  BY <1>12, <1>7, FillsJoin
<1>14. Fills(c1 \o c2 \o c3 \o c4 \o c5 \o c6 \o c7, Have(31, 0, 0, 0), Have(39, 39, 39, 0))
  BY <1>13, <1>8, FillsJoin
<1> QED BY <1>14 DEF fbp_dclink_bsmp_init_server, c1, c2, c3, c4, c5, c6, c7

LEMMA FacAcdcFills ==
    Fills(fac_acdc_bsmp_init_server, Have(31, 0, 0, 0), Have(59, 0, 0, 0))
<1> DEFINE c1 == CreateAll(0, 31, ModelInterlocks(0)
                     \o C28Signals(3)
                     \o IsVars(1)
                     \o CmdVars(2))
<1>1. {0, 31, 59} \subseteq Counts
  BY DEF Counts
<1>2. Fills(c1, Have(31, 0, 0, 0), Have(59, 0, 0, 0))
  <2> DEFINE q == ModelInterlocks(0) \o C28Signals(3) \o IsVars(1) \o CmdVars(2)
  <2>1. Listed(q, 28)
    <3> DEFINE p1 == ModelInterlocks(0)
               p2 == C28Signals(3)
               p3 == IsVars(1)
               p4 == CmdVars(2)
    <3>1. Listed(p1, 2)
      BY ListedInterlocks
    <3>2. Listed(p2, 3)
      BY ListedSignals
    <3>3. Listed(p3, 11)
      BY ListedBoardVars
    <3>4. Listed(p4, 12)
      BY ListedBoardVars
    <3> HIDE DEF p1, p2, p3, p4
    <3>5. Listed(p1 \o p2, 5)
      BY <3>1, <3>2, ListedSum
    <3>6. Listed(p1 \o p2 \o p3, 16)
      BY <3>5, <3>3, ListedSum
    <3>7. Listed(p1 \o p2 \o p3 \o p4, 28)
      BY <3>6, <3>4, ListedSum
    <3> QED BY <3>7 DEF p1, p2, p3, p4
  <2> HIDE DEF q
  <2>2. Fills(CreateAll(0, 31, q), Have(31, 0, 0, 0), Have(59, 0, 0, 0))
    BY <1>1, <2>1, Calls0
  <2> QED BY <2>2 DEF q
<1> QED BY <1>2 DEF fac_acdc_bsmp_init_server

LEMMA FacDcdcFills ==
    Fills(fac_dcdc_bsmp_init_server, Have(31, 0, 0, 0), Have(54, 0, 0, 0))
<1> DEFINE c1 == CreateAll(0, 31, ModelInterlocks(0)
                     \o C28Signals(5)
                     \o <<Net(0)>>
                     \o OsVars(1)
                     \o <<Ctom(0, "ps_alarms")>>)
<1>1. {0, 31, 54} \subseteq Counts
  BY DEF Counts
<1>2. Fills(c1, Have(31, 0, 0, 0), Have(54, 0, 0, 0))
  <2> DEFINE q == ModelInterlocks(0)
                     \o C28Signals(5)
                     \o <<Net(0)>>
                     \o OsVars(1)
                     \o <<Ctom(0, "ps_alarms")>>
  <2>1. Listed(q, 23)
    <3> DEFINE p1 == ModelInterlocks(0)
               p2 == C28Signals(5)
               p3 == <<Net(0)>>
               p4 == OsVars(1)
               p5 == <<Ctom(0, "ps_alarms")>>
    <3>1. Listed(p1, 2)
      BY ListedInterlocks
    <3>2. Listed(p2, 5)
      BY ListedSignals
    <3>3. Listed(p3, 1)
      BY ListedOne
    <3>4. Listed(p4, 14)
      BY ListedBoardVars
    <3>5. Listed(p5, 1)
      BY ListedOne
    <3> HIDE DEF p1, p2, p3, p4, p5
    <3>6. Listed(p1 \o p2, 7)
      BY <3>1, <3>2, ListedSum
    <3>7. Listed(p1 \o p2 \o p3, 8)
      BY <3>6, <3>3, ListedSum
    <3>8. Listed(p1 \o p2 \o p3 \o p4, 22)
      BY <3>7, <3>4, ListedSum
    <3>9. Listed(p1 \o p2 \o p3 \o p4 \o p5, 23)
      BY <3>8, <3>5, ListedSum
    <3> QED BY <3>9 DEF p1, p2, p3, p4, p5
  <2> HIDE DEF q
  <2>2. Fills(CreateAll(0, 31, q), Have(31, 0, 0, 0), Have(54, 0, 0, 0))
    BY <1>1, <2>1, Calls0
  <2> QED BY <2>2 DEF q
<1> QED BY <1>2 DEF fac_dcdc_bsmp_init_server

LEMMA FacDcdcEmaFills ==
    Fills(fac_dcdc_ema_bsmp_init_server, Have(31, 0, 0, 0), Have(52, 0, 0, 0))
<1> DEFINE c1 == CreateAll(0, 31, ModelInterlocks(0)
                     \o C28Signals(3)
                     \o <<Net(0)>>
                     \o OsVars(1)
                     \o <<Ctom(0, "ps_alarms")>>)
<1>1. {0, 31, 52} \subseteq Counts
  BY DEF Counts
<1>2. Fills(c1, Have(31, 0, 0, 0), Have(52, 0, 0, 0))
  <2> DEFINE q == ModelInterlocks(0)
                     \o C28Signals(3)
                     \o <<Net(0)>>
                     \o OsVars(1)
                     \o <<Ctom(0, "ps_alarms")>>
  <2>1. Listed(q, 21)
    <3> DEFINE p1 == ModelInterlocks(0)
               p2 == C28Signals(3)
               p3 == <<Net(0)>>
               p4 == OsVars(1)
               p5 == <<Ctom(0, "ps_alarms")>>
    <3>1. Listed(p1, 2)
      BY ListedInterlocks
    <3>2. Listed(p2, 3)
      BY ListedSignals
    <3>3. Listed(p3, 1)
      BY ListedOne
    <3>4. Listed(p4, 14)
      BY ListedBoardVars
    <3>5. Listed(p5, 1)
      BY ListedOne
    <3> HIDE DEF p1, p2, p3, p4, p5
    <3>6. Listed(p1 \o p2, 5)
      BY <3>1, <3>2, ListedSum
    <3>7. Listed(p1 \o p2 \o p3, 6)
      BY <3>6, <3>3, ListedSum
    <3>8. Listed(p1 \o p2 \o p3 \o p4, 20)
      BY <3>7, <3>4, ListedSum
    <3>9. Listed(p1 \o p2 \o p3 \o p4 \o p5, 21)
      BY <3>8, <3>5, ListedSum
    <3> QED BY <3>9 DEF p1, p2, p3, p4, p5
  <2> HIDE DEF q
  <2>2. Fills(CreateAll(0, 31, q), Have(31, 0, 0, 0), Have(52, 0, 0, 0))
    BY <1>1, <2>1, Calls0
  <2> QED BY <2>2 DEF q
<1> QED BY <1>2 DEF fac_dcdc_ema_bsmp_init_server

LEMMA FapFills ==
    Fills(fap_bsmp_init_server, Have(31, 0, 0, 0), Have(59, 0, 0, 0))
<1> DEFINE c1 == CreateAll(0, 31, ModelInterlocks(0)
                     \o C28Signals(4)
                     \o <<Net(0), Net(1)>>
                     \o <<C28(5), C28(6), C28(7)>>
                     \o Fields(1, FapFields
                     \o <<"GroundLeakage">>
                     \o LastFields)
                     \o <<Ctom(0, "ps_alarms")>>)
<1>1. {0, 31, 59} \subseteq Counts
  BY DEF Counts
<1>2. Fills(c1, Have(31, 0, 0, 0), Have(59, 0, 0, 0))
  <2> DEFINE q == ModelInterlocks(0)
                     \o C28Signals(4)
                     \o <<Net(0), Net(1)>>
                     \o <<C28(5), C28(6), C28(7)>>
                     \o Fields(1, FapFields
                     \o <<"GroundLeakage">>
                     \o LastFields)
                     \o <<Ctom(0, "ps_alarms")>>
  <2>1. Listed(q, 28)
    <3> DEFINE p1 == ModelInterlocks(0)
               p2 == C28Signals(4)
               p3 == <<Net(0), Net(1)>>
               p4 == <<C28(5), C28(6), C28(7)>>
               p5 == Fields(1, FapFields \o <<"GroundLeakage">> \o LastFields)
               p6 == <<Ctom(0, "ps_alarms")>>
    <3>1. Listed(p1, 2)
      BY ListedInterlocks
    <3>2. Listed(p2, 4)
      BY ListedSignals
    <3>3. Listed(p3, 2)
      BY ListedTwo
    <3>4. Listed(p4, 3)
      BY ListedThree
    <3>5. Listed(p5, 16)
      BY ListedBoardVars
    <3>6. Listed(p6, 1)
      BY ListedOne
    <3> HIDE DEF p1, p2, p3, p4, p5, p6
    <3>7. Listed(p1 \o p2, 6)
      BY <3>1, <3>2, ListedSum
    <3>8. Listed(p1 \o p2 \o p3, 8)
      BY <3>7, <3>3, ListedSum
    <3>9. Listed(p1 \o p2 \o p3 \o p4, 11)
      BY <3>8, <3>4, ListedSum
    <3>10. Listed(p1 \o p2 \o p3 \o p4 \o p5, 27)
      BY <3>9, <3>5, ListedSum
    <3>11. Listed(p1 \o p2 \o p3 \o p4 \o p5 \o p6, 28)
      BY <3>10, <3>6, ListedSum
    <3> QED BY <3>11 DEF p1, p2, p3, p4, p5, p6
  <2> HIDE DEF q
  <2>2. Fills(CreateAll(0, 31, q), Have(31, 0, 0, 0), Have(59, 0, 0, 0))
    BY <1>1, <2>1, Calls0
  <2> QED BY <2>2 DEF q
<1> QED BY <1>2 DEF fap_bsmp_init_server

LEMMA Fac2sAcdcFills ==
    Fills(fac_2s_acdc_bsmp_init_server, Have(31, 0, 0, 0), Have(59, 59, 0, 0))
<1> DEFINE c1 == CreateAll(0, 31, ModelInterlocks(0)
                     \o C28Signals(3)
                     \o IsVars(1)
                     \o CmdVars(3))
           c2 == InitServer(1)
           c3 == FollowModule0(1)
           c4 == CreateAll(1, 31, ModelInterlocks(1)
                     \o C28Signals(3)
                     \o IsVars(2)
                     \o CmdVars(4))
<1>1. {0, 31, 59} \subseteq Counts
  BY DEF Counts
<1>2. Fills(c1, Have(31, 0, 0, 0), Have(59, 0, 0, 0))
  <2> DEFINE q == ModelInterlocks(0) \o C28Signals(3) \o IsVars(1) \o CmdVars(3)
  <2>1. Listed(q, 28)
    <3> DEFINE p1 == ModelInterlocks(0)
               p2 == C28Signals(3)
               p3 == IsVars(1)
               p4 == CmdVars(3)
    <3>1. Listed(p1, 2)
      BY ListedInterlocks
    <3>2. Listed(p2, 3)
      BY ListedSignals
    <3>3. Listed(p3, 11)
      BY ListedBoardVars
    <3>4. Listed(p4, 12)
      BY ListedBoardVars
    <3> HIDE DEF p1, p2, p3, p4
    <3>5. Listed(p1 \o p2, 5)
      BY <3>1, <3>2, ListedSum
    <3>6. Listed(p1 \o p2 \o p3, 16)
      BY <3>5, <3>3, ListedSum
    <3>7. Listed(p1 \o p2 \o p3 \o p4, 28)
      BY <3>6, <3>4, ListedSum
    <3> QED BY <3>7 DEF p1, p2, p3, p4
  <2> HIDE DEF q
  <2>2. Fills(CreateAll(0, 31, q), Have(31, 0, 0, 0), Have(59, 0, 0, 0))
    BY <1>1, <2>1, Calls0
  <2> QED BY <2>2 DEF q
<1>3. Fills(c2, Have(59, 0, 0, 0), Have(59, 31, 0, 0))
  BY <1>1, Calls1
<1>4. Fills(c3, Have(59, 31, 0, 0), Have(59, 31, 0, 0))
  BY <1>1, RedirectsFill
<1>5. Fills(c4, Have(59, 31, 0, 0), Have(59, 59, 0, 0))
  <2> DEFINE q == ModelInterlocks(1) \o C28Signals(3) \o IsVars(2) \o CmdVars(4)
  <2>1. Listed(q, 28)
    <3> DEFINE p1 == ModelInterlocks(1)
               p2 == C28Signals(3)
               p3 == IsVars(2)
               p4 == CmdVars(4)
    <3>1. Listed(p1, 2)
      BY ListedInterlocks
    <3>2. Listed(p2, 3)
      BY ListedSignals
    <3>3. Listed(p3, 11)
      BY ListedBoardVars
    <3>4. Listed(p4, 12)
      BY ListedBoardVars
    <3> HIDE DEF p1, p2, p3, p4
    <3>5. Listed(p1 \o p2, 5)
      BY <3>1, <3>2, ListedSum
    <3>6. Listed(p1 \o p2 \o p3, 16)
      BY <3>5, <3>3, ListedSum
    <3>7. Listed(p1 \o p2 \o p3 \o p4, 28)
      BY <3>6, <3>4, ListedSum
    <3> QED BY <3>7 DEF p1, p2, p3, p4
  <2> HIDE DEF q
  <2>2. Fills(CreateAll(1, 31, q), Have(59, 31, 0, 0), Have(59, 59, 0, 0))
    BY <1>1, <2>1, Calls1
  <2> QED BY <2>2 DEF q
<1> HIDE DEF c1, c2, c3, c4
<1>6. Fills(c1 \o c2, Have(31, 0, 0, 0), Have(59, 31, 0, 0))
  BY <1>2, <1>3, FillsJoin
<1>7. Fills(c1 \o c2 \o c3, Have(31, 0, 0, 0), Have(59, 31, 0, 0))
  BY <1>6, <1>4, FillsJoin
<1>8. Fills(c1 \o c2 \o c3 \o c4, Have(31, 0, 0, 0), Have(59, 59, 0, 0))
  BY <1>7, <1>5, FillsJoin
<1> QED BY <1>8 DEF fac_2s_acdc_bsmp_init_server, c1, c2, c3, c4

LEMMA Fac2p4sAcdcFills ==
    Fills(fac_2p4s_acdc_bsmp_init_server, Have(31, 0, 0, 0), Have(59, 59, 0, 0))
<1>1. fac_2p4s_acdc_bsmp_init_server = fac_2s_acdc_bsmp_init_server
  BY DEF fac_2p4s_acdc_bsmp_init_server, fac_2s_acdc_bsmp_init_server
<1> QED BY <1>1, Fac2sAcdcFills

LEMMA Fac2sDcdcFills ==
    Fills(fac_2s_dcdc_bsmp_init_server, Have(31, 0, 0, 0), Have(69, 0, 0, 0))
<1> DEFINE c1 == CreateAll(0, 31, ModelInterlocks(0)
                     \o C28Signals(7)
                     \o OsVars(1)
                     \o OsVars(2)
                     \o <<Ctom(0, "ps_alarms")>>)
<1>1. {0, 31, 69} \subseteq Counts
  BY DEF Counts
<1>2. Fills(c1, Have(31, 0, 0, 0), Have(69, 0, 0, 0))
  <2> DEFINE q == ModelInterlocks(0)
                     \o C28Signals(7)
                     \o OsVars(1)
                     \o OsVars(2)
                     \o <<Ctom(0, "ps_alarms")>>
  <2>1. Listed(q, 38)
    <3> DEFINE p1 == ModelInterlocks(0)
               p2 == C28Signals(7)
               p3 == OsVars(1)
               p4 == OsVars(2)
               p5 == <<Ctom(0, "ps_alarms")>>
    <3>1. Listed(p1, 2)
      BY ListedInterlocks
    <3>2. Listed(p2, 7)
      BY ListedSignals
    <3>3. Listed(p3, 14)
      BY ListedBoardVars
    <3>4. Listed(p4, 14)
      BY ListedBoardVars
    <3>5. Listed(p5, 1)
      BY ListedOne
    <3> HIDE DEF p1, p2, p3, p4, p5
    <3>6. Listed(p1 \o p2, 9)
      BY <3>1, <3>2, ListedSum
    <3>7. Listed(p1 \o p2 \o p3, 23)
      BY <3>6, <3>3, ListedSum
    <3>8. Listed(p1 \o p2 \o p3 \o p4, 37)
      BY <3>7, <3>4, ListedSum
    <3>9. Listed(p1 \o p2 \o p3 \o p4 \o p5, 38)
      BY <3>8, <3>5, ListedSum
    <3> QED BY <3>9 DEF p1, p2, p3, p4, p5
  <2> HIDE DEF q
  <2>2. Fills(CreateAll(0, 31, q), Have(31, 0, 0, 0), Have(69, 0, 0, 0))
    BY <1>1, <2>1, Calls0
  <2> QED BY <2>2 DEF q
<1> QED BY <1>2 DEF fac_2s_dcdc_bsmp_init_server

LEMMA Fac2p4sDcdcFills ==
    Fills(fac_2p4s_dcdc_bsmp_init_server, Have(31, 0, 0, 0), Have(83, 83, 83, 83))
<1> DEFINE c1 == InitServer(1)
           c2 == InitServer(2)
           c3 == InitServer(3)
           c4 == CreateAll(0, 31, fac_2p4s_dcdc_vars(0))
           c5 == MirrorServer0(1)
           c6 == CreateAll(1, 31, fac_2p4s_dcdc_vars(1))
           c7 == MirrorServer0(2)
           c8 == CreateAll(2, 31, fac_2p4s_dcdc_vars(2))
           c9 == MirrorServer0(3)
           c10 == CreateAll(3, 31, fac_2p4s_dcdc_vars(3))
<1>1. {0, 31, 83} \subseteq Counts
  BY DEF Counts
<1>2. Fills(c1, Have(31, 0, 0, 0), Have(31, 31, 0, 0))
  BY <1>1, Calls1
<1>3. Fills(c2, Have(31, 31, 0, 0), Have(31, 31, 31, 0))
  BY <1>1, Calls2
<1>4. Fills(c3, Have(31, 31, 31, 0), Have(31, 31, 31, 31))
  BY <1>1, Calls3
<1>5. Fills(c4, Have(31, 31, 31, 31), Have(83, 31, 31, 31))
  BY <1>1, ListedFac2p4sDcdc, Calls0
<1>6. Fills(c5, Have(83, 31, 31, 31), Have(83, 31, 31, 31))
  BY <1>1, RedirectsFill
<1>7. Fills(c6, Have(83, 31, 31, 31), Have(83, 83, 31, 31))
  BY <1>1, ListedFac2p4sDcdc, Calls1
<1>8. Fills(c7, Have(83, 83, 31, 31), Have(83, 83, 31, 31))
  BY <1>1, RedirectsFill
<1>9. Fills(c8, Have(83, 83, 31, 31), Have(83, 83, 83, 31))
  BY <1>1, ListedFac2p4sDcdc, Calls2
<1>10. Fills(c9, Have(83, 83, 83, 31), Have(83, 83, 83, 31))
  BY <1>1, RedirectsFill
<1>11. Fills(c10, Have(83, 83, 83, 31), Have(83, 83, 83, 83))
  BY <1>1, ListedFac2p4sDcdc, Calls3
<1> HIDE DEF c1, c2, c3, c4, c5, c6, c7, c8, c9, c10
<1>12. Fills(c1 \o c2, Have(31, 0, 0, 0), Have(31, 31, 31, 0))
  BY <1>2, <1>3, FillsJoin
<1>13. Fills(c1 \o c2 \o c3, Have(31, 0, 0, 0), Have(31, 31, 31, 31))
  BY <1>12, <1>4, FillsJoin
<1>14. Fills(c1 \o c2 \o c3 \o c4, Have(31, 0, 0, 0), Have(83, 31, 31, 31))
  BY <1>13, <1>5, FillsJoin
<1>15. Fills(c1 \o c2 \o c3 \o c4 \o c5, Have(31, 0, 0, 0), Have(83, 31, 31, 31))
  BY <1>14, <1>6, FillsJoin
<1>16. Fills(c1 \o c2 \o c3 \o c4 \o c5 \o c6, Have(31, 0, 0, 0), Have(83, 83, 31, 31))
  BY <1>15, <1>7, FillsJoin
<1>17. Fills(c1 \o c2 \o c3 \o c4 \o c5 \o c6 \o c7, Have(31, 0, 0, 0), Have(83, 83, 31, 31))
  BY <1>16, <1>8, FillsJoin
<1>18. Fills(c1 \o c2 \o c3 \o c4 \o c5 \o c6 \o c7 \o c8, Have(31, 0, 0, 0), Have(83, 83, 83, 31))
  BY <1>17, <1>9, FillsJoin
<1>19. Fills(c1 \o c2 \o c3 \o c4 \o c5 \o c6 \o c7 \o c8 \o c9, Have(31, 0, 0, 0), Have(83, 83, 83, 31))
  BY <1>18, <1>10, FillsJoin
<1>20. Fills(c1 \o c2 \o c3 \o c4 \o c5 \o c6 \o c7 \o c8 \o c9 \o c10, Have(31, 0, 0, 0), Have(83, 83, 83, 83))
  BY <1>19, <1>11, FillsJoin
<1> QED BY <1>20 DEF fac_2p4s_dcdc_bsmp_init_server, c1, c2, c3, c4, c5, c6, c7, c8, c9, c10

LEMMA Fac2pAcdcImasFills ==
    Fills(fac_2p_acdc_imas_bsmp_init_server, Have(31, 0, 0, 0), Have(36, 36, 0, 0))
<1> DEFINE c1 == CreateAll(0, 31, ModelInterlocks(0) \o C28Signals(3))
           c2 == InitServer(1)
           c3 == FollowModule0(1)
           c4 == CreateAll(1, 31, ModelInterlocks(1) \o C28Signals(3))
<1>1. {0, 31, 36} \subseteq Counts
  BY DEF Counts
<1>2. Fills(c1, Have(31, 0, 0, 0), Have(36, 0, 0, 0))
  <2> DEFINE q == ModelInterlocks(0) \o C28Signals(3)
  <2>1. Listed(q, 5)
    <3> DEFINE p1 == ModelInterlocks(0)
               p2 == C28Signals(3)
    <3>1. Listed(p1, 2)
      BY ListedInterlocks
    <3>2. Listed(p2, 3)
      BY ListedSignals
    <3> HIDE DEF p1, p2
    <3>3. Listed(p1 \o p2, 5)
      BY <3>1, <3>2, ListedSum
    <3> QED BY <3>3 DEF p1, p2
  <2> HIDE DEF q
  <2>2. Fills(CreateAll(0, 31, q), Have(31, 0, 0, 0), Have(36, 0, 0, 0))
    BY <1>1, <2>1, Calls0
  <2> QED BY <2>2 DEF q
<1>3. Fills(c2, Have(36, 0, 0, 0), Have(36, 31, 0, 0))
  BY <1>1, Calls1
<1>4. Fills(c3, Have(36, 31, 0, 0), Have(36, 31, 0, 0))
  BY <1>1, RedirectsFill
<1>5. Fills(c4, Have(36, 31, 0, 0), Have(36, 36, 0, 0))
  <2> DEFINE q == ModelInterlocks(1) \o C28Signals(3)
  <2>1. Listed(q, 5)
    <3> DEFINE p1 == ModelInterlocks(1)
               p2 == C28Signals(3)
    <3>1. Listed(p1, 2)
      BY ListedInterlocks
    <3>2. Listed(p2, 3)
      BY ListedSignals
    <3> HIDE DEF p1, p2
    <3>3. Listed(p1 \o p2, 5)
      BY <3>1, <3>2, ListedSum
    <3> QED BY <3>3 DEF p1, p2
  <2> HIDE DEF q
  <2>2. Fills(CreateAll(1, 31, q), Have(36, 31, 0, 0), Have(36, 36, 0, 0))
    BY <1>1, <2>1, Calls1
  <2> QED BY <2>2 DEF q
<1> HIDE DEF c1, c2, c3, c4
<1>6. Fills(c1 \o c2, Have(31, 0, 0, 0), Have(36, 31, 0, 0))
  BY <1>2, <1>3, FillsJoin
<1>7. Fills(c1 \o c2 \o c3, Have(31, 0, 0, 0), Have(36, 31, 0, 0))
  BY <1>6, <1>4, FillsJoin
<1>8. Fills(c1 \o c2 \o c3 \o c4, Have(31, 0, 0, 0), Have(36, 36, 0, 0))
  BY <1>7, <1>5, FillsJoin
<1> QED BY <1>8 DEF fac_2p_acdc_imas_bsmp_init_server, c1, c2, c3, c4

LEMMA Fac2pDcdcImasFills ==
    Fills(fac_2p_dcdc_imas_bsmp_init_server, Have(31, 0, 0, 0), Have(43, 0, 0, 0))
<1> DEFINE c1 == CreateAll(0, 31, ModelInterlocks(0)
                     \o C28Signals(2)
                     \o <<Net(0), Net(1)>>
                     \o [k \in 1 .. 6 |-> C28(2 + k)])
<1>1. {0, 31, 43} \subseteq Counts
  BY DEF Counts
<1>2. Fills(c1, Have(31, 0, 0, 0), Have(43, 0, 0, 0))
  <2> DEFINE q == ModelInterlocks(0)
                     \o C28Signals(2)
                     \o <<Net(0), Net(1)>>
                     \o [k \in 1 .. 6 |-> C28(2 + k)]
  <2>1. Listed(q, 12)
    <3> DEFINE p1 == ModelInterlocks(0)
               p2 == C28Signals(2)
               p3 == <<Net(0), Net(1)>>
               p4 == [k \in 1 .. 6 |-> C28(2 + k)]
    <3>1. Listed(p1, 2)
      BY ListedInterlocks
    <3>2. Listed(p2, 2)
      BY ListedSignals
    <3>3. Listed(p3, 2)
      BY ListedTwo
    <3>4. Listed(p4, 6)
      BY ListedFunction
    <3> HIDE DEF p1, p2, p3, p4
    <3>5. Listed(p1 \o p2, 4)
      BY <3>1, <3>2, ListedSum
    <3>6. Listed(p1 \o p2 \o p3, 6)
      BY <3>5, <3>3, ListedSum
    <3>7. Listed(p1 \o p2 \o p3 \o p4, 12)
      BY <3>6, <3>4, ListedSum
    <3> QED BY <3>7 DEF p1, p2, p3, p4
  <2> HIDE DEF q
  <2>2. Fills(CreateAll(0, 31, q), Have(31, 0, 0, 0), Have(43, 0, 0, 0))
    BY <1>1, <2>1, Calls0
  <2> QED BY <2>2 DEF q
<1> QED BY <1>2 DEF fac_2p_dcdc_imas_bsmp_init_server

LEMMA Fap4pFills ==
    Fills(fap_4p_bsmp_init_server, Have(31, 0, 0, 0), Have(120, 0, 0, 0))
<1> DEFINE c1 == CreateAll(0, 31, ModelInterlocks(0)
                     \o C28Signals(4)
                     \o [k \in 1 .. 12 |-> Net(k - 1)]
                     \o [k \in 1 .. 9 |-> C28(4 + k)]
                     \o <<Iib(1, "GroundLeakage")>>
                     \o FapVars(1)
                     \o FapVars(2)
                     \o FapVars(3)
                     \o FapVars(4)
                     \o <<Ctom(0, "ps_alarms")>>)
<1>1. {0, 31, 120} \subseteq Counts
  BY DEF Counts
<1>2. Fills(c1, Have(31, 0, 0, 0), Have(120, 0, 0, 0))
  <2> DEFINE q == ModelInterlocks(0)
                     \o C28Signals(4)
                     \o [k \in 1 .. 12 |-> Net(k - 1)]
                     \o [k \in 1 .. 9 |-> C28(4 + k)]
                     \o <<Iib(1, "GroundLeakage")>>
                     \o FapVars(1)
                     \o FapVars(2)
                     \o FapVars(3)
                     \o FapVars(4)
                     \o <<Ctom(0, "ps_alarms")>>
  <2>1. Listed(q, 89)
    <3> DEFINE p1 == ModelInterlocks(0)
               p2 == C28Signals(4)
               p3 == [k \in 1 .. 12 |-> Net(k - 1)]
               p4 == [k \in 1 .. 9 |-> C28(4 + k)]
               p5 == <<Iib(1, "GroundLeakage")>>
               p6 == FapVars(1)
               p7 == FapVars(2)
               p8 == FapVars(3)
               p9 == FapVars(4)
               p10 == <<Ctom(0, "ps_alarms")>>
    <3>1. Listed(p1, 2)
      BY ListedInterlocks
    <3>2. Listed(p2, 4)
      BY ListedSignals
    <3>3. Listed(p3, 12)
      BY ListedFunction
    <3>4. Listed(p4, 9)
      BY ListedFunction
    <3>5. Listed(p5, 1)
      BY ListedOne
    <3>6. Listed(p6, 15)
      BY ListedBoardVars
    <3>7. Listed(p7, 15)
      BY ListedBoardVars
    <3>8. Listed(p8, 15)
      BY ListedBoardVars
    <3>9. Listed(p9, 15)
      BY ListedBoardVars
    <3>10. Listed(p10, 1)
      BY ListedOne
    <3> HIDE DEF p1, p2, p3, p4, p5, p6, p7, p8, p9, p10
    <3>11. Listed(p1 \o p2, 6)
      BY <3>1, <3>2, ListedSum
    <3>12. Listed(p1 \o p2 \o p3, 18)
      BY <3>11, <3>3, ListedSum
    <3>13. Listed(p1 \o p2 \o p3 \o p4, 27)
      BY <3>12, <3>4, ListedSum
    <3>14. Listed(p1 \o p2 \o p3 \o p4 \o p5, 28)
      BY <3>13, <3>5, ListedSum
    <3>15. Listed(p1 \o p2 \o p3 \o p4 \o p5 \o p6, 43)
      BY <3>14, <3>6, ListedSum
    <3>16. Listed(p1 \o p2 \o p3 \o p4 \o p5 \o p6 \o p7, 58)
      BY <3>15, <3>7, ListedSum
    <3>17. Listed(p1 \o p2 \o p3 \o p4 \o p5 \o p6 \o p7 \o p8, 73)
      BY <3>16, <3>8, ListedSum
    <3>18. Listed(p1 \o p2 \o p3 \o p4 \o p5 \o p6 \o p7 \o p8 \o p9, 88)
      BY <3>17, <3>9, ListedSum
    <3>19. Listed(p1 \o p2 \o p3 \o p4 \o p5 \o p6 \o p7 \o p8 \o p9 \o p10, 89)
      BY <3>18, <3>10, ListedSum
    <3> QED BY <3>19 DEF p1, p2, p3, p4, p5, p6, p7, p8, p9, p10
  <2> HIDE DEF q
  <2>2. Fills(CreateAll(0, 31, q), Have(31, 0, 0, 0), Have(120, 0, 0, 0))
    BY <1>1, <2>1, Calls0
  <2> QED BY <2>2 DEF q
<1> QED BY <1>2 DEF fap_4p_bsmp_init_server

LEMMA Fap2p2sFills ==
    Fills(fap_2p2s_bsmp_init_server, Have(31, 0, 0, 0), Have(126, 0, 0, 0))
<1> DEFINE c1 == CreateAll(0, 31, ModelInterlocks(0)
                     \o C28Signals(5)
                     \o [k \in 1 .. 8 |-> Net(k - 1)]
                     \o [k \in 1 .. 4 |-> C28(5 + k)]
                     \o [k \in 1 .. 4 |-> Net(7 + k)]
                     \o [k \in 1 .. 10 |-> C28(9 + k)]
                     \o <<Iib(1, "GroundLeakage")>>
                     \o FapVars(1)
                     \o FapVars(2)
                     \o FapVars(3)
                     \o FapVars(4)
                     \o <<Ctom(0, "ps_alarms")>>)
<1>1. {0, 31, 126} \subseteq Counts
  BY DEF Counts
<1>2. Fills(c1, Have(31, 0, 0, 0), Have(126, 0, 0, 0))
  <2> DEFINE q == ModelInterlocks(0)
                     \o C28Signals(5)
                     \o [k \in 1 .. 8 |-> Net(k - 1)]
                     \o [k \in 1 .. 4 |-> C28(5 + k)]
                     \o [k \in 1 .. 4 |-> Net(7 + k)]
                     \o [k \in 1 .. 10 |-> C28(9 + k)]
                     \o <<Iib(1, "GroundLeakage")>>
                     \o FapVars(1)
                     \o FapVars(2)
                     \o FapVars(3)
                     \o FapVars(4)
                     \o <<Ctom(0, "ps_alarms")>>
  <2>1. Listed(q, 95)
    <3> DEFINE p1 == ModelInterlocks(0)
               p2 == C28Signals(5)
               p3 == [k \in 1 .. 8 |-> Net(k - 1)]
               p4 == [k \in 1 .. 4 |-> C28(5 + k)]
               p5 == [k \in 1 .. 4 |-> Net(7 + k)]
               p6 == [k \in 1 .. 10 |-> C28(9 + k)]
               p7 == <<Iib(1, "GroundLeakage")>>
               p8 == FapVars(1)
               p9 == FapVars(2)
               p10 == FapVars(3)
               p11 == FapVars(4)
               p12 == <<Ctom(0, "ps_alarms")>>
    <3>1. Listed(p1, 2)
      BY ListedInterlocks
    <3>2. Listed(p2, 5)
      BY ListedSignals
    <3>3. Listed(p3, 8)
      BY ListedFunction
    <3>4. Listed(p4, 4)
      BY ListedFunction
    <3>5. Listed(p5, 4)
      BY ListedFunction
    <3>6. Listed(p6, 10)
      BY ListedFunction
    <3>7. Listed(p7, 1)
      BY ListedOne
    <3>8. Listed(p8, 15)
      BY ListedBoardVars
    <3>9. Listed(p9, 15)
      BY ListedBoardVars
    <3>10. Listed(p10, 15)
      BY ListedBoardVars
    <3>11. Listed(p11, 15)
      BY ListedBoardVars
    <3>12. Listed(p12, 1)
      BY ListedOne
    <3> HIDE DEF p1, p2, p3, p4, p5, p6, p7, p8, p9, p10, p11, p12
    <3>13. Listed(p1 \o p2, 7)
      BY <3>1, <3>2, ListedSum
    <3>14. Listed(p1 \o p2 \o p3, 15)
      BY <3>13, <3>3, ListedSum
    <3>15. Listed(p1 \o p2 \o p3 \o p4, 19)
      BY <3>14, <3>4, ListedSum
    <3>16. Listed(p1 \o p2 \o p3 \o p4 \o p5, 23)
      BY <3>15, <3>5, ListedSum
    <3>17. Listed(p1 \o p2 \o p3 \o p4 \o p5 \o p6, 33)
      BY <3>16, <3>6, ListedSum
    <3>18. Listed(p1 \o p2 \o p3 \o p4 \o p5 \o p6 \o p7, 34)
      BY <3>17, <3>7, ListedSum
    <3>19. Listed(p1 \o p2 \o p3 \o p4 \o p5 \o p6 \o p7 \o p8, 49)
      BY <3>18, <3>8, ListedSum
    <3>20. Listed(p1 \o p2 \o p3 \o p4 \o p5 \o p6 \o p7 \o p8 \o p9, 64)
      BY <3>19, <3>9, ListedSum
    <3>21. Listed(p1 \o p2 \o p3 \o p4 \o p5 \o p6 \o p7 \o p8 \o p9 \o p10, 79)
      BY <3>20, <3>10, ListedSum
    <3>22. Listed(p1 \o p2 \o p3 \o p4 \o p5 \o p6 \o p7 \o p8 \o p9 \o p10 \o p11, 94)
      BY <3>21, <3>11, ListedSum
    <3>23. Listed(p1 \o p2 \o p3 \o p4 \o p5 \o p6 \o p7 \o p8 \o p9 \o p10 \o p11 \o p12, 95)
      BY <3>22, <3>12, ListedSum
    <3> QED BY <3>23 DEF p1, p2, p3, p4, p5, p6, p7, p8, p9, p10, p11, p12
  <2> HIDE DEF q
  <2>2. Fills(CreateAll(0, 31, q), Have(31, 0, 0, 0), Have(126, 0, 0, 0))
    BY <1>1, <2>1, Calls0
  <2> QED BY <2>2 DEF q
<1> QED BY <1>2 DEF fap_2p2s_bsmp_init_server

\* Every model's table registers what it names, in turn.
LEMMA TableFills ==
    \A m \in AllModels : \E b : Fills(SystemConfig[m].server, Have(31, 0, 0, 0), b)
<1> DEFINE Full(m) == \E b : Fills(SystemConfig[m].server, Have(31, 0, 0, 0), b)
<1>1. Full("FBP")
  <2>1. SystemConfig["FBP"].server = fbp_bsmp_init_server
    BY DEF SystemConfig, fbp_system_config, Config
  <2> QED BY <2>1, FbpFills
<1>2. Full("FBP_DCLink")
  <2>1. SystemConfig["FBP_DCLink"].server = fbp_dclink_bsmp_init_server
    BY DEF SystemConfig, fbp_dclink_system_config, Config
  <2> QED BY <2>1, FbpDclinkFills
<1>3. Full("FAC_ACDC")
  <2>1. SystemConfig["FAC_ACDC"].server = fac_acdc_bsmp_init_server
    BY DEF SystemConfig, fac_acdc_system_config, Config
  <2> QED BY <2>1, FacAcdcFills
<1>4. Full("FAC_DCDC")
  <2>1. SystemConfig["FAC_DCDC"].server = fac_dcdc_bsmp_init_server
    BY DEF SystemConfig, fac_dcdc_system_config, Config
  <2> QED BY <2>1, FacDcdcFills
<1>5. Full("FAC_DCDC_EMA")
  <2>1. SystemConfig["FAC_DCDC_EMA"].server = fac_dcdc_ema_bsmp_init_server
    BY DEF SystemConfig, fac_dcdc_ema_system_config, Config
  <2> QED BY <2>1, FacDcdcEmaFills
<1>6. Full("FAP")
  <2>1. SystemConfig["FAP"].server = fap_bsmp_init_server
    BY DEF SystemConfig, fap_system_config, Config
  <2> QED BY <2>1, FapFills
<1>7. Full("FAC_2S_ACDC")
  <2>1. SystemConfig["FAC_2S_ACDC"].server = fac_2s_acdc_bsmp_init_server
    BY DEF SystemConfig, fac_2s_acdc_system_config, Config
  <2> QED BY <2>1, Fac2sAcdcFills
<1>8. Full("FAC_2P4S_ACDC")
  <2>1. SystemConfig["FAC_2P4S_ACDC"].server = fac_2p4s_acdc_bsmp_init_server
    BY DEF SystemConfig, fac_2p4s_acdc_system_config, Config
  <2> QED BY <2>1, Fac2p4sAcdcFills
<1>9. Full("FAC_2S_DCDC")
  <2>1. SystemConfig["FAC_2S_DCDC"].server = fac_2s_dcdc_bsmp_init_server
    BY DEF SystemConfig, fac_2s_dcdc_system_config, Config
  <2> QED BY <2>1, Fac2sDcdcFills
<1>10. Full("FAC_2P4S_DCDC")
  <2>1. SystemConfig["FAC_2P4S_DCDC"].server = fac_2p4s_dcdc_bsmp_init_server
    BY DEF SystemConfig, fac_2p4s_dcdc_system_config, Config
  <2> QED BY <2>1, Fac2p4sDcdcFills
<1>11. Full("FAC_2P_ACDC_IMAS")
  <2>1. SystemConfig["FAC_2P_ACDC_IMAS"].server = fac_2p_acdc_imas_bsmp_init_server
    BY DEF SystemConfig, fac_2p_acdc_imas_system_config, Config
  <2> QED BY <2>1, Fac2pAcdcImasFills
<1>12. Full("FAC_2P_DCDC_IMAS")
  <2>1. SystemConfig["FAC_2P_DCDC_IMAS"].server = fac_2p_dcdc_imas_bsmp_init_server
    BY DEF SystemConfig, fac_2p_dcdc_imas_system_config, Config
  <2> QED BY <2>1, Fac2pDcdcImasFills
<1>13. Full("FAP_4P")
  <2>1. SystemConfig["FAP_4P"].server = fap_4p_bsmp_init_server
    BY DEF SystemConfig, fap_4p_system_config, Config
  <2> QED BY <2>1, Fap4pFills
<1>14. Full("FAP_2P2S")
  <2>1. SystemConfig["FAP_2P2S"].server = fap_2p2s_bsmp_init_server
    BY DEF SystemConfig, fap_2p2s_system_config, Config
  <2> QED BY <2>1, Fap2p2sFills
<1>15. Full("Uninitialized")
  <2>1. SystemConfig["Uninitialized"].server = <<>>
    BY DEF SystemConfig, Config
  <2>2. Fills(<<>>, Have(31, 0, 0, 0), Have(31, 0, 0, 0))
    BY FillsNothing
  <2> QED BY <2>1, <2>2
<1> HIDE DEF Full
<1>16. AllModels = {"FBP", "FBP_DCLink", "FAC_ACDC", "FAC_DCDC", "FAC_DCDC_EMA", "FAP", "FAC_2S_ACDC", "FAC_2P4S_ACDC", "FAC_2S_DCDC", "FAC_2P4S_DCDC", "FAC_2P_ACDC_IMAS", "FAC_2P_DCDC_IMAS", "FAP_4P", "FAP_2P2S", "Uninitialized"}
  BY DEF AllModels, SystemConfig
<1>17. \A m \in AllModels : Full(m)
  BY <1>1, <1>2, <1>3, <1>4, <1>5, <1>6, <1>7, <1>8, <1>9, <1>10, <1>11, <1>12, <1>13, <1>14,
     <1>15, <1>16
<1> QED BY <1>17 DEF Full
=============================================================================
