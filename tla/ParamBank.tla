----------------------------- MODULE ParamBank -----------------------------
(***************************************************************************)
(* The parameter bank (parameters/ps_parameters.c), the coefficients of    *)
(* the DSP modules (i2c_onboard/eeprom.c, control/control.c), their copies *)
(* in two EEPROMs, the BSMP functions that move them (bsmp_lib.c), and the *)
(* boot that takes them back (init_parameters_bank, the switch of main).   *)
(*                                                                         *)
(* An item is an element of a parameter or the coefficients of a module;   *)
(* it is a sequence of bytes at an address.  A step is one transaction on  *)
(* an I2C bus, so that the power may fail between two of them.  The code   *)
(* for the two EEPROMs differs in the bus and in the table of addresses    *)
(* only, and is one definition with the memory as parameter.               *)
(***************************************************************************)
EXTENDS Naturals, Sequences, FiniteSets, SequencesExt, PsModels

CONSTANTS
    Ids,            \* the parameters of this instance
    MaxElements,    \* bound: elements taken of each
    Classes,        \* the DSP classes of this instance
    MaxModules,     \* bound: modules taken of each
    Inputs,         \* values a host sets
    ModelInputs,    \* values a host sets PS_Model to
    Factory,        \* models in the EEPROMs before the first boot
    PackedEnums,    \* does the compiler give an enum of four values one byte?
    MaxCalls,       \* bound: commands
    MaxRestarts     \* bound: power failures

----------------------------------------------------------------------------
(* The tables.                                                             *)

param_id_t == <<
    "PS_Name", "PS_Model", "Num_PS_Modules", "Command_Interface",
    "RS485_Baudrate", "RS485_Address", "RS485_Termination", "UDCNet_Address",
    "Ethernet_IP", "Ethernet_Subnet_Mask", "Buzzer_Volume",
    "Freq_ISR_Controller", "Freq_TimeSlicer", "Control_Loop_State", "Max_Ref",
    "Min_Ref", "Max_Ref_OpenLoop", "Min_Ref_OpenLoop", "PWM_Freq",
    "PWM_DeadTime", "PWM_Max_Duty", "PWM_Min_Duty", "PWM_Max_Duty_OpenLoop",
    "PWM_Min_Duty_OpenLoop", "PWM_Lim_Duty_Share", "HRADC_Num_Boards",
    "HRADC_Freq_SPICLK", "HRADC_Freq_Sampling", "HRADC_Enable_Heater",
    "HRADC_Enable_Monitor", "HRADC_Type_Transducer", "HRADC_Gain_Transducer",
    "HRADC_Offset_Transducer", "SigGen_Type", "SigGen_Num_Cycles",
    "SigGen_Freq", "SigGen_Amplitude", "SigGen_Offset", "SigGen_Aux_Param",
    "WfmRef_Selected", "WfmRef_SyncMode", "WfmRef_Frequency", "WfmRef_Gain",
    "WfmRef_Offset", "Analog_Var_Max", "Analog_Var_Min",
    "Hard_Interlocks_Debounce_Time", "Hard_Interlocks_Reset_Time",
    "Soft_Interlocks_Debounce_Time", "Soft_Interlocks_Reset_Time",
    "Scope_Sampling_Frequency", "Scope_Source">>

\* The parameters the loops over the bank leave out (62 and 63).
OnlyOnboard == {"Password", "Enable_Onboard_EEPROM"}

param_addresses_onboard_eeprom == [
    PS_Name |-> \h0, PS_Model |-> \h40, Num_PS_Modules |-> \h42,
    RS485_Baudrate |-> \h44, RS485_Address |-> \h48, RS485_Termination |-> \h50,
    UDCNet_Address |-> \h52, Ethernet_IP |-> \h54, Ethernet_Subnet_Mask |-> \h58,
    Command_Interface |-> \h5C, Buzzer_Volume |-> \h5E,
    Freq_ISR_Controller |-> \h80, Freq_TimeSlicer |-> \h84,
    Control_Loop_State |-> \h94, Max_Ref |-> \hA0, Min_Ref |-> \hB0,
    Max_Ref_OpenLoop |-> \hC0, Min_Ref_OpenLoop |-> \hD0,
    PWM_Freq |-> \hE0, PWM_DeadTime |-> \hE4, PWM_Max_Duty |-> \hE8,
    PWM_Min_Duty |-> \hEC, PWM_Max_Duty_OpenLoop |-> \hF0,
    PWM_Min_Duty_OpenLoop |-> \hF4, PWM_Lim_Duty_Share |-> \hF8,
    HRADC_Num_Boards |-> \h100, HRADC_Freq_SPICLK |-> \h102,
    HRADC_Freq_Sampling |-> \h104, HRADC_Enable_Heater |-> \h108,
    HRADC_Enable_Monitor |-> \h110, HRADC_Type_Transducer |-> \h118,
    HRADC_Gain_Transducer |-> \h120, HRADC_Offset_Transducer |-> \h130,
    SigGen_Type |-> \h140, SigGen_Num_Cycles |-> \h142, SigGen_Freq |-> \h144,
    SigGen_Amplitude |-> \h148, SigGen_Offset |-> \h14C, SigGen_Aux_Param |-> \h150,
    WfmRef_Selected |-> \h1C0, WfmRef_SyncMode |-> \h1C8,
    WfmRef_Frequency |-> \h1D0, WfmRef_Gain |-> \h1E0, WfmRef_Offset |-> \h1F0,
    Analog_Var_Max |-> \h200, Analog_Var_Min |-> \h300,
    Hard_Interlocks_Debounce_Time |-> \h400, Hard_Interlocks_Reset_Time |-> \h480,
    Soft_Interlocks_Debounce_Time |-> \h500, Soft_Interlocks_Reset_Time |-> \h580,
    Scope_Sampling_Frequency |-> \h740, Scope_Source |-> \h750,
    Password |-> \h1FFD, Enable_Onboard_EEPROM |-> \h1FFF]

\* The initialiser of the second table stops before the last two: zero.
param_addresses_offboard_eeprom ==
    [param_addresses_onboard_eeprom EXCEPT !.Password = 0, !.Enable_Onboard_EEPROM = 0]

\* size_type and num_elements.
U8(n) == [size |-> 1, elements |-> n]
U16(n) == [size |-> 2, elements |-> n]
U32(n) == [size |-> 4, elements |-> n]
Float(n) == [size |-> 4, elements |-> n]

init_param_bank_info == [
    PS_Name |-> U8(64), PS_Model |-> U16(1), Num_PS_Modules |-> U16(1),
    Command_Interface |-> U16(1), RS485_Baudrate |-> Float(1),
    RS485_Address |-> U16(4), RS485_Termination |-> U16(1),
    UDCNet_Address |-> U16(1), Ethernet_IP |-> U8(4),
    Ethernet_Subnet_Mask |-> U8(4), Buzzer_Volume |-> U16(2),
    Freq_ISR_Controller |-> Float(1), Freq_TimeSlicer |-> Float(4),
    Control_Loop_State |-> U16(1), Max_Ref |-> Float(4), Min_Ref |-> Float(4),
    Max_Ref_OpenLoop |-> Float(4), Min_Ref_OpenLoop |-> Float(4),
    PWM_Freq |-> Float(1), PWM_DeadTime |-> Float(1), PWM_Max_Duty |-> Float(1),
    PWM_Min_Duty |-> Float(1), PWM_Max_Duty_OpenLoop |-> Float(1),
    PWM_Min_Duty_OpenLoop |-> Float(1), PWM_Lim_Duty_Share |-> Float(1),
    HRADC_Num_Boards |-> U16(1), HRADC_Freq_SPICLK |-> U16(1),
    HRADC_Freq_Sampling |-> Float(1), HRADC_Enable_Heater |-> U16(4),
    HRADC_Enable_Monitor |-> U16(4), HRADC_Type_Transducer |-> U16(4),
    HRADC_Gain_Transducer |-> Float(4), HRADC_Offset_Transducer |-> Float(4),
    SigGen_Type |-> U16(1), SigGen_Num_Cycles |-> U16(1), SigGen_Freq |-> Float(1),
    SigGen_Amplitude |-> Float(1), SigGen_Offset |-> Float(1),
    SigGen_Aux_Param |-> Float(4), WfmRef_Selected |-> U16(4),
    WfmRef_SyncMode |-> U16(4), WfmRef_Frequency |-> Float(4),
    WfmRef_Gain |-> Float(4), WfmRef_Offset |-> Float(4),
    Analog_Var_Max |-> Float(64), Analog_Var_Min |-> Float(64),
    Hard_Interlocks_Debounce_Time |-> U32(32), Hard_Interlocks_Reset_Time |-> U32(32),
    Soft_Interlocks_Debounce_Time |-> U32(32), Soft_Interlocks_Reset_Time |-> U32(32),
    Scope_Sampling_Frequency |-> Float(4), Scope_Source |-> Float(4)]

\* init_parameters_bank adds the two that are on board only.
param_info(id) ==
    CASE id = "Password" -> U16(1)
      [] id = "Enable_Onboard_EEPROM" -> U8(1)
      [] OTHER -> init_param_bank_info[id]

\* DSP_Error and DSP_Vect_Product are saved and loaded by no code: their loops
\* over the modules end at `default'.
dsp_class_t == <<"SRLim", "LPF", "PI", "IIR_2P2Z", "IIR_3P3Z", "FF">>

dsp_modules_eeprom_add == [SRLim |-> \hC00, LPF |-> \hC20, PI |-> \hC40,
    IIR_2P2Z |-> \hCE0, IIR_3P3Z |-> \hDE0, FF |-> \hEE0]

num_coeffs_dsp_module == [SRLim |-> 1, LPF |-> 1, PI |-> 4, IIR_2P2Z |-> 8,
    IIR_3P3Z |-> 16, FF |-> 2]

num_dsp_modules == [SRLim |-> 4, LPF |-> 4, PI |-> 6, IIR_2P2Z |-> 8,
    IIR_3P3Z |-> 4, FF |-> 2]

\* The coefficients cfg_dsp_* sets; the rest of the array is unused.
UsedCoeffs == [SRLim |-> 1, LPF |-> 1, PI |-> 4, IIR_2P2Z |-> 7,
    IIR_3P3Z |-> 9, FF |-> 2]

ASSUME ParamAssumption ==
    /\ Ids \subseteq DOMAIN param_addresses_onboard_eeprom
    /\ {"PS_Model", "RS485_Termination"} \cup OnlyOnboard \subseteq Ids
    /\ Classes \subseteq DOMAIN num_dsp_modules
    /\ MaxElements \in 1 .. 4 /\ MaxModules \in Nat
    /\ PackedEnums \in BOOLEAN
    /\ Inputs \subseteq Nat /\ ModelInputs \subseteq Nat /\ Factory \subseteq Nat

----------------------------------------------------------------------------
(* Items.                                                                  *)

Memories == {"Offboard", "Onboard"}

\* The values of type_memory, a wrong one included.
TypeMemory == Memories \cup {"Default", "other"}

num_elements(id) ==
    IF param_info(id).elements < MaxElements THEN param_info(id).elements ELSE MaxElements

num_modules(c) == IF num_dsp_modules[c] < MaxModules THEN num_dsp_modules[c] ELSE MaxModules

Element(id, n) == <<"param", id, n>>
Module(c, k) == <<"dsp", c, k>>

ElementsOf(id) == {Element(id, n) : n \in 0 .. num_elements(id) - 1}
Elements == UNION {ElementsOf(id) : id \in Ids}
Modules == UNION {{Module(c, k) : k \in 0 .. num_modules(c) - 1} : c \in Classes}
Items == Elements \cup Modules

SizeOf(i) == IF i[1] = "param" THEN param_info(i[2]).size
                               ELSE 4 * num_coeffs_dsp_module[i[2]]

\* The bytes of an item that mean something.
UsedBytes(i) == IF i[1] = "param" THEN SizeOf(i) ELSE 4 * UsedCoeffs[i[2]]

param_addresses(m) == IF m = "Offboard" THEN param_addresses_offboard_eeprom
                                        ELSE param_addresses_onboard_eeprom

AddressUnscaled(m, i) == \* mutant: the index is not multiplied by size_type
    IF i[1] = "param" THEN param_addresses(m)[i[2]] + i[3]
                      ELSE dsp_modules_eeprom_add[i[2]] + SizeOf(i) * i[3]

Address(m, i) ==
    IF i[1] = "param" THEN param_addresses(m)[i[2]] + SizeOf(i) * i[3]
                      ELSE dsp_modules_eeprom_add[i[2]] + SizeOf(i) * i[3]

\* The second element of Buzzer_Volume is what follows buzzer_volume in its
\* struct: command_interface, if that needs no alignment.
Cell(i) == IF PackedEnums /\ i = Element("Buzzer_Volume", 1)
           THEN Element("Command_Interface", 0) ELSE i

Cells == {Cell(i) : i \in Items}

\* Numbers are stored with the low byte first.
Bytes(v, size) == [k \in 1 .. size |-> (v \div <<1, 256, 65536, 16777216>>[k]) % 256]
Number(bytes) == bytes[1] + (IF Len(bytes) > 1 THEN 256 * bytes[2] ELSE 0)

\* Coefficients a host may send: every byte of a module is different.
Pattern(v, size) == [k \in 1 .. size |-> (v + k) % 256]

----------------------------------------------------------------------------
(* An EEPROM: pages of 32 bytes; a write wraps inside its page, a read     *)
(* does not.  One that is not there reads as ones.                         *)

PageSize == 32

UsedAddresses == UNION {UNION {Address(m, i) .. Address(m, i) + SizeOf(i) - 1 :
                                    i \in Items} : m \in Memories}

Written(eeprom, a, bytes) ==
    [x \in DOMAIN eeprom |->
        LET k == (x + PageSize - (a % PageSize)) % PageSize
        IN IF x \div PageSize = a \div PageSize /\ k < Len(bytes)
           THEN bytes[k + 1] ELSE eeprom[x]]

Blank == 255

read_i2c(eeprom, there, a, size) ==
    [k \in 1 .. size |-> IF there /\ a + k - 1 \in DOMAIN eeprom
                         THEN eeprom[a + k - 1] ELSE Blank]

TransfersWhole(i) == \* mutant: the second page is as long as the module
    IF SizeOf(i) > PageSize
    THEN <<[item |-> i, from |-> 0, len |-> PageSize],
           [item |-> i, from |-> PageSize, len |-> SizeOf(i)]>>
    ELSE <<[item |-> i, from |-> 0, len |-> SizeOf(i)]>>

\* The transactions for an item: bytes from + 1 .. from + len of it.
Transfers(i) ==
    IF SizeOf(i) > PageSize
    THEN <<[item |-> i, from |-> 0, len |-> PageSize],
           [item |-> i, from |-> PageSize, len |-> SizeOf(i) - PageSize]>>
    ELSE <<[item |-> i, from |-> 0, len |-> SizeOf(i)]>>

AllTransfers(items) == FlattenSeq([k \in DOMAIN items |-> Transfers(items[k])])

\* The loops over the bank and over the modules, in their order.
BankItems ==
    FlattenSeq([k \in DOMAIN param_id_t |->
        IF param_id_t[k] \in Ids
        THEN [n \in 1 .. num_elements(param_id_t[k]) |-> Element(param_id_t[k], n - 1)]
        ELSE <<>>])

DspItems ==
    FlattenSeq([k \in DOMAIN dsp_class_t |->
        IF dsp_class_t[k] \in Classes
        THEN [n \in 1 .. num_modules(dsp_class_t[k]) |-> Module(dsp_class_t[k], n - 1)]
        ELSE <<>>])

\* data_eeprom is two bytes short for a module of 64: its last two bytes lie
\* in what follows the buffer (ulLoop counts to 100000 there in between).
Sent(t, bytes) ==
    LET part == SubSeq(bytes, t.from + 1, t.from + t.len)
    IN IF t.from + t.len > 62
       THEN {part, [part EXCEPT ![t.len - 1] = 160, ![t.len] = 134]}
       ELSE {part}

----------------------------------------------------------------------------
(* Registration of the variables of the servers by the model's tables.     *)

BSMP_MAX_VARIABLES == 128

(* Calls for consecutive identifiers: the one whose identifier is the      *)
(* number of variables so far registers its variable, and those after it   *)
(* while there is room; the others are dropped without a trace.            *)
CreateUpTo(limit, vars, first, sources) ==
    LET room == IF first + Len(sources) <= limit THEN Len(sources)
                ELSE IF first <= limit THEN limit - first ELSE 0
    IN IF first > Len(vars) THEN vars
       ELSE vars \o SubSeq(sources, Len(vars) - first + 1, room)

\* Mutant: room for 64 variables.
create_bsmp_var_64(vars, first, sources) == CreateUpTo(64, vars, first, sources)

create_bsmp_var(vars, first, sources) ==
    CreateUpTo(BSMP_MAX_VARIABLES, vars, first, sources)

\* The data of a variable that is not registered yet is set when it is.
modify_bsmp_var(vars, first, sources) ==
    [k \in DOMAIN vars |-> IF k - first \in DOMAIN sources THEN sources[k - first]
                                                           ELSE vars[k]]

bsmp_init(server) == create_bsmp_var(<<>>, 0, CommonVars(server))

Configured(table) ==
    LET Loop[k \in 0 .. Len(table)] ==
            IF k = 0 THEN [s \in Servers |-> IF s = 0 THEN bsmp_init(0) ELSE <<>>]
            ELSE LET before == Loop[k - 1]
                     c == table[k]
                 IN [before EXCEPT ![c.server] =
                        CASE c.op = "init" -> bsmp_init(c.server)
                          [] c.op = "create" -> create_bsmp_var(@, c.first, c.sources)
                          [] c.op = "modify" -> modify_bsmp_var(@, c.first, c.sources)]
    IN Loop[Len(table)]

\* ps_model_t; the numbers without a model (0, FAP_IMAS and those above) run
\* through the switch of main as Uninitialized does.
ps_model_t == <<"FBP", "FBP_DCLink", "FAC_ACDC", "FAC_DCDC", "FAC_2S_ACDC",
    "FAC_2S_DCDC", "FAC_2P4S_ACDC", "FAC_2P4S_DCDC", "FAP", "FAP_4P",
    "FAC_DCDC_EMA", "FAP_2P2S", "Uninitialized", "FAC_2P_ACDC_IMAS",
    "FAC_2P_DCDC_IMAS">>

Uninitialized == 31

ModelTable(number) ==
    SystemConfig[IF number \in DOMAIN ps_model_t THEN ps_model_t[number]
                                                 ELSE "Uninitialized"].server

ConfiguredServers == [number \in 0 .. 100 |-> Configured(ModelTable(number))]

----------------------------------------------------------------------------
VARIABLES
    present,    \* which EEPROMs are there
    eeprom,     \* their bytes
    ram,        \* g_param_bank and the coefficients of g_controller_mtoc
    servers,    \* the sources of the variables of the four BSMP servers
    phase,      \* where the firmware is
    at,         \* the memory the transactions go to
    todo,       \* the transactions still to be made
    answer,     \* the answer of the command in execution, or of the last one
    fresh,      \* no command has run since the boot
    kept,       \* history: what was last written of each item
    misplaced,  \* history: an item of OnlyOnboard was saved off-board
    calls, restarts

vars == <<present, eeprom, ram, servers, phase, at, todo, answer, fresh, kept,
          misplaced, calls, restarts>>

Zero(i) == [k \in 1 .. SizeOf(i) |-> 0]

PS_MODEL == Number(ram[Element("PS_Model", 0)])

Loads(items) == todo' = AllTransfers(items)

\* The parameters of which init_parameters_bank knows only the on-board copy.
SpecialItems == <<Element("Password", 0), Element("Enable_Onboard_EEPROM", 0)>>

\* Power-on, or SysCtlReset: init_param clears the bank; the coefficients are
\* in a memory nobody clears.
Boot ==
    /\ phase' = "special" /\ at' = "Onboard" /\ Loads(SpecialItems)
    /\ \E cleared \in BOOLEAN :
          ram' = [i \in Cells |-> IF i \in Modules /\ ~cleared THEN ram[i] ELSE Zero(i)]
    /\ servers' = [s \in Servers |-> <<>>]
    /\ fresh' = FALSE
    /\ UNCHANGED <<present, eeprom, kept, misplaced>>

\* One read transaction.
Load ==
    /\ todo # <<>> /\ phase # "save"
    /\ LET t == Head(todo)
           c == Cell(t.item)
           read == read_i2c(eeprom[at], present[at], Address(at, t.item) + t.from, t.len)
       IN ram' = [ram EXCEPT ![c] =
                    [k \in DOMAIN @ |-> IF k > t.from /\ k <= t.from + t.len
                                        THEN read[k - t.from] ELSE @[k]]]
    /\ todo' = Tail(todo)
    /\ UNCHANGED <<present, eeprom, servers, phase, at, answer, fresh, kept,
                   misplaced, calls, restarts>>

\* The transaction of a save, from the item in memory to that in RAM.
SaveTo(rest) ==
    /\ todo # <<>> /\ phase = "save"
    /\ LET t == Head(todo)
       IN \E bytes \in Sent(t, ram[Cell(t.item)]) :
            IF present[at]
            THEN /\ eeprom' = [eeprom EXCEPT ![at] =
                                  Written(@, Address(at, t.item) + t.from, bytes)]
                 /\ kept' = [kept EXCEPT ![at][t.item] =
                                [k \in DOMAIN @ |-> IF k > t.from /\ k <= t.from + t.len
                                                    THEN bytes[k - t.from] ELSE @[k]]]
                 /\ misplaced' = (misplaced \/ (at = "Offboard" /\ t.item[2] \in OnlyOnboard))
            ELSE UNCHANGED <<eeprom, kept, misplaced>>
    /\ todo' = rest
    /\ UNCHANGED <<present, ram, servers, phase, at, answer, fresh, calls, restarts>>

SaveAgain == SaveTo(todo) \* mutant: the loop does not advance

Save == SaveTo(Tail(todo))

----------------------------------------------------------------------------
(* init_parameters_bank and the rest of the boot.                          *)

check_param_bank == ~(PS_MODEL > 100)

default_ps_name == <<73, 110, 105, 116>>

\* The values load_param_bank_default sets; the rest of the bank stays as the
\* memory that failed the check has left it.
DefaultValues == [
    PS_Name |-> default_ps_name, PS_Model |-> <<Uninitialized>>,
    Num_PS_Modules |-> <<1>>, Command_Interface |-> <<0>>,
    RS485_Baudrate |-> <<\h47E10000>>, RS485_Address |-> <<1, 30, 30, 30>>,
    RS485_Termination |-> <<1>>, Ethernet_IP |-> <<10, 0, 25, 43>>,
    Ethernet_Subnet_Mask |-> <<255, 255, 255, 0>>, Buzzer_Volume |-> <<1>>]

load_param_bank_default ==
    [i \in Cells |->
        IF i[1] = "param" /\ i[2] \in DOMAIN DefaultValues
           /\ i[3] < Len(DefaultValues[i[2]])
        THEN Bytes(DefaultValues[i[2]][i[3] + 1], SizeOf(i)) ELSE ram[i]]

\* The answer a call left behind has no meaning after a restart.
BootStep(next) ==
    /\ todo = <<>> /\ phase' = next
    /\ UNCHANGED <<present, eeprom, servers, answer, fresh, kept, misplaced,
                   calls, restarts>>

load_param_bank_offboard_eeprom ==
    /\ phase = "special" /\ BootStep("offboard")
    /\ at' = "Offboard" /\ Loads(BankItems) /\ UNCHANGED ram

load_param_bank_onboard_eeprom ==
    /\ phase = "offboard" /\ ~check_param_bank
    /\ ram[Element("Enable_Onboard_EEPROM", 0)] = <<0>>
    /\ BootStep("onboard")
    /\ at' = "Onboard" /\ Loads(BankItems) /\ UNCHANGED ram

\* Mutant: the coefficients always come from the off-board memory.
load_dsp_modules_offboard ==
    /\ phase \in {"offboard", "onboard"} /\ check_param_bank
    /\ BootStep("dsp") /\ Loads(DspItems) /\ at' = "Offboard" /\ UNCHANGED ram

load_dsp_modules_eeprom ==
    /\ phase \in {"offboard", "onboard"} /\ check_param_bank
    /\ BootStep("dsp") /\ Loads(DspItems) /\ UNCHANGED <<at, ram>>

DefaultBank ==
    /\ \/ /\ phase = "offboard" /\ ~check_param_bank
          /\ ram[Element("Enable_Onboard_EEPROM", 0)] # <<0>>
       \/ phase = "onboard" /\ ~check_param_bank
    /\ BootStep("dsp") /\ ram' = load_param_bank_default /\ UNCHANGED <<at, todo>>

\* The rest of init_system, the switch of main, and interrupts are enabled.
Configure ==
    /\ phase = "dsp" /\ todo = <<>>
    /\ servers' = ConfiguredServers[PS_MODEL]
    /\ phase' = "run" /\ fresh' = TRUE
    /\ UNCHANGED <<present, eeprom, ram, at, todo, answer, kept, misplaced,
                   calls, restarts>>

----------------------------------------------------------------------------
(* The BSMP functions.                                                     *)

Call ==
    /\ phase = "run" /\ calls < MaxCalls /\ calls' = calls + 1
    /\ fresh' = FALSE
    /\ UNCHANGED <<present, eeprom, servers, kept, misplaced, restarts>>

\* The call ends at once.
Answer(a) == answer' = a /\ UNCHANGED <<phase, at, todo>>

\* The call goes on with transactions.
Transact(kind, m, items, a) ==
    phase' = kind /\ at' = m /\ todo' = AllTransfers(items) /\ answer' = a

\* Every function below but get_param refuses while the supply is locked, unless
\* its comment says otherwise.
Locked == Call /\ Answer("PS_Locked") /\ UNCHANGED ram

\* Indices a host may give: one past the last included.
Indices(id) == 0 .. num_elements(id)

InputsOf(id) == IF id = "PS_Model" THEN ModelInputs ELSE Inputs

bsmp_set_param ==
    /\ Call
    /\ \E id \in Ids : \E n \in Indices(id), v \in InputsOf(id) :
          IF n < num_elements(id)
          THEN /\ ram' = [ram EXCEPT ![Cell(Element(id, n))] = Bytes(v, SizeOf(Element(id, n)))]
               /\ Answer("Ok")
          ELSE Answer("Invalid_Command") /\ UNCHANGED ram

bsmp_get_param ==
    /\ Call /\ UNCHANGED ram
    /\ \E id \in Ids : \E n \in Indices(id) :
          Answer(IF n < num_elements(id) THEN "value" ELSE "Invalid_Command")

\* Neither refused while locked nor checked.
bsmp_set_serial_termination ==
    /\ Call
    /\ \E v \in Inputs :
          ram' = [ram EXCEPT ![Element("RS485_Termination", 0)] = Bytes(v, 2)]
    /\ Answer("Ok")

bsmp_save_param_eeprom ==
    /\ Call /\ UNCHANGED ram
    /\ \E id \in Ids, m \in TypeMemory : \E n \in Indices(id) :
          IF m \in Memories /\ n < num_elements(id)
          THEN Transact("save", m, <<Element(id, n)>>, "Ok")
          ELSE Answer("Invalid_Command")

bsmp_load_param_eeprom ==
    /\ Call /\ UNCHANGED ram
    /\ \E id \in Ids, m \in TypeMemory : \E n \in Indices(id) :
          IF m \in Memories /\ n < num_elements(id)
          THEN Transact("load", m, <<Element(id, n)>>, "Ok")
          ELSE Answer("Invalid_Command")

\* A memory that is none is Ok.
bsmp_save_param_bank ==
    /\ Call /\ UNCHANGED ram
    /\ \E m \in TypeMemory :
          IF m \in Memories THEN Transact("save", m, BankItems, "Ok") ELSE Answer("Ok")

\* The answer is whatever the buffer held: nothing assigns it.
bsmp_load_param_bank ==
    /\ Call
    /\ \E m \in TypeMemory :
          \/ m \in Memories /\ Transact("load", m, BankItems, "unset") /\ UNCHANGED ram
          \/ m = "Default" /\ ram' = load_param_bank_default /\ Answer("unset")
          \/ m = "other" /\ Answer("unset") /\ UNCHANGED ram

\* The answer when the C28 has to take the coefficients (IpcHandshake.tla).
MailboxAnswers == {"Ok", "DSP_Busy", "DSP_Timeout"}

bsmp_set_dsp_coeffs ==
    /\ Call
    /\ \/ \E i \in Modules, v \in Inputs, a \in MailboxAnswers :
             /\ ram' = [ram EXCEPT ![i] = [k \in DOMAIN @ |->
                            IF k <= UsedBytes(i) THEN Pattern(v, SizeOf(i))[k] ELSE @[k]]]
             /\ Answer(a)
       \/ Answer("Invalid_Command") /\ UNCHANGED ram

\* A class that is none gives nan; the indices are not checked.  The value is
\* that of the C28.  Not refused while locked.
bsmp_get_dsp_coeff ==
    /\ Call /\ UNCHANGED ram
    /\ Answer("value") \/ Answer("Invalid_Command")

bsmp_save_dsp_coeffs_eeprom ==
    /\ Call /\ UNCHANGED ram
    /\ \/ \E i \in Modules, m \in Memories : Transact("save", m, <<i>>, "Ok")
       \/ Answer("Invalid_Command")

bsmp_load_dsp_coeffs_eeprom ==
    /\ Call /\ UNCHANGED ram
    /\ \/ \E i \in Modules, m \in Memories, a \in MailboxAnswers :
             Transact("load", m, <<i>>, a)
       \/ Answer("Invalid_Command")

bsmp_save_dsp_modules_eeprom ==
    /\ Call /\ UNCHANGED ram
    /\ \E m \in TypeMemory :
          IF m \in Memories THEN Transact("save", m, DspItems, "Ok") ELSE Answer("Ok")

bsmp_load_dsp_modules_eeprom ==
    /\ Call /\ UNCHANGED ram
    /\ \E m \in TypeMemory :
          IF m \in Memories THEN Transact("load", m, DspItems, "Ok") ELSE Answer("Ok")

\* The transactions of a call are done.
Return ==
    /\ phase \in {"save", "load"} /\ todo = <<>>
    /\ phase' = "run"
    /\ UNCHANGED <<present, eeprom, ram, servers, at, todo, answer, fresh, kept,
                   misplaced, calls, restarts>>

\* Refused while a supply is on.
bsmp_reset_udc ==
    /\ phase = "run" /\ calls < MaxCalls /\ calls' = calls + 1 /\ UNCHANGED restarts
    /\ \/ Boot /\ UNCHANGED answer
       \/ /\ Answer("Resource_Busy") /\ fresh' = FALSE
          /\ UNCHANGED <<present, eeprom, ram, servers, kept, misplaced>>

PowerFails ==
    /\ restarts < MaxRestarts /\ restarts' = restarts + 1
    /\ Boot /\ UNCHANGED <<answer, calls>>

----------------------------------------------------------------------------
\* Those that lie at an address of the on-board memory.
ItemsAt(x) ==
    {i \in Items : x \in Address("Onboard", i) .. Address("Onboard", i) + SizeOf(i) - 1}

(* What the memories hold when the firmware starts for the first time: a   *)
(* bank with some model, valid or not, and coefficients.  The on-board     *)
(* EEPROM is part of the board, the other one may be missing.              *)
Filled(model, enable) ==
    LET Content(i) == IF i = Element("PS_Model", 0) THEN Bytes(model, 2)
                      ELSE IF i = Element("Enable_Onboard_EEPROM", 0) THEN <<enable>>
                      ELSE Pattern(Address("Onboard", i), SizeOf(i))
    IN [x \in UsedAddresses |->
          IF ItemsAt(x) = {} THEN Blank
          ELSE LET i == CHOOSE j \in ItemsAt(x) : TRUE
               IN Content(i)[x - Address("Onboard", i) + 1]]

Init ==
    /\ present \in [Memories -> BOOLEAN] /\ present["Onboard"]
    /\ \E off, on \in Factory, enable \in {0, Blank} :
          eeprom = [Offboard |-> Filled(IF present["Offboard"] THEN off ELSE Blank, Blank),
                    Onboard |-> Filled(on, enable)]
    /\ ram = [i \in Cells |-> Zero(i)]
    /\ servers = [s \in Servers |-> <<>>]
    /\ phase = "special" /\ at = "Onboard" /\ todo = AllTransfers(SpecialItems)
    /\ answer = "none" /\ fresh = FALSE
    /\ kept = [m \in Memories |-> [i \in Items |->
                  read_i2c(eeprom[m], TRUE, Address(m, i), SizeOf(i))]]
    /\ misplaced = FALSE /\ calls = 0 /\ restarts = 0

Work ==
    \/ Load \/ Save \/ Return
    \/ load_param_bank_offboard_eeprom \/ load_param_bank_onboard_eeprom
    \/ load_dsp_modules_eeprom \/ DefaultBank \/ Configure

Command ==
    \/ Locked \/ bsmp_set_param \/ bsmp_get_param
    \/ bsmp_set_serial_termination \/ bsmp_get_dsp_coeff
    \/ bsmp_save_param_eeprom \/ bsmp_load_param_eeprom
    \/ bsmp_save_param_bank \/ bsmp_load_param_bank
    \/ bsmp_set_dsp_coeffs \/ bsmp_save_dsp_coeffs_eeprom
    \/ bsmp_load_dsp_coeffs_eeprom \/ bsmp_save_dsp_modules_eeprom
    \/ bsmp_load_dsp_modules_eeprom \/ bsmp_reset_udc

Next == Work \/ Command \/ PowerFails

\* The processor runs, and the I2C master ends its transactions.
Spec == Init /\ [][Next]_vars /\ WF_vars(Work)

----------------------------------------------------------------------------
(* Properties.                                                             *)

Byte == 0 .. 255

\* Every cell of the RAM and of the EEPROMs keeps its width through every
\* conversion and partial transfer, and transactions stay inside their item.
TypeOK ==
    /\ \A i \in Cells : Len(ram[i]) = SizeOf(i) /\ \A k \in DOMAIN ram[i] : ram[i][k] \in Byte
    /\ \A m \in Memories, x \in UsedAddresses : eeprom[m][x] \in Byte
    /\ \A k \in DOMAIN todo : /\ todo[k].item \in Items
                              /\ todo[k].from + todo[k].len <= SizeOf(todo[k].item)
    /\ at \in Memories
    /\ phase \in {"special", "offboard", "onboard", "dsp", "run", "save", "load"}
    /\ \A s \in Servers : Len(servers[s]) <= BSMP_MAX_VARIABLES

\* The item has a place of its own in the memory: the two of OnlyOnboard have
\* none off-board, where saving one of them overwrites the name.
Placed(m, i) ==
    m = "Offboard" => i[2] \notin OnlyOnboard /\ (misplaced => i[2] # "PS_Name")

UsedPart(i, bytes) == SubSeq(bytes, 1, UsedBytes(i))

\* What was written last of an item is what its addresses hold: no save of
\* another item, no page wrap and no half finished save disturbs it.
SavedSurvives ==
    \A m \in Memories : \A i \in Items :
        Placed(m, i) =>
            UsedPart(i, read_i2c(eeprom[m], TRUE, Address(m, i), SizeOf(i)))
                = UsedPart(i, kept[m][i])

\* Items with a cell of their own in the RAM.
Alone(i) == ~PackedEnums \/ i[2] \notin {"Buzzer_Volume", "Command_Interface"}

Usable(m) == present[m] /\ Number(kept[m][Element("PS_Model", 0)]) <= 100

Restored(m) ==
    \A i \in Items :
        Placed(m, i) /\ Alone(i) /\ i[2] \notin OnlyOnboard
            => UsedPart(i, ram[i]) = UsedPart(i, kept[m][i])

\* After a boot, whatever was interrupted before it, bank and coefficients
\* are what was last saved in one and the same memory: the off-board one if
\* it holds a model, the on-board one if it is enabled and holds one; else
\* the supply is Uninitialized.
BootSource ==
    fresh =>
        IF Usable("Offboard") THEN Restored("Offboard")
        ELSE IF Usable("Onboard")
                /\ kept["Onboard"][Element("Enable_Onboard_EEPROM", 0)] = <<0>>
             THEN Restored("Onboard")
             ELSE PS_MODEL = Uninitialized

\* The variables <<server, id, source>> the tables of a model ask for, each as
\* the last call for it says.
Wanted(table) ==
    LET Names(k, id) == id + 1 - table[k].first \in DOMAIN table[k].sources
        Final(k, id) ==
            /\ Names(k, id)
            /\ \A j \in k + 1 .. Len(table) :
                  table[j].server = table[k].server => ~Names(j, id)
    IN UNION {{<<table[k].server, id, table[k].sources[id + 1 - table[k].first]>> :
                  id \in {n \in 0 .. BSMP_MAX_VARIABLES + 30 : Final(k, n)}} :
              k \in DOMAIN table}

WantedVars == [number \in 0 .. 100 |-> Wanted(ModelTable(number))]

\* After a boot every variable the model's tables create has the identifier
\* the tables give it, and shows what the last call for it says: none was
\* dropped by create_bsmp_var for being out of order or too many.
BootComplete ==
    fresh => \A w \in WantedVars[PS_MODEL] :
                 w[2] < Len(servers[w[1]]) /\ servers[w[1]][w[2] + 1] = w[3]

\* Every boot and every command ends, whichever memory is missing.
Returns == phase # "run" ~> phase = "run"
=============================================================================
