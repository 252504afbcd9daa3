-------------------------- MODULE ParamBankProofs --------------------------
(***************************************************************************)
(* Proofs about ParamBank, for every choice of parameters, elements, DSP   *)
(* classes and modules, every value a host may set, and any number of      *)
(* commands and power failures.                                            *)
(***************************************************************************)
EXTENDS ParamBank, PsModelsProofs, LoopTheorems

----------------------------------------------------------------------------
(* The layout of the EEPROMs, as the tables of addresses and sizes give it.*)

AllIds == DOMAIN param_addresses_onboard_eeprom
AllClasses == DOMAIN num_dsp_modules

\* The bytes of a parameter and of a class.
ParamBytes(id) == param_info(id).size * param_info(id).elements
ModuleBytes(c) == 4 * num_coeffs_dsp_module[c]
ClassBytes(c) == ModuleBytes(c) * num_dsp_modules[c]

Apart(a, n, b, m) == a + n <= b \/ b + m <= a

LEMMA BankSizes ==
    \A id \in DOMAIN init_param_bank_info :
        /\ init_param_bank_info[id].size \in {1, 2, 4}
        /\ init_param_bank_info[id].elements \in 1 .. 64
BY SMTT(60) DEF init_param_bank_info, U8, U16, U32, Float

LEMMA IdsSplit == AllIds = DOMAIN init_param_bank_info \cup OnlyOnboard
BY SMTT(60) DEF AllIds, init_param_bank_info, OnlyOnboard, param_addresses_onboard_eeprom

LEMMA BankInfo == \A id \in DOMAIN init_param_bank_info : param_info(id) = init_param_bank_info[id]
<1>1. "Password" \notin DOMAIN init_param_bank_info
      /\ "Enable_Onboard_EEPROM" \notin DOMAIN init_param_bank_info
  BY DEF init_param_bank_info
<1> QED BY <1>1 DEF param_info

LEMMA OnboardInfo ==
    /\ param_info("Password") = U16(1) /\ param_info("Enable_Onboard_EEPROM") = U8(1)
    /\ param_addresses_onboard_eeprom["Password"] = 8189
    /\ param_addresses_onboard_eeprom["Enable_Onboard_EEPROM"] = 8191
BY DEF param_info, param_addresses_onboard_eeprom

LEMMA ParamSizes ==
    \A id \in AllIds :
        /\ param_info(id).size \in {1, 2, 4} /\ param_info(id).elements \in 1 .. 64
        /\ param_addresses_onboard_eeprom[id] \in Nat
<1>1. \A id \in AllIds : param_addresses_onboard_eeprom[id] \in Nat
  BY SMTT(60) DEF AllIds, param_addresses_onboard_eeprom
<1> QED BY <1>1, IdsSplit, BankSizes, BankInfo, OnboardInfo DEF OnlyOnboard, U8, U16

LEMMA BankApart ==
    \A p, q \in DOMAIN init_param_bank_info :
        p = q \/ Apart(param_addresses_onboard_eeprom[p],
                       init_param_bank_info[p].size * init_param_bank_info[p].elements,
                       param_addresses_onboard_eeprom[q],
                       init_param_bank_info[q].size * init_param_bank_info[q].elements)
BY SMTT(100) DEF Apart, init_param_bank_info, param_addresses_onboard_eeprom, U8, U16, U32, Float

\* The bank ends where the modules begin.
LEMMA BankEnds ==
    \A p \in DOMAIN init_param_bank_info :
        param_addresses_onboard_eeprom[p]
            + init_param_bank_info[p].size * init_param_bank_info[p].elements <= 3072
BY SMTT(100) DEF init_param_bank_info, param_addresses_onboard_eeprom, U8, U16, U32, Float

LEMMA ClassTables ==
    /\ \A c \in AllClasses :
          /\ num_coeffs_dsp_module[c] \in {1, 2, 4, 8, 16}
          /\ num_dsp_modules[c] \in 1 .. 8
          /\ dsp_modules_eeprom_add[c] \in Nat /\ 3072 <= dsp_modules_eeprom_add[c]
          /\ UsedCoeffs[c] \in 1 .. num_coeffs_dsp_module[c]
          /\ dsp_modules_eeprom_add[c] + ClassBytes(c) <= 8000
          /\ dsp_modules_eeprom_add[c] % 32 = 0
    /\ \A c, d \in AllClasses :
          c = d \/ Apart(dsp_modules_eeprom_add[c], ClassBytes(c),
                         dsp_modules_eeprom_add[d], ClassBytes(d))
BY SMTT(100) DEF AllClasses, Apart, ClassBytes, ModuleBytes, num_dsp_modules,
   num_coeffs_dsp_module, dsp_modules_eeprom_add, UsedCoeffs

(* No two parameters or classes share a byte of the on-board EEPROM, the   *)
(* tables of addresses, sizes, elements, coefficients and modules taken    *)
(* together (ps_parameters.c, eeprom.c, control.c).                        *)
THEOREM LayoutDisjoint ==
    /\ \A p, q \in AllIds :
          p = q \/ Apart(param_addresses_onboard_eeprom[p], ParamBytes(p),
                         param_addresses_onboard_eeprom[q], ParamBytes(q))
    /\ \A c, d \in AllClasses :
          c = d \/ Apart(dsp_modules_eeprom_add[c], ClassBytes(c),
                         dsp_modules_eeprom_add[d], ClassBytes(d))
    /\ \A p \in AllIds, c \in AllClasses :
          Apart(param_addresses_onboard_eeprom[p], ParamBytes(p),
                dsp_modules_eeprom_add[c], ClassBytes(c))
<1>1. \A p \in DOMAIN init_param_bank_info :
          /\ ParamBytes(p) = init_param_bank_info[p].size * init_param_bank_info[p].elements
          /\ param_addresses_onboard_eeprom[p] + ParamBytes(p) <= 3072
          /\ ParamBytes(p) \in Nat /\ param_addresses_onboard_eeprom[p] \in Nat
  <2>1. \A p \in DOMAIN init_param_bank_info :
          init_param_bank_info[p].size * init_param_bank_info[p].elements \in Nat
    BY BankSizes
  <2> QED BY <2>1, BankInfo, BankEnds, ParamSizes, IdsSplit DEF ParamBytes
<1>2. ParamBytes("Password") = 2 /\ ParamBytes("Enable_Onboard_EEPROM") = 1
  BY OnboardInfo DEF ParamBytes, U8, U16
<1>3. \A c \in AllClasses : ClassBytes(c) \in Nat
  BY ClassTables DEF ClassBytes, ModuleBytes
<1>4. ASSUME NEW p \in AllIds, NEW q \in AllIds
      PROVE  p = q \/ Apart(param_addresses_onboard_eeprom[p], ParamBytes(p),
                            param_addresses_onboard_eeprom[q], ParamBytes(q))
  <2>1. CASE p \in DOMAIN init_param_bank_info /\ q \in DOMAIN init_param_bank_info
    BY <1>1, <2>1, BankApart
  <2>2. CASE p \in OnlyOnboard /\ q \in OnlyOnboard
    BY <1>2, <2>2, OnboardInfo DEF Apart, OnlyOnboard
  <2>3. CASE p \in OnlyOnboard /\ q \in DOMAIN init_param_bank_info
    <3>1. param_addresses_onboard_eeprom[q] + ParamBytes(q) <= 3072
          /\ ParamBytes(q) \in Nat /\ param_addresses_onboard_eeprom[q] \in Nat
      BY <1>1, <2>3
    <3>2. param_addresses_onboard_eeprom[p] \in {8189, 8191}
      BY <2>3, OnboardInfo DEF OnlyOnboard
    <3> QED BY <3>1, <3>2 DEF Apart
  <2>4. CASE p \in DOMAIN init_param_bank_info /\ q \in OnlyOnboard
    <3>1. param_addresses_onboard_eeprom[p] + ParamBytes(p) <= 3072
          /\ ParamBytes(p) \in Nat /\ param_addresses_onboard_eeprom[p] \in Nat
      BY <1>1, <2>4
    <3>2. param_addresses_onboard_eeprom[q] \in {8189, 8191}
      BY <2>4, OnboardInfo DEF OnlyOnboard
    <3> QED BY <3>1, <3>2 DEF Apart
  <2> QED BY <2>1, <2>2, <2>3, <2>4, IdsSplit
<1>5. ASSUME NEW p \in AllIds, NEW c \in AllClasses
      PROVE  Apart(param_addresses_onboard_eeprom[p], ParamBytes(p),
                   dsp_modules_eeprom_add[c], ClassBytes(c))
  <2>1. dsp_modules_eeprom_add[c] \in Nat /\ 3072 <= dsp_modules_eeprom_add[c]
        /\ dsp_modules_eeprom_add[c] + ClassBytes(c) <= 8000
        /\ ClassBytes(c) \in Nat
    BY <1>3, ClassTables
  <2>2. CASE p \in DOMAIN init_param_bank_info
    <3>1. param_addresses_onboard_eeprom[p] + ParamBytes(p) <= 3072
          /\ ParamBytes(p) \in Nat /\ param_addresses_onboard_eeprom[p] \in Nat
      BY <1>1, <2>2
    <3> QED BY <2>1, <3>1 DEF Apart
  <2>3. CASE p \in OnlyOnboard
    <3>1. param_addresses_onboard_eeprom[p] \in {8189, 8191}
      BY <2>3, OnboardInfo DEF OnlyOnboard
    <3> QED BY <2>1, <3>1 DEF Apart
  <2> QED BY <2>2, <2>3, IdsSplit
<1> QED BY <1>4, <1>5, ClassTables

----------------------------------------------------------------------------
(* Items: their sizes, their places, and their pages.                      *)

\* A parameter is aligned to its elements, as long as it is not Password.
LEMMA BankAligned ==
    \A id \in DOMAIN init_param_bank_info :
        param_addresses_onboard_eeprom[id] % init_param_bank_info[id].size = 0
BY SMTT(100) DEF init_param_bank_info, param_addresses_onboard_eeprom, U8, U16, U32, Float

LEMMA NamesApart ==
    /\ AllClasses \cap (OnlyOnboard \cup {"PS_Name"}) = {}
    /\ DOMAIN init_param_bank_info \cap OnlyOnboard = {}
    /\ {"PS_Name", "PS_Model", "Buzzer_Volume", "Command_Interface", "RS485_Termination"}
          \subseteq DOMAIN init_param_bank_info
BY SMTT(60) DEF AllClasses, num_dsp_modules, OnlyOnboard, init_param_bank_info

\* What an item is.
IsElement(i, id, n) ==
    i = Element(id, n) /\ id \in Ids /\ n \in Nat /\ n < param_info(id).elements
IsModule(i, c, k) ==
    i = Module(c, k) /\ c \in Classes /\ k \in Nat /\ k < num_dsp_modules[c]

LEMMA ElementCase ==
    ASSUME NEW i \in Elements
    PROVE  \E id, n : IsElement(i, id, n)
<1>1. PICK id \in Ids : i \in ElementsOf(id)
  BY DEF Elements
<1>2. PICK n \in 0 .. num_elements(id) - 1 : i = Element(id, n)
  BY <1>1 DEF ElementsOf
<1>3. param_info(id).elements \in 1 .. 64 /\ MaxElements \in 1 .. 4
  BY ParamSizes, ParamAssumption DEF AllIds
<1>4. n \in Nat /\ n < param_info(id).elements
  BY <1>2, <1>3 DEF num_elements
<1> QED BY <1>1, <1>2, <1>4 DEF IsElement

LEMMA ModuleCase ==
    ASSUME NEW i \in Modules
    PROVE  \E c, k : IsModule(i, c, k)
<1>1. PICK c \in Classes : i \in {Module(c, k) : k \in 0 .. num_modules(c) - 1}
  BY DEF Modules
<1>2. PICK k \in 0 .. num_modules(c) - 1 : i = Module(c, k)
  BY <1>1
<1>3. num_dsp_modules[c] \in 1 .. 8 /\ MaxModules \in Nat
  BY ClassTables, ParamAssumption DEF AllClasses
<1>4. k \in Nat /\ k < num_dsp_modules[c]
  BY <1>2, <1>3 DEF num_modules
<1> QED BY <1>1, <1>2, <1>4 DEF IsModule

\* The place of an element and of a module.
LEMMA ElementPlace ==
    ASSUME NEW i, NEW id, NEW n, IsElement(i, id, n), NEW m \in Memories
    PROVE  /\ i[1] = "param" /\ i[2] = id /\ i[3] = n /\ id \in AllIds /\ n \in Nat
           /\ n < param_info(id).elements
           /\ SizeOf(i) = param_info(id).size /\ SizeOf(i) \in {1, 2, 4}
           /\ UsedBytes(i) = SizeOf(i)
           /\ m = "Onboard" \/ id \notin OnlyOnboard =>
                 Address(m, i) = param_addresses_onboard_eeprom[id] + SizeOf(i) * n
           /\ m = "Offboard" /\ id \in OnlyOnboard =>
                 Address(m, i) = 0 /\ SizeOf(i) \in {1, 2} /\ n = 0
<1>1. i[1] = "param" /\ i[2] = id /\ i[3] = n /\ id \in AllIds /\ n \in Nat
      /\ n < param_info(id).elements
  BY ParamAssumption DEF IsElement, Element, AllIds
<1>2. SizeOf(i) = param_info(id).size /\ SizeOf(i) \in {1, 2, 4} /\ UsedBytes(i) = SizeOf(i)
  BY <1>1, ParamSizes DEF SizeOf, UsedBytes
<1>3. Address(m, i) = param_addresses(m)[id] + SizeOf(i) * n
  BY <1>1 DEF Address
<1>4. /\ \A p \in AllIds \ OnlyOnboard :
             param_addresses_offboard_eeprom[p] = param_addresses_onboard_eeprom[p]
      /\ \A p \in OnlyOnboard : param_addresses_offboard_eeprom[p] = 0
  <2>1. {"Password", "Enable_Onboard_EEPROM"} \subseteq DOMAIN param_addresses_onboard_eeprom
    BY DEF param_addresses_onboard_eeprom
  <2> QED BY <2>1 DEF param_addresses_offboard_eeprom, OnlyOnboard, AllIds
<1>5. m = "Onboard" \/ id \notin OnlyOnboard =>
        Address(m, i) = param_addresses_onboard_eeprom[id] + SizeOf(i) * n
  BY <1>1, <1>3, <1>4 DEF param_addresses, Memories
<1>6. m = "Offboard" /\ id \in OnlyOnboard =>
        Address(m, i) = 0 /\ SizeOf(i) \in {1, 2} /\ n = 0
  BY <1>1, <1>2, <1>3, <1>4, OnboardInfo DEF param_addresses, OnlyOnboard, U8, U16
<1> QED BY <1>1, <1>2, <1>5, <1>6

LEMMA ModulePlace ==
    ASSUME NEW i, NEW c, NEW k, IsModule(i, c, k), NEW m \in Memories
    PROVE  /\ i[1] = "dsp" /\ i[2] = c /\ i[3] = k /\ c \in AllClasses /\ k \in Nat
           /\ k < num_dsp_modules[c]
           /\ SizeOf(i) = ModuleBytes(c) /\ SizeOf(i) \in {4, 8, 16, 32, 64}
           /\ UsedBytes(i) \in Nat /\ UsedBytes(i) <= SizeOf(i)
           /\ Address(m, i) = dsp_modules_eeprom_add[c] + SizeOf(i) * k
<1>1. i[1] = "dsp" /\ i[2] = c /\ i[3] = k /\ c \in AllClasses /\ k \in Nat
      /\ k < num_dsp_modules[c]
  BY ParamAssumption DEF IsModule, Module, AllClasses
<1>2. num_coeffs_dsp_module[c] \in {1, 2, 4, 8, 16} /\ UsedCoeffs[c] \in 1 .. num_coeffs_dsp_module[c]
  BY <1>1, ClassTables
<1>3. SizeOf(i) = ModuleBytes(c) /\ UsedBytes(i) = 4 * UsedCoeffs[c]
      /\ Address(m, i) = dsp_modules_eeprom_add[c] + SizeOf(i) * k
  BY <1>1 DEF SizeOf, ModuleBytes, UsedBytes, Address
<1> QED BY <1>1, <1>2, <1>3 DEF ModuleBytes

LEMMA ItemFacts ==
    ASSUME NEW i \in Items, NEW m \in Memories
    PROVE  /\ SizeOf(i) \in {1, 2, 4, 8, 16, 32, 64}
           /\ UsedBytes(i) \in Nat /\ UsedBytes(i) <= SizeOf(i)
           /\ Address(m, i) \in Nat
<1>1. CASE i \in Elements
  <2>1. PICK id, n : IsElement(i, id, n)
    BY <1>1, ElementCase
  <2>2. /\ id \in AllIds /\ n \in Nat
        /\ SizeOf(i) \in {1, 2, 4} /\ UsedBytes(i) = SizeOf(i)
        /\ \/ Address(m, i) = param_addresses_onboard_eeprom[id] + SizeOf(i) * n
           \/ Address(m, i) = 0
    BY <2>1, ElementPlace DEF Memories
  <2>3. param_addresses_onboard_eeprom[id] \in Nat
    BY <2>2, ParamSizes
  <2> QED BY <2>2, <2>3
<1>2. CASE i \in Modules
  <2>1. PICK c, k : IsModule(i, c, k)
    BY <1>2, ModuleCase
  <2>2. /\ c \in AllClasses /\ k \in Nat /\ SizeOf(i) \in {4, 8, 16, 32, 64}
        /\ UsedBytes(i) \in Nat /\ UsedBytes(i) <= SizeOf(i)
        /\ Address(m, i) = dsp_modules_eeprom_add[c] + SizeOf(i) * k
    BY <2>1, ModulePlace
  <2>3. dsp_modules_eeprom_add[c] \in Nat /\ 3072 <= dsp_modules_eeprom_add[c]
    BY <2>2, ClassTables
  <2> QED BY <2>2, <2>3
<1> QED BY <1>1, <1>2 DEF Items

\* An item of at most a page lies inside one, a longer one begins with a page.
LEMMA ItemPages ==
    ASSUME NEW i \in Items, NEW m \in Memories
    PROVE  /\ SizeOf(i) <= 32 => (Address(m, i) % 32) + SizeOf(i) <= 32
           /\ SizeOf(i) = 64 => Address(m, i) % 32 = 0
<1>1. CASE i \in Elements
  <2>1. PICK id, n : IsElement(i, id, n)
    BY <1>1, ElementCase
  <2>2. /\ id \in AllIds /\ n \in Nat /\ n < param_info(id).elements
        /\ SizeOf(i) \in {1, 2, 4} /\ SizeOf(i) = param_info(id).size
    BY <2>1, ElementPlace
  <2>3. CASE id \in OnlyOnboard /\ m = "Offboard"
    <3>1. Address(m, i) = 0 /\ SizeOf(i) \in {1, 2}
      BY <2>1, <2>3, ElementPlace
    <3> QED BY <3>1
  <2>4. CASE id \in OnlyOnboard /\ m = "Onboard"
    <3>1. Address(m, i) = param_addresses_onboard_eeprom[id] + SizeOf(i) * n
      BY <2>1, <2>4, ElementPlace
    <3>2. /\ id = "Password" => SizeOf(i) = 2 /\ Address(m, i) = 8189
          /\ id = "Enable_Onboard_EEPROM" => SizeOf(i) = 1 /\ Address(m, i) = 8191
      BY <2>2, <3>1, OnboardInfo DEF U8, U16
    <3> QED BY <2>4, <3>2 DEF OnlyOnboard
  <2>5. CASE id \notin OnlyOnboard
    <3>1. Address(m, i) = param_addresses_onboard_eeprom[id] + SizeOf(i) * n
      BY <2>1, <2>5, ElementPlace
    <3>2. id \in DOMAIN init_param_bank_info
      BY <2>2, <2>5, IdsSplit
    <3>3. param_addresses_onboard_eeprom[id] % SizeOf(i) = 0
      BY <2>2, <3>2, BankInfo, BankAligned
    <3>4. param_addresses_onboard_eeprom[id] \in Nat
      BY <2>2, ParamSizes
    <3>5. CASE SizeOf(i) = 1
      BY <2>2, <3>1, <3>3, <3>4, <3>5
    <3>6. CASE SizeOf(i) = 2
      BY <2>2, <3>1, <3>3, <3>4, <3>6
    <3>7. CASE SizeOf(i) = 4
      BY <2>2, <3>1, <3>3, <3>4, <3>7
    <3> QED BY <2>2, <3>5, <3>6, <3>7
  <2> QED BY <2>3, <2>4, <2>5 DEF Memories
<1>2. CASE i \in Modules
  <2>1. PICK c, k : IsModule(i, c, k)
    BY <1>2, ModuleCase
  <2>2. /\ c \in AllClasses /\ k \in Nat /\ SizeOf(i) \in {4, 8, 16, 32, 64}
        /\ Address(m, i) = dsp_modules_eeprom_add[c] + SizeOf(i) * k
    BY <2>1, ModulePlace
  <2>3. dsp_modules_eeprom_add[c] \in Nat /\ 3072 <= dsp_modules_eeprom_add[c] /\ dsp_modules_eeprom_add[c] % 32 = 0
    BY <2>2, ClassTables
  <2>4. CASE SizeOf(i) = 4
    BY <2>2, <2>3, <2>4
  <2>5. CASE SizeOf(i) = 8
    BY <2>2, <2>3, <2>5
  <2>6. CASE SizeOf(i) = 16
    BY <2>2, <2>3, <2>6
  <2>7. CASE SizeOf(i) = 32
    BY <2>2, <2>3, <2>7
  <2>8. CASE SizeOf(i) = 64
    BY <2>2, <2>3, <2>8
  <2> QED BY <2>2, <2>4, <2>5, <2>6, <2>7, <2>8
<1> QED BY <1>1, <1>2 DEF Items

\* Two places in a row of equal ones, and where the row ends.
LEMMA RowApart ==
    ASSUME NEW a \in Nat, NEW s \in {1, 2, 4, 8, 16, 32, 64}, NEW n \in Nat, NEW p \in Nat, n # p
    PROVE  Apart(a + s * n, s, a + s * p, s)
BY DEF Apart

LEMMA RowEnds ==
    ASSUME NEW a \in Nat, NEW s \in {1, 2, 4, 8, 16, 32, 64}, NEW n \in Nat, NEW e \in Nat, n < e
    PROVE  a <= a + s * n /\ (a + s * n) + s <= a + s * e /\ s * e \in Nat /\ a + s * n \in Nat
OBVIOUS

LEMMA InnerApart ==
    ASSUME NEW a \in Nat, NEW n \in Nat, NEW b \in Nat, NEW m \in Nat, Apart(a, n, b, m),
           NEW c \in Nat, NEW k \in Nat, a <= c, c + k <= a + n,
           NEW d \in Nat, NEW l \in Nat, b <= d, d + l <= b + m
    PROVE  Apart(c, k, d, l)
BY DEF Apart

\* The bytes of an item are among those of its parameter or class.
LEMMA ElementInside ==
    ASSUME NEW i, NEW id, NEW n, IsElement(i, id, n), NEW m \in Memories,
           m = "Onboard" \/ id \notin OnlyOnboard
    PROVE  /\ param_addresses_onboard_eeprom[id] \in Nat /\ ParamBytes(id) \in Nat
           /\ SizeOf(i) \in Nat /\ Address(m, i) \in Nat
           /\ param_addresses_onboard_eeprom[id] <= Address(m, i)
           /\ Address(m, i) + SizeOf(i) <= param_addresses_onboard_eeprom[id] + ParamBytes(id)
<1>1. /\ id \in AllIds /\ n \in Nat /\ n < param_info(id).elements
      /\ SizeOf(i) = param_info(id).size /\ SizeOf(i) \in {1, 2, 4}
      /\ Address(m, i) = param_addresses_onboard_eeprom[id] + SizeOf(i) * n
  BY ElementPlace
<1>2. param_info(id).elements \in Nat /\ param_addresses_onboard_eeprom[id] \in Nat
  BY <1>1, ParamSizes
<1>3. ParamBytes(id) = SizeOf(i) * param_info(id).elements
  BY <1>1 DEF ParamBytes
<1>4. SizeOf(i) \in {1, 2, 4, 8, 16, 32, 64} /\ SizeOf(i) \in Nat
  BY <1>1
<1> QED BY <1>1, <1>2, <1>3, <1>4, RowEnds

LEMMA ModuleInside ==
    ASSUME NEW i, NEW c, NEW k, IsModule(i, c, k), NEW m \in Memories
    PROVE  /\ dsp_modules_eeprom_add[c] \in Nat /\ ClassBytes(c) \in Nat
           /\ SizeOf(i) \in Nat /\ Address(m, i) \in Nat
           /\ dsp_modules_eeprom_add[c] <= Address(m, i)
           /\ Address(m, i) + SizeOf(i) <= dsp_modules_eeprom_add[c] + ClassBytes(c)
<1>1. /\ c \in AllClasses /\ k \in Nat /\ k < num_dsp_modules[c]
      /\ SizeOf(i) = ModuleBytes(c) /\ SizeOf(i) \in {4, 8, 16, 32, 64}
      /\ Address(m, i) = dsp_modules_eeprom_add[c] + SizeOf(i) * k
  BY ModulePlace
<1>2. num_dsp_modules[c] \in Nat /\ dsp_modules_eeprom_add[c] \in Nat
  BY <1>1, ClassTables
<1>3. ClassBytes(c) = SizeOf(i) * num_dsp_modules[c]
  BY <1>1 DEF ClassBytes
<1>4. SizeOf(i) \in {1, 2, 4, 8, 16, 32, 64} /\ SizeOf(i) \in Nat
  BY <1>1
<1> QED BY <1>1, <1>2, <1>3, <1>4, RowEnds

\* Does the item have a place of its own in the memory, by the tables?
Own(m, i) == m = "Offboard" => i[2] \notin OnlyOnboard

(* Two items with places of their own share no byte.                       *)
LEMMA ItemsApart ==
    ASSUME NEW m \in Memories, NEW i \in Items, NEW j \in Items, i # j, Own(m, i), Own(m, j)
    PROVE  Apart(Address(m, i), SizeOf(i), Address(m, j), SizeOf(j))
<1>0. m = "Onboard" \/ m = "Offboard"
  BY DEF Memories
<1>1. CASE i \in Elements /\ j \in Elements
  <2>1. PICK id, n : IsElement(i, id, n)
    BY <1>1, ElementCase
  <2>2. PICK jd, p : IsElement(j, jd, p)
    BY <1>1, ElementCase
  <2>3. i[2] = id /\ j[2] = jd /\ id \in AllIds /\ jd \in AllIds /\ n \in Nat /\ p \in Nat
    BY <2>1, <2>2, ElementPlace
  <2>4. /\ m = "Onboard" \/ id \notin OnlyOnboard
        /\ m = "Onboard" \/ jd \notin OnlyOnboard
    BY <1>0, <2>3 DEF Own
  <2>5. CASE id = jd
    <3>1. n # p
      BY <2>1, <2>2, <2>5 DEF IsElement
    <3>2. /\ SizeOf(i) = param_info(id).size /\ SizeOf(j) = param_info(id).size
          /\ SizeOf(i) \in {1, 2, 4}
          /\ Address(m, i) = param_addresses_onboard_eeprom[id] + SizeOf(i) * n
          /\ Address(m, j) = param_addresses_onboard_eeprom[id] + SizeOf(j) * p
      BY <2>1, <2>2, <2>4, <2>5, ElementPlace
    <3>3. SizeOf(i) \in {1, 2, 4, 8, 16, 32, 64} /\ SizeOf(j) = SizeOf(i)
          /\ param_addresses_onboard_eeprom[id] \in Nat
      BY <2>3, <3>2, ParamSizes
    <3>4. Apart(param_addresses_onboard_eeprom[id] + SizeOf(i) * n, SizeOf(i),
                param_addresses_onboard_eeprom[id] + SizeOf(i) * p, SizeOf(i))
      BY <2>3, <3>1, <3>3, RowApart, ZenonT(60)
    <3> QED BY <3>2, <3>3, <3>4
  <2>6. CASE id # jd
    <3>1. Apart(param_addresses_onboard_eeprom[id], ParamBytes(id),
                param_addresses_onboard_eeprom[jd], ParamBytes(jd))
      BY <2>3, <2>6, LayoutDisjoint
    <3>2. /\ param_addresses_onboard_eeprom[id] \in Nat /\ ParamBytes(id) \in Nat
          /\ SizeOf(i) \in Nat /\ Address(m, i) \in Nat
          /\ param_addresses_onboard_eeprom[id] <= Address(m, i)
          /\ Address(m, i) + SizeOf(i) <= param_addresses_onboard_eeprom[id] + ParamBytes(id)
      BY <2>1, <2>4, ElementInside
    <3>3. /\ param_addresses_onboard_eeprom[jd] \in Nat /\ ParamBytes(jd) \in Nat
          /\ SizeOf(j) \in Nat /\ Address(m, j) \in Nat
          /\ param_addresses_onboard_eeprom[jd] <= Address(m, j)
          /\ Address(m, j) + SizeOf(j) <= param_addresses_onboard_eeprom[jd] + ParamBytes(jd)
      BY <2>2, <2>4, ElementInside
    <3> QED BY <3>1, <3>2, <3>3, InnerApart
  <2> QED BY <2>5, <2>6
<1>2. CASE i \in Modules /\ j \in Modules
  <2>1. PICK c, n : IsModule(i, c, n)
    BY <1>2, ModuleCase
  <2>2. PICK d, p : IsModule(j, d, p)
    BY <1>2, ModuleCase
  <2>3. c \in AllClasses /\ d \in AllClasses /\ n \in Nat /\ p \in Nat
    BY <2>1, <2>2, ModulePlace
  <2>4. CASE c = d
    <3>1. n # p
      BY <2>1, <2>2, <2>4 DEF IsModule
    <3>2. /\ SizeOf(i) = ModuleBytes(c) /\ SizeOf(j) = ModuleBytes(c)
          /\ SizeOf(i) \in {4, 8, 16, 32, 64}
          /\ Address(m, i) = dsp_modules_eeprom_add[c] + SizeOf(i) * n
          /\ Address(m, j) = dsp_modules_eeprom_add[c] + SizeOf(j) * p
      BY <2>1, <2>2, <2>4, ModulePlace
    <3>3. SizeOf(i) \in {1, 2, 4, 8, 16, 32, 64} /\ SizeOf(j) = SizeOf(i)
          /\ dsp_modules_eeprom_add[c] \in Nat
      BY <2>3, <3>2, ClassTables
    <3>4. Apart(dsp_modules_eeprom_add[c] + SizeOf(i) * n, SizeOf(i),
                dsp_modules_eeprom_add[c] + SizeOf(i) * p, SizeOf(i))
      BY <2>3, <3>1, <3>3, RowApart, ZenonT(60)
    <3> QED BY <3>2, <3>3, <3>4
  <2>5. CASE c # d
    <3>1. Apart(dsp_modules_eeprom_add[c], ClassBytes(c), dsp_modules_eeprom_add[d], ClassBytes(d))
      BY <2>3, <2>5, LayoutDisjoint
    <3>2. /\ dsp_modules_eeprom_add[c] \in Nat /\ ClassBytes(c) \in Nat
          /\ SizeOf(i) \in Nat /\ Address(m, i) \in Nat
          /\ dsp_modules_eeprom_add[c] <= Address(m, i)
          /\ Address(m, i) + SizeOf(i) <= dsp_modules_eeprom_add[c] + ClassBytes(c)
      BY <2>1, ModuleInside
    <3>3. /\ dsp_modules_eeprom_add[d] \in Nat /\ ClassBytes(d) \in Nat
          /\ SizeOf(j) \in Nat /\ Address(m, j) \in Nat
          /\ dsp_modules_eeprom_add[d] <= Address(m, j)
          /\ Address(m, j) + SizeOf(j) <= dsp_modules_eeprom_add[d] + ClassBytes(d)
      BY <2>2, ModuleInside
    <3> QED BY <3>1, <3>2, <3>3, InnerApart
  <2> QED BY <2>4, <2>5
<1>3. ASSUME NEW e \in Elements, NEW f \in Modules, Own(m, e)
      PROVE  Apart(Address(m, e), SizeOf(e), Address(m, f), SizeOf(f))
  <2>1. PICK id, n : IsElement(e, id, n)
    BY ElementCase
  <2>2. PICK c, k : IsModule(f, c, k)
    BY ModuleCase
  <2>3. e[2] = id /\ id \in AllIds /\ c \in AllClasses
    BY <2>1, <2>2, ElementPlace, ModulePlace
  <2>4. m = "Onboard" \/ id \notin OnlyOnboard
    BY <1>0, <1>3, <2>3 DEF Own
  <2>5. Apart(param_addresses_onboard_eeprom[id], ParamBytes(id),
              dsp_modules_eeprom_add[c], ClassBytes(c))
    BY <2>3, LayoutDisjoint
  <2>6. /\ param_addresses_onboard_eeprom[id] \in Nat /\ ParamBytes(id) \in Nat
        /\ SizeOf(e) \in Nat /\ Address(m, e) \in Nat
        /\ param_addresses_onboard_eeprom[id] <= Address(m, e)
        /\ Address(m, e) + SizeOf(e) <= param_addresses_onboard_eeprom[id] + ParamBytes(id)
    BY <2>1, <2>4, ElementInside
  <2>7. /\ dsp_modules_eeprom_add[c] \in Nat /\ ClassBytes(c) \in Nat
        /\ SizeOf(f) \in Nat /\ Address(m, f) \in Nat
        /\ dsp_modules_eeprom_add[c] <= Address(m, f)
        /\ Address(m, f) + SizeOf(f) <= dsp_modules_eeprom_add[c] + ClassBytes(c)
    BY <2>2, ModuleInside
  <2> QED BY <2>5, <2>6, <2>7, InnerApart
<1>4. CASE i \in Elements /\ j \in Modules
  BY <1>3, <1>4
<1>5. CASE i \in Modules /\ j \in Elements
  BY <1>3, <1>5 DEF Apart
<1> QED BY <1>1, <1>2, <1>4, <1>5 DEF Items

(* One of OnlyOnboard that is saved off-board hits the name only.          *)
LEMMA MisplacedApart ==
    ASSUME NEW i \in Items, i[2] \in OnlyOnboard,
           NEW j \in Items, j[2] \notin OnlyOnboard, j[2] # "PS_Name"
    PROVE  Apart(Address("Offboard", i), SizeOf(i), Address("Offboard", j), SizeOf(j))
<1> DEFINE m == "Offboard"
<1>0. m \in Memories
  BY DEF Memories
<1> HIDE DEF m
<1>1. i \notin Modules
  <2> SUFFICES ASSUME i \in Modules PROVE FALSE
    OBVIOUS
  <2>1. PICK c, k : IsModule(i, c, k)
    BY ModuleCase
  <2>2. i[2] = c /\ c \in AllClasses
    BY <1>0, <2>1, ModulePlace
  <2> QED BY <2>2, NamesApart
<1>2. PICK id, n : IsElement(i, id, n)
  BY <1>1, ElementCase DEF Items
<1>3. id \in OnlyOnboard
  BY <1>0, <1>2, ElementPlace
<1>4. Address(m, i) = 0 /\ SizeOf(i) \in {1, 2}
  BY <1>0, <1>2, <1>3, ElementPlace DEF m
<1>5. ParamBytes("PS_Name") = 64 /\ param_addresses_onboard_eeprom["PS_Name"] = 0
      /\ "PS_Name" \in AllIds
  <2>1. init_param_bank_info["PS_Name"] = U8(64) /\ param_addresses_onboard_eeprom["PS_Name"] = 0
    BY DEF init_param_bank_info, param_addresses_onboard_eeprom
  <2>2. "PS_Name" \in DOMAIN init_param_bank_info
    BY NamesApart
  <2> QED BY <2>1, <2>2, BankInfo, IdsSplit DEF ParamBytes, U8
<1>6. CASE j \in Elements
  <2>1. PICK jd, p : IsElement(j, jd, p)
    BY <1>6, ElementCase
  <2>2. jd \in AllIds /\ jd \notin OnlyOnboard /\ jd # "PS_Name"
    BY <1>0, <2>1, ElementPlace
  <2>3. Apart(param_addresses_onboard_eeprom["PS_Name"], ParamBytes("PS_Name"),
              param_addresses_onboard_eeprom[jd], ParamBytes(jd))
    BY <1>5, <2>2, LayoutDisjoint
  <2>4. /\ param_addresses_onboard_eeprom[jd] \in Nat /\ ParamBytes(jd) \in Nat
        /\ SizeOf(j) \in Nat /\ Address(m, j) \in Nat
        /\ param_addresses_onboard_eeprom[jd] <= Address(m, j)
        /\ Address(m, j) + SizeOf(j) <= param_addresses_onboard_eeprom[jd] + ParamBytes(jd)
    BY <1>0, <2>1, <2>2, ElementInside
  <2>5. SizeOf(j) >= 1
    BY <1>0, <2>1, ElementPlace
  <2> QED BY <1>4, <1>5, <2>3, <2>4, <2>5 DEF Apart, m
<1>7. CASE j \in Modules
  <2>1. PICK c, k : IsModule(j, c, k)
    BY <1>7, ModuleCase
  <2>2. c \in AllClasses
    BY <1>0, <2>1, ModulePlace
  <2>3. 3072 <= dsp_modules_eeprom_add[c]
    BY <2>2, ClassTables
  <2> QED BY <1>0, <1>4, <2>1, <2>3, ModuleInside DEF Apart, m
<1> QED BY <1>6, <1>7 DEF Items

----------------------------------------------------------------------------
(* Cells of the RAM.                                                       *)

LEMMA CellFacts ==
    ASSUME NEW i \in Items
    PROVE  /\ Cell(i) \in Cells /\ SizeOf(Cell(i)) = SizeOf(i)
           /\ Alone(i) => Cell(i) = i
           /\ \A j \in Items : Alone(i) /\ Cell(j) = Cell(i) => j = i
<1>1. Cell(i) \in Cells
  BY DEF Cells
<1>2. SizeOf(Cell(i)) = SizeOf(i)
  <2>1. CASE i = Element("Buzzer_Volume", 1) /\ PackedEnums
    <3>1. /\ init_param_bank_info["Buzzer_Volume"] = U16(2)
          /\ init_param_bank_info["Command_Interface"] = U16(1)
      BY DEF init_param_bank_info
    <3>2. param_info("Buzzer_Volume") = U16(2) /\ param_info("Command_Interface") = U16(1)
      BY <3>1, NamesApart, BankInfo
    <3> QED BY <2>1, <3>2 DEF SizeOf, Cell, Element, U16
  <2> QED BY <2>1 DEF Cell
<1>3. Alone(i) => Cell(i) = i
  BY DEF Alone, Cell, Element
<1>4. ASSUME Alone(i), NEW j \in Items, Cell(j) = Cell(i) PROVE j = i
  BY <1>3, <1>4 DEF Alone, Cell, Element
<1> QED BY <1>1, <1>2, <1>3, <1>4

LEMMA SpecialFacts ==
    /\ Element("Enable_Onboard_EEPROM", 0) \in Items /\ Element("Password", 0) \in Items
    /\ Element("PS_Model", 0) \in Elements /\ Element("RS485_Termination", 0) \in Items
    /\ Alone(Element("Enable_Onboard_EEPROM", 0)) /\ Alone(Element("PS_Model", 0))
    /\ Alone(Element("RS485_Termination", 0))
    /\ SizeOf(Element("Enable_Onboard_EEPROM", 0)) = 1 /\ SizeOf(Element("PS_Model", 0)) = 2
    /\ SizeOf(Element("RS485_Termination", 0)) = 2
<1>1. \A id \in Ids : Element(id, 0) \in Elements
  <2> TAKE id \in Ids
  <2>1. param_info(id).elements \in 1 .. 64 /\ MaxElements \in 1 .. 4
    BY ParamSizes, ParamAssumption DEF AllIds
  <2>2. 0 \in 0 .. num_elements(id) - 1
    BY <2>1 DEF num_elements
  <2>3. Element(id, 0) \in ElementsOf(id)
    BY <2>2 DEF ElementsOf
  <2> QED BY <2>3 DEF Elements
<1>2. {"PS_Model", "RS485_Termination", "Password", "Enable_Onboard_EEPROM"} \subseteq Ids
  BY ParamAssumption DEF OnlyOnboard
<1>3. param_info("PS_Model") = U16(1) /\ param_info("RS485_Termination") = U16(1)
  <2>1. /\ init_param_bank_info["PS_Model"] = U16(1)
        /\ init_param_bank_info["RS485_Termination"] = U16(1)
    BY DEF init_param_bank_info
  <2> QED BY <2>1, NamesApart, BankInfo
<1> QED BY <1>1, <1>2, <1>3, OnboardInfo DEF Items, Alone, SizeOf, Element, U8, U16

----------------------------------------------------------------------------
(* Transactions.                                                           *)

Covers(t, i, k) == t.item = i /\ t.from < k /\ k <= t.from + t.len

\* The transactions of an item: bytes of it that lie inside one page.
ItemTransfers ==
    {t \in [item : Items, from : Nat, len : Nat] :
        /\ t.len >= 1 /\ t.from + t.len <= SizeOf(t.item)
        /\ \A m \in Memories : ((Address(m, t.item) + t.from) % 32) + t.len <= 32}

LEMMA TransfersFacts ==
    ASSUME NEW i \in Items
    PROVE  /\ Transfers(i) \in Seq({t \in ItemTransfers : t.item = i})
           /\ \A k \in 1 .. SizeOf(i) :
                 \E n \in DOMAIN Transfers(i) : Covers(Transfers(i)[n], i, k)
<1> DEFINE T == {t \in ItemTransfers : t.item = i}
           Part(f, l) == [item |-> i, from |-> f, len |-> l]
<1>0. "Onboard" \in Memories /\ SizeOf(i) \in {1, 2, 4, 8, 16, 32, 64}
  BY ItemFacts DEF Memories
<1>1. \A m \in Memories : /\ Address(m, i) \in Nat
                          /\ SizeOf(i) <= 32 => (Address(m, i) % 32) + SizeOf(i) <= 32
                          /\ SizeOf(i) = 64 => Address(m, i) % 32 = 0
  BY ItemFacts, ItemPages
<1>2. ASSUME NEW f \in Nat, NEW l \in Nat, l >= 1, f + l <= SizeOf(i),
             \A m \in Memories : ((Address(m, i) + f) % 32) + l <= 32
      PROVE  Part(f, l) \in T
  BY <1>2 DEF ItemTransfers
<1>3. CASE SizeOf(i) <= 32
  <2>1. Transfers(i) = <<Part(0, SizeOf(i))>>
    BY <1>0, <1>3 DEF Transfers, PageSize
  <2>2. Part(0, SizeOf(i)) \in T
    <3>1. \A m \in Memories : ((Address(m, i) + 0) % 32) + SizeOf(i) <= 32
      BY <1>1, <1>3
    <3> QED BY <1>0, <1>2, <3>1
  <2>3. \A k \in 1 .. SizeOf(i) : Covers(Part(0, SizeOf(i)), i, k)
    BY <1>0 DEF Covers
  <2> HIDE DEF T, Part
  <2>4. Transfers(i) \in Seq(T)
    BY <2>1, <2>2
  <2>5. 1 \in DOMAIN Transfers(i) /\ Transfers(i)[1] = Part(0, SizeOf(i))
    BY <2>1
  <2> QED BY <2>3, <2>4, <2>5 DEF T
<1>4. CASE SizeOf(i) = 64
  <2>1. Transfers(i) = <<Part(0, 32), Part(32, 32)>>
    BY <1>4 DEF Transfers, PageSize
  <2>2. Part(0, 32) \in T /\ Part(32, 32) \in T
    <3>1. \A m \in Memories : /\ ((Address(m, i) + 0) % 32) + 32 <= 32
                              /\ ((Address(m, i) + 32) % 32) + 32 <= 32
      BY <1>1, <1>4
    <3> QED BY <1>2, <1>4, <3>1
  <2>3. \A k \in 1 .. SizeOf(i) : Covers(Part(0, 32), i, k) \/ Covers(Part(32, 32), i, k)
    BY <1>4 DEF Covers
  <2> HIDE DEF T, Part
  <2>4. Transfers(i) \in Seq(T)
    BY <2>1, <2>2
  <2>5. /\ 1 \in DOMAIN Transfers(i) /\ Transfers(i)[1] = Part(0, 32)
        /\ 2 \in DOMAIN Transfers(i) /\ Transfers(i)[2] = Part(32, 32)
    BY <2>1
  <2> QED BY <2>3, <2>4, <2>5 DEF T
<1> QED BY <1>0, <1>3, <1>4

\* Transactions for items among S only.
TransfersOf(S) == {t \in ItemTransfers : t.item \in S}

Pending(trans, i, k) == \E n \in DOMAIN trans : Covers(trans[n], i, k)

LEMMA AllTransfersFacts ==
    ASSUME NEW S, S \subseteq Items, NEW items \in Seq(S)
    PROVE  /\ AllTransfers(items) \in Seq(TransfersOf(S))
           /\ \A n \in DOMAIN items : \A k \in 1 .. SizeOf(items[n]) :
                 Pending(AllTransfers(items), items[n], k)
<1> DEFINE T == TransfersOf(S)
           seqs == [k \in DOMAIN items |-> Transfers(items[k])]
<1>1. \A k \in DOMAIN items : Transfers(items[k]) \in Seq(T)
  <2> TAKE k \in DOMAIN items
  <2>1. items[k] \in S /\ items[k] \in Items
    OBVIOUS
  <2>2. Transfers(items[k]) \in Seq({t \in ItemTransfers : t.item = items[k]})
    BY <2>1, TransfersFacts
  <2>3. {t \in ItemTransfers : t.item = items[k]} \subseteq T
    BY <2>1 DEF TransfersOf
  <2> QED BY <2>2, <2>3, WiderSeq
<1>2. seqs \in [1 .. Len(items) -> Seq(T)] /\ Len(items) \in Nat /\ DOMAIN items = 1 .. Len(items)
  BY <1>1
<1>3. seqs \in Seq(Seq(T))
  BY <1>2, SeqDef
<1>4. AllTransfers(items) = FlattenSeq(seqs)
  BY DEF AllTransfers
<1>5. ASSUME NEW n \in DOMAIN items, NEW k \in 1 .. SizeOf(items[n])
      PROVE  Pending(AllTransfers(items), items[n], k)
  <2>1. items[n] \in Items
    OBVIOUS
  <2>2. PICK p \in DOMAIN Transfers(items[n]) : Covers(Transfers(items[n])[p], items[n], k)
    BY <2>1, TransfersFacts
  <2>3. n \in DOMAIN seqs /\ seqs[n] = Transfers(items[n])
    OBVIOUS
  <2> DEFINE e == Transfers(items[n])[p]
  <2>4. Contains(seqs[n], e)
    BY <2>2, <2>3 DEF Contains
  <2> HIDE DEF seqs, T, e
  <2>5. Contains(FlattenSeq(seqs), e)
    BY <1>3, <2>3, <2>4, FlattenCovers
  <2>6. PICK q \in DOMAIN FlattenSeq(seqs) : FlattenSeq(seqs)[q] = e
    BY <2>5 DEF Contains
  <2> QED BY <1>4, <2>2, <2>6 DEF Pending, e
<1> HIDE DEF seqs, T
<1>6. FlattenSeq(seqs) \in Seq(T)
  BY <1>3, FlattenTyped
<1> QED BY <1>4, <1>5, <1>6 DEF T

\* The tables the loops run over name every parameter of the bank and every
\* class of modules.
LEMMA LoopTables ==
    /\ DOMAIN param_id_t = 1 .. 52 /\ DOMAIN dsp_class_t = 1 .. 6
    /\ \A k \in 1 .. 52 : param_id_t[k] \in DOMAIN init_param_bank_info
    /\ \A id \in DOMAIN init_param_bank_info : \E k \in 1 .. 52 : param_id_t[k] = id
    /\ \A k \in 1 .. 6 : dsp_class_t[k] \in AllClasses
    /\ \A c \in AllClasses : \E k \in 1 .. 6 : dsp_class_t[k] = c
<1>1. DOMAIN param_id_t = 1 .. 52 /\ DOMAIN dsp_class_t = 1 .. 6
  BY DEF param_id_t, dsp_class_t
<1>2. \A k \in 1 .. 52 : param_id_t[k] \in DOMAIN init_param_bank_info
  BY SMTT(60) DEF param_id_t, init_param_bank_info
<1>3. \A id \in DOMAIN init_param_bank_info : \E k \in 1 .. 52 : param_id_t[k] = id
  BY SMTT(60) DEF param_id_t, init_param_bank_info
<1>4. \A k \in 1 .. 6 : dsp_class_t[k] \in AllClasses
  BY SMTT(60) DEF dsp_class_t, AllClasses, num_dsp_modules
<1>5. \A c \in AllClasses : \E k \in 1 .. 6 : dsp_class_t[k] = c
  BY SMTT(60) DEF dsp_class_t, AllClasses, num_dsp_modules
<1> QED BY <1>1, <1>2, <1>3, <1>4, <1>5

BankSet == {i \in Elements : i[2] \notin OnlyOnboard}

LEMMA BankItemsFacts ==
    /\ BankItems \in Seq(BankSet)
    /\ \A i \in BankSet : Contains(BankItems, i)
<1> DEFINE Part(k) == IF param_id_t[k] \in Ids
                      THEN [n \in 1 .. num_elements(param_id_t[k]) |-> Element(param_id_t[k], n - 1)]
                      ELSE <<>>
           seqs == [k \in DOMAIN param_id_t |-> Part(k)]
<1>1. \A id \in Ids : num_elements(id) \in Nat
  <2> TAKE id \in Ids
  <2>1. param_info(id).elements \in 1 .. 64 /\ MaxElements \in 1 .. 4
    BY ParamSizes, ParamAssumption DEF AllIds
  <2> QED BY <2>1 DEF num_elements
<1>2. \A id \in Ids \ OnlyOnboard : \A n \in 1 .. num_elements(id) : Element(id, n - 1) \in BankSet
  <2> TAKE id \in Ids \ OnlyOnboard
  <2> TAKE n \in 1 .. num_elements(id)
  <2>1. n - 1 \in 0 .. num_elements(id) - 1
    BY <1>1
  <2>2. Element(id, n - 1) \in ElementsOf(id)
    BY <2>1 DEF ElementsOf
  <2>3. Element(id, n - 1) \in Elements
    BY <2>2 DEF Elements
  <2>4. Element(id, n - 1)[2] = id
    BY DEF Element
  <2> QED BY <2>3, <2>4 DEF BankSet
<1>3. ASSUME NEW k \in 1 .. 52 PROVE Part(k) \in Seq(BankSet)
  <2>1. CASE param_id_t[k] \in Ids
    <3>1. param_id_t[k] \in Ids \ OnlyOnboard
      BY <2>1, LoopTables, NamesApart
    <3>2. num_elements(param_id_t[k]) \in Nat
      BY <1>1, <2>1
    <3>3. Part(k) \in [1 .. num_elements(param_id_t[k]) -> BankSet]
      BY <1>2, <2>1, <3>1
    <3> HIDE DEF Part
    <3> QED BY <3>2, <3>3, SeqDef
  <2>2. CASE param_id_t[k] \notin Ids
    BY <2>2
  <2> QED BY <2>1, <2>2
<1>4. seqs \in [1 .. 52 -> Seq(BankSet)] /\ 52 \in Nat
  BY <1>3, LoopTables
<1>5. seqs \in Seq(Seq(BankSet))
  BY <1>4, SeqDef
<1>6. BankItems = FlattenSeq(seqs)
  BY DEF BankItems
<1>7. ASSUME NEW i \in BankSet PROVE Contains(BankItems, i)
  <2>1. PICK id \in Ids : i \in ElementsOf(id)
    BY DEF BankSet, Elements
  <2>2. PICK n \in 0 .. num_elements(id) - 1 : i = Element(id, n)
    BY <2>1 DEF ElementsOf
  <2>3. id \in DOMAIN init_param_bank_info
    <3>1. i[2] = id
      BY <2>2 DEF Element
    <3> QED BY <3>1, IdsSplit, ParamAssumption DEF BankSet, AllIds
  <2>4. PICK k \in 1 .. 52 : param_id_t[k] = id
    BY <2>3, LoopTables
  <2>5. k \in DOMAIN seqs /\ seqs[k] = [j \in 1 .. num_elements(id) |-> Element(id, j - 1)]
    BY <2>4, LoopTables
  <2>6. n + 1 \in 1 .. num_elements(id) /\ (n + 1) - 1 = n
    BY <1>1
  <2>7. Len(seqs[k]) = num_elements(id) /\ seqs[k][n + 1] = i
    BY <1>1, <2>2, <2>5, <2>6
  <2> HIDE DEF seqs
  <2>8. Contains(seqs[k], i)
    BY <2>6, <2>7 DEF Contains
  <2> QED BY <1>5, <1>6, <2>5, <2>8, FlattenCovers
<1> HIDE DEF seqs
<1> QED BY <1>5, <1>6, <1>7, FlattenTyped

LEMMA DspItemsFacts ==
    /\ DspItems \in Seq(Modules)
    /\ \A i \in Modules : Contains(DspItems, i)
<1> DEFINE Part(k) == IF dsp_class_t[k] \in Classes
                      THEN [n \in 1 .. num_modules(dsp_class_t[k]) |-> Module(dsp_class_t[k], n - 1)]
                      ELSE <<>>
           seqs == [k \in DOMAIN dsp_class_t |-> Part(k)]
<1>1. \A c \in Classes : num_modules(c) \in Nat
  <2> TAKE c \in Classes
  <2>1. num_dsp_modules[c] \in 1 .. 8 /\ MaxModules \in Nat
    BY ClassTables, ParamAssumption DEF AllClasses
  <2> QED BY <2>1 DEF num_modules
<1>2. \A c \in Classes : \A n \in 1 .. num_modules(c) : Module(c, n - 1) \in Modules
  <2> TAKE c \in Classes
  <2> TAKE n \in 1 .. num_modules(c)
  <2>1. n - 1 \in 0 .. num_modules(c) - 1
    BY <1>1
  <2> QED BY <2>1 DEF Modules
<1>3. ASSUME NEW k \in 1 .. 6 PROVE Part(k) \in Seq(Modules)
  <2>1. CASE dsp_class_t[k] \in Classes
    <3>2. num_modules(dsp_class_t[k]) \in Nat
      BY <1>1, <2>1
    <3>3. Part(k) \in [1 .. num_modules(dsp_class_t[k]) -> Modules]
      BY <1>2, <2>1
    <3> HIDE DEF Part
    <3> QED BY <3>2, <3>3, SeqDef
  <2>2. CASE dsp_class_t[k] \notin Classes
    BY <2>2
  <2> QED BY <2>1, <2>2
<1>4. seqs \in [1 .. 6 -> Seq(Modules)] /\ 6 \in Nat
  BY <1>3, LoopTables
<1>5. seqs \in Seq(Seq(Modules))
  BY <1>4, SeqDef
<1>6. DspItems = FlattenSeq(seqs)
  BY DEF DspItems
<1>7. ASSUME NEW i \in Modules PROVE Contains(DspItems, i)
  <2>1. PICK c \in Classes : i \in {Module(c, k) : k \in 0 .. num_modules(c) - 1}
    BY DEF Modules
  <2>2. PICK n \in 0 .. num_modules(c) - 1 : i = Module(c, n)
    BY <2>1
  <2>3. c \in AllClasses
    BY ParamAssumption DEF AllClasses
  <2>4. PICK k \in 1 .. 6 : dsp_class_t[k] = c
    BY <2>3, LoopTables
  <2>5. k \in DOMAIN seqs /\ seqs[k] = [j \in 1 .. num_modules(c) |-> Module(c, j - 1)]
    BY <2>4, LoopTables
  <2>6. n + 1 \in 1 .. num_modules(c) /\ (n + 1) - 1 = n
    BY <1>1
  <2>7. Len(seqs[k]) = num_modules(c) /\ seqs[k][n + 1] = i
    BY <1>1, <2>2, <2>5, <2>6
  <2> HIDE DEF seqs
  <2>8. Contains(seqs[k], i)
    BY <2>6, <2>7 DEF Contains
  <2> QED BY <1>5, <1>6, <2>5, <2>8, FlattenCovers
<1> HIDE DEF seqs
<1> QED BY <1>5, <1>6, <1>7, FlattenTyped

\* What each loop asks of the memory.
LEMMA LoadsFacts ==
    /\ BankSet \subseteq Items /\ Modules \subseteq Items
    /\ AllTransfers(BankItems) \in Seq(TransfersOf(BankSet))
    /\ \A i \in BankSet : \A k \in 1 .. SizeOf(i) : Pending(AllTransfers(BankItems), i, k)
    /\ AllTransfers(DspItems) \in Seq(TransfersOf(Modules))
    /\ \A i \in Modules : \A k \in 1 .. SizeOf(i) : Pending(AllTransfers(DspItems), i, k)
    /\ AllTransfers(SpecialItems) \in Seq(ItemTransfers)
    /\ \A k \in 1 .. SizeOf(Element("Enable_Onboard_EEPROM", 0)) :
          Pending(AllTransfers(SpecialItems), Element("Enable_Onboard_EEPROM", 0), k)
    /\ \A i \in Items : AllTransfers(<<i>>) \in Seq(ItemTransfers)
<1>1. BankSet \subseteq Items /\ Modules \subseteq Items
  BY DEF BankSet, Items
<1>2. ASSUME NEW S, S \subseteq Items, NEW items \in Seq(S), NEW i, Contains(items, i),
             NEW k \in 1 .. SizeOf(i)
      PROVE  Pending(AllTransfers(items), i, k)
  <2>1. PICK n \in 1 .. Len(items) : items[n] = i
    BY <1>2 DEF Contains
  <2>2. n \in DOMAIN items
    OBVIOUS
  <2> QED BY <1>2, <2>1, <2>2, AllTransfersFacts
<1>3. /\ AllTransfers(BankItems) \in Seq(TransfersOf(BankSet))
      /\ \A i \in BankSet : \A k \in 1 .. SizeOf(i) : Pending(AllTransfers(BankItems), i, k)
  BY <1>1, <1>2, BankItemsFacts, AllTransfersFacts
<1>4. /\ AllTransfers(DspItems) \in Seq(TransfersOf(Modules))
      /\ \A i \in Modules : \A k \in 1 .. SizeOf(i) : Pending(AllTransfers(DspItems), i, k)
  BY <1>1, <1>2, DspItemsFacts, AllTransfersFacts
<1>5. TransfersOf(Items) = ItemTransfers
  BY DEF TransfersOf, ItemTransfers
<1>6. SpecialItems \in Seq(Items) /\ \A i \in Items : <<i>> \in Seq(Items)
  BY SpecialFacts DEF SpecialItems
<1>7. Contains(SpecialItems, Element("Enable_Onboard_EEPROM", 0))
  BY DEF Contains, SpecialItems
<1>8. AllTransfers(SpecialItems) \in Seq(ItemTransfers)
      /\ \A i \in Items : AllTransfers(<<i>>) \in Seq(ItemTransfers)
  BY <1>5, <1>6, AllTransfersFacts
<1>9. \A k \in 1 .. SizeOf(Element("Enable_Onboard_EEPROM", 0)) :
          Pending(AllTransfers(SpecialItems), Element("Enable_Onboard_EEPROM", 0), k)
  BY <1>2, <1>6, <1>7
<1> QED BY <1>1, <1>3, <1>4, <1>8, <1>9

----------------------------------------------------------------------------
(* The memories.                                                           *)

\* A write inside a page changes the bytes it is for and no others.
LEMMA WrittenFacts ==
    ASSUME NEW e, DOMAIN e \subseteq Nat, NEW a \in Nat, NEW bytes, Len(bytes) \in Nat,
           (a % 32) + Len(bytes) <= 32
    PROVE  /\ DOMAIN Written(e, a, bytes) = DOMAIN e
           /\ \A x \in DOMAIN e : Written(e, a, bytes)[x] =
                 IF a <= x /\ x < a + Len(bytes) THEN bytes[x - a + 1] ELSE e[x]
<1> DEFINE l == Len(bytes)
<1>0. l \in Nat /\ (a % 32) + l <= 32
  OBVIOUS
<1>1. DOMAIN Written(e, a, bytes) = DOMAIN e
  BY DEF Written
<1>2. ASSUME NEW x \in DOMAIN e
      PROVE  Written(e, a, bytes)[x] = IF a <= x /\ x < a + l THEN bytes[x - a + 1] ELSE e[x]
  <2> DEFINE k == (x + 32 - (a % 32)) % 32
             Hit == x \div 32 = a \div 32 /\ k < l
  <2>1. Written(e, a, bytes)[x] = IF Hit THEN bytes[k + 1] ELSE e[x]
    BY DEF Written, PageSize
  <2>2. x \in Nat
    OBVIOUS
  <2> HIDE DEF l
  <2>3. Hit => a <= x /\ x < a + l /\ k = x - a
    BY <1>0, <2>2, SMTT(60)
  <2>4. a <= x /\ x < a + l => Hit
    BY <1>0, <2>2
  <2> HIDE DEF k, Hit
  <2> QED BY <2>1, <2>3, <2>4 DEF l
<1> QED BY <1>1, <1>2

\* The bytes of a cell.
Field(n) == [1 .. n -> Byte]

LEMMA FieldSeq ==
    ASSUME NEW n \in Nat, NEW f \in Field(n)
    PROVE  f \in Seq(Byte) /\ Len(f) = n /\ DOMAIN f = 1 .. n
<1>1. f \in Seq(Byte)
  BY SeqDef DEF Field
<1> QED BY <1>1 DEF Field

\* What goes over the bus for a transaction.
LEMMA SentFacts ==
    ASSUME NEW t \in ItemTransfers, NEW b \in Field(SizeOf(t.item)), NEW bytes \in Sent(t, b)
    PROVE  bytes \in Field(t.len) /\ Len(bytes) = t.len
<1>1. /\ t.item \in Items /\ t.from \in Nat /\ t.len \in Nat /\ t.len >= 1
      /\ t.from + t.len <= SizeOf(t.item)
  BY DEF ItemTransfers
<1>2. SizeOf(t.item) \in Nat
  <2>1. "Onboard" \in Memories
    BY DEF Memories
  <2> QED BY <1>1, <2>1, ItemFacts
<1>3. b \in Seq(Byte) /\ Len(b) = SizeOf(t.item)
  BY <1>2, FieldSeq
<1> DEFINE part == SubSeq(b, t.from + 1, t.from + t.len)
<1>4. part \in Seq(Byte) /\ Len(part) = t.len
  <2> DEFINE f == t.from + 1
             g == t.from + t.len
  <2>1. f \in 1 .. Len(b) /\ g \in 1 .. Len(b) /\ g - f + 1 = t.len /\ f <= g
    BY <1>1, <1>2, <1>3
  <2> HIDE DEF f, g
  <2>2. SubSeq(b, f, g) \in Seq(Byte) /\ Len(SubSeq(b, f, g)) = g - f + 1
    BY <1>3, <2>1
  <2> QED BY <2>1, <2>2 DEF f, g
<1>5. bytes = part \/ bytes = [part EXCEPT ![t.len - 1] = 160, ![t.len] = 134]
  BY DEF Sent
<1> HIDE DEF part
<1>6. part \in Field(t.len)
  BY <1>1, <1>4 DEF Field
<1>7. 160 \in Byte /\ 134 \in Byte
  BY DEF Byte
<1>8. bytes \in Field(t.len)
  BY <1>5, <1>6, <1>7 DEF Field
<1> QED BY <1>1, <1>8, FieldSeq

LEMMA ReadFacts ==
    ASSUME NEW e \in [UsedAddresses -> Byte], NEW there \in BOOLEAN, NEW a \in Nat, NEW n \in Nat
    PROVE  /\ read_i2c(e, there, a, n) \in Field(n)
           /\ \A k \in 1 .. n : there /\ a + k - 1 \in UsedAddresses =>
                 read_i2c(e, there, a, n)[k] = e[a + k - 1]
           /\ \A k \in 1 .. n : ~there => read_i2c(e, there, a, n)[k] = 255
BY DEF read_i2c, Field, Byte, Blank

LEMMA AddressesUsed ==
    /\ UsedAddresses \subseteq Nat
    /\ \A m \in Memories, i \in Items : \A k \in 1 .. SizeOf(i) :
          Address(m, i) + k - 1 \in UsedAddresses
<1> DEFINE Place(m, i) == Address(m, i) .. Address(m, i) + SizeOf(i) - 1
<1>1. ASSUME NEW m \in Memories, NEW i \in Items
      PROVE  Address(m, i) \in Nat /\ SizeOf(i) \in Nat
  BY ItemFacts
<1>2. ASSUME NEW x \in UsedAddresses PROVE x \in Nat
  <2>1. PICK m \in Memories : x \in UNION {Place(m, i) : i \in Items}
    BY DEF UsedAddresses
  <2>2. PICK i \in Items : x \in Place(m, i)
    BY <2>1
  <2> QED BY <1>1, <2>2
<1>3. ASSUME NEW m \in Memories, NEW i \in Items, NEW k \in 1 .. SizeOf(i)
      PROVE  Address(m, i) + k - 1 \in UsedAddresses
  <2>1. Address(m, i) + k - 1 \in Place(m, i)
    BY <1>1
  <2> HIDE DEF Place
  <2>2. Address(m, i) + k - 1 \in UNION {Place(m, j) : j \in Items}
    BY <2>1
  <2> QED BY <2>2 DEF UsedAddresses, Place
<1> QED BY <1>2, <1>3

LEMMA BytesFacts ==
    ASSUME NEW v \in Nat, NEW n \in {1, 2, 4}
    PROVE  Bytes(v, n) \in Field(n)
<1>1. \A k \in 1 .. 4 : <<1, 256, 65536, 16777216>>[k] \in Nat \ {0}
  OBVIOUS
<1>2. \A k \in 1 .. n : (v \div <<1, 256, 65536, 16777216>>[k]) % 256 \in Byte
  <2> TAKE k \in 1 .. n
  <2>1. k \in 1 .. 4
    OBVIOUS
  <2> DEFINE d == <<1, 256, 65536, 16777216>>[k]
  <2>2. d \in Nat \ {0}
    BY <1>1, <2>1
  <2> HIDE DEF d
  <2>3. v \div d \in Int
    BY <2>2
  <2>4. (v \div d) % 256 \in Byte
    BY <2>3 DEF Byte
  <2> QED BY <2>4 DEF d
<1> QED BY <1>2 DEF Bytes, Field

LEMMA PatternFacts ==
    ASSUME NEW v \in Nat, NEW n \in Nat
    PROVE  Pattern(v, n) \in Field(n)
BY DEF Pattern, Field, Byte

----------------------------------------------------------------------------
(* The registration of variables: no server ever has more than it holds.   *)

\* The lists of variables a server can hold.
VarLists(S) == {v \in Seq(S) : Len(v) <= 128}

LEMMA CreateFits ==
    ASSUME NEW S, NEW v \in VarLists(S), NEW first \in Nat, NEW sources \in Seq(S)
    PROVE  create_bsmp_var(v, first, sources) \in VarLists(S)
<1> DEFINE room == IF first + Len(sources) <= 128 THEN Len(sources)
                   ELSE IF first <= 128 THEN 128 - first ELSE 0
           n == Len(v) - first + 1
<1>1. v \in Seq(S) /\ Len(v) \in Nat /\ Len(v) <= 128 /\ Len(sources) \in Nat
  BY DEF VarLists
<1>2. room \in 0 .. Len(sources) /\ (first + room <= 128 \/ room = 0)
  BY <1>1
<1>3. create_bsmp_var(v, first, sources)
        = IF first > Len(v) THEN v ELSE v \o SubSeq(sources, n, room)
  BY DEF create_bsmp_var, CreateUpTo, BSMP_MAX_VARIABLES
<1>4. CASE first > Len(v)
  BY <1>3, <1>4
<1>5. CASE first <= Len(v)
  <2>1. n \in Nat /\ n >= 1 /\ n = Len(v) - first + 1
    BY <1>1, <1>5
  <2> HIDE DEF room, n
  <2> DEFINE part == SubSeq(sources, n, room)
  <2>2. part \in Seq(S) /\ Len(part) = IF n <= room THEN room - n + 1 ELSE 0
    <3>1. n \in Int /\ room \in Int /\ \A i \in n .. room : sources[i] \in S
      BY <1>1, <1>2, <2>1
    <3> QED BY <3>1, SubSeqProperties
  <2>3. create_bsmp_var(v, first, sources) = v \o part
    <3>1. ~(first > Len(v))
      BY <1>1, <1>5
    <3> QED BY <1>3, <3>1, Zenon
  <2> HIDE DEF part
  <2>4. v \o part \in Seq(S) /\ Len(v \o part) = Len(v) + Len(part)
    BY <1>1, <2>2
  <2>5. Len(v) + Len(part) <= 128
    BY <1>1, <1>2, <2>1, <2>2
  <2> QED BY <2>3, <2>4, <2>5 DEF VarLists
<1> QED BY <1>1, <1>4, <1>5

LEMMA ModifyFits ==
    ASSUME NEW S, NEW v \in VarLists(S), NEW first \in Nat, NEW sources \in Seq(S)
    PROVE  modify_bsmp_var(v, first, sources) \in VarLists(S)
<1>1. v \in Seq(S) /\ Len(v) \in Nat /\ Len(v) <= 128
  BY DEF VarLists
<1> DEFINE w == modify_bsmp_var(v, first, sources)
<1>2. w \in [1 .. Len(v) -> S]
  BY <1>1 DEF modify_bsmp_var
<1> HIDE DEF w
<1>3. w \in Seq(S) /\ Len(w) = Len(v)
  BY <1>1, <1>2, SeqDef
<1> QED BY <1>1, <1>3 DEF VarLists, w

LEMMA InitFits ==
    ASSUME NEW S, OtherSources \subseteq S, NEW s \in Nat
    PROVE  bsmp_init(s) \in VarLists(S) /\ <<>> \in VarLists(S)
<1>1. <<>> \in VarLists(S)
  BY DEF VarLists
<1>2. CommonVars(s) \in Seq(S)
  BY CommonTyped, WiderSeq
<1> QED BY <1>1, <1>2, CreateFits DEF bsmp_init

\* One call of a table.
Registered(before, c) ==
    [before EXCEPT ![c.server] =
        CASE c.op = "init" -> bsmp_init(c.server)
          [] c.op = "create" -> create_bsmp_var(@, c.first, c.sources)
          [] c.op = "modify" -> modify_bsmp_var(@, c.first, c.sources)]

LEMMA RegisteredFits ==
    ASSUME NEW S, OtherSources \subseteq S, NEW before \in [Servers -> VarLists(S)],
           NEW c \in CallsWith(S)
    PROVE  Registered(before, c) \in [Servers -> VarLists(S)]
<1>1. /\ c.op \in {"create", "modify", "init"} /\ c.server \in Nat /\ c.first \in Nat
      /\ c.sources \in Seq(S)
  BY DEF CallsWith
<1>2. CASE c.server \notin Servers
  BY <1>2 DEF Registered
<1>3. CASE c.server \in Servers
  <2>1. before[c.server] \in VarLists(S)
    BY <1>3
  <2>2. /\ bsmp_init(c.server) \in VarLists(S)
        /\ create_bsmp_var(before[c.server], c.first, c.sources) \in VarLists(S)
        /\ modify_bsmp_var(before[c.server], c.first, c.sources) \in VarLists(S)
    BY <1>1, <2>1, InitFits, CreateFits, ModifyFits
  <2>3. CASE c.op = "init"
    <3>1. Registered(before, c) = [before EXCEPT ![c.server] = bsmp_init(c.server)]
      BY <2>3 DEF Registered
    <3> QED BY <2>2, <3>1
  <2>4. CASE c.op = "create"
    <3>1. Registered(before, c) =
            [before EXCEPT ![c.server] = create_bsmp_var(@, c.first, c.sources)]
      BY <2>4 DEF Registered
    <3> QED BY <2>2, <3>1
  <2>5. CASE c.op = "modify"
    <3>1. Registered(before, c) =
            [before EXCEPT ![c.server] = modify_bsmp_var(@, c.first, c.sources)]
      BY <2>5 DEF Registered
    <3> QED BY <2>2, <3>1
  <2> QED BY <1>1, <2>3, <2>4, <2>5
<1> QED BY <1>2, <1>3

\* The loop over a table.
Unfolds(loop, table, S) ==
    /\ loop[0] = [s \in Servers |-> IF s = 0 THEN bsmp_init(0) ELSE <<>>]
    /\ \A k \in 1 .. Len(table) : loop[k] = Registered(loop[k - 1], table[k])
    /\ \A k \in 0 .. Len(table) : loop[k] \in [Servers -> VarLists(S)]
    /\ Configured(table) = loop[Len(table)]

LEMMA ConfiguredUnfold ==
    ASSUME NEW S, OtherSources \subseteq S, NEW table \in Seq(CallsWith(S))
    PROVE  \E loop : Unfolds(loop, table, S)
<1> DEFINE T == [Servers -> VarLists(S)]
           n == Len(table)
           first == [s \in Servers |-> IF s = 0 THEN bsmp_init(0) ELSE <<>>]
           F == [p \in Nat \X T |->
                    IF p[1] + 1 <= n THEN Registered(p[2], table[p[1] + 1]) ELSE p[2]]
           Is(g) == g = [k \in 0 .. n |->
                           IF k = 0 THEN first ELSE Registered(g[k - 1], table[k])]
<1>0. n \in Nat /\ \A k \in 1 .. n : table[k] \in CallsWith(S)
  OBVIOUS
<1>1. first \in T
  BY InitFits
<1>2. \A b \in T, c \in CallsWith(S) : Registered(b, c) \in T
  BY RegisteredFits
<1> HIDE DEF T, n, first
<1>3. F \in [Nat \X T -> T]
  <2>1. ASSUME NEW p \in Nat \X T
        PROVE  (IF p[1] + 1 <= n THEN Registered(p[2], table[p[1] + 1]) ELSE p[2]) \in T
    <3>1. p[1] \in Nat /\ p[2] \in T
      OBVIOUS
    <3>2. p[1] + 1 <= n => table[p[1] + 1] \in CallsWith(S)
      BY <1>0, <3>1
    <3> QED BY <1>2, <3>1, <3>2
  <2> QED BY <2>1
<1>4. \A k \in Nat, q \in T :
          F[<<k, q>>] = IF k + 1 <= n THEN Registered(q, table[k + 1]) ELSE q
  OBVIOUS
<1> HIDE DEF F
<1>5. PICK f \in [Nat -> T] : f[0] = first /\ \A k \in Nat : f[k + 1] = F[<<k, f[k]>>]
  <2>1. Loops(T, first, F) # {}
    BY <1>1, <1>3, LoopExists
  <2> QED BY <2>1 DEF Loops
<1> DEFINE g0 == [k \in 0 .. n |-> f[k]]
<1>6. Is(g0)
  <2>1. ASSUME NEW k \in 0 .. n
        PROVE  g0[k] = IF k = 0 THEN first ELSE Registered(g0[k - 1], table[k])
    <3>1. CASE k = 0
      BY <1>5, <3>1
    <3>2. CASE k # 0
      <4>1. k - 1 \in Nat /\ k - 1 \in 0 .. n /\ (k - 1) + 1 = k /\ (k - 1) + 1 <= n
        BY <1>0, <3>2
      <4>2. f[(k - 1) + 1] = F[<<k - 1, f[k - 1]>>] /\ f[k - 1] \in T
        BY <1>5, <4>1
      <4>3. F[<<k - 1, f[k - 1]>>] = Registered(f[k - 1], table[(k - 1) + 1])
        BY <1>4, <4>1, <4>2
      <4> QED BY <3>2, <4>1, <4>2, <4>3
    <3> QED BY <3>1, <3>2
  <2> QED BY <2>1
<1> DEFINE loop == CHOOSE g : Is(g)
<1>7. Is(loop)
  <2> HIDE DEF Is
  <2> QED BY <1>6
<1>8. Configured(table) = loop[n]
  BY DEF Configured, Registered, n, first
<1> HIDE DEF loop
<1>9. \A k \in 0 .. n : loop[k] = IF k = 0 THEN first ELSE Registered(loop[k - 1], table[k])
  BY <1>7
<1>10. loop[0] = first /\ \A k \in 1 .. n : loop[k] = Registered(loop[k - 1], table[k])
  BY <1>0, <1>9
<1>11. \A k \in 0 .. n : loop[k] \in T
  <2>1. loop[0] \in T
    BY <1>1, <1>10
  <2>2. ASSUME NEW k \in 1 .. n, loop[k - 1] \in T PROVE loop[k] \in T
    BY <1>0, <1>2, <1>10, <2>2
  <2> QED BY <1>0, <2>1, <2>2, LoopInduction
<1>12. Unfolds(loop, table, S)
  BY <1>8, <1>10, <1>11 DEF Unfolds, T, n, first
<1> QED BY <1>12

\* What the tables of a model leave registered.
LEMMA ConfiguredFits ==
    ASSUME NEW S, OtherSources \subseteq S, NEW table \in Seq(CallsWith(S))
    PROVE  Configured(table) \in [Servers -> VarLists(S)]
<1>1. PICK loop : Unfolds(loop, table, S)
  BY ConfiguredUnfold
<1>2. Len(table) \in 0 .. Len(table)
  OBVIOUS
<1> QED BY <1>1, <1>2 DEF Unfolds

LEMMA ModelsFit ==
    ASSUME NEW number \in 0 .. 100, NEW s \in Servers
    PROVE  Len(ConfiguredServers[number][s]) <= 128
<1> DEFINE m == IF number \in DOMAIN ps_model_t THEN ps_model_t[number] ELSE "Uninitialized"
<1>1. m \in AllModels
  <2>1. \A k \in DOMAIN ps_model_t : ps_model_t[k] \in AllModels
    BY SMTT(60) DEF AllModels, ps_model_t, SystemConfig
  <2>2. "Uninitialized" \in AllModels
    BY DEF AllModels, SystemConfig
  <2> QED BY <2>1, <2>2
<1> HIDE DEF m
<1> DEFINE S == SourcesWith(SystemConfig[m].boards)
<1>2. SystemConfig[m].server \in Seq(CallsWith(S))
  BY <1>1, SourcedModels DEF Sourced
<1>3. OtherSources \subseteq S
  BY DEF SourcesWith
<1>4. ConfiguredServers[number] = Configured(SystemConfig[m].server)
  BY DEF ConfiguredServers, ModelTable, m
<1> HIDE DEF S
<1>5. ConfiguredServers[number] \in [Servers -> VarLists(S)]
  BY <1>2, <1>3, <1>4, ConfiguredFits
<1> QED BY <1>5 DEF VarLists

----------------------------------------------------------------------------
(* The inductive invariant.                                                *)

RamOK(r) ==
    /\ r = [i \in Cells |-> r[i]]
    /\ \A i \in Cells : r[i] \in Field(SizeOf(i))

KeptOK(k) ==
    /\ k = [m \in Memories |-> [i \in Items |-> k[m][i]]]
    /\ \A m \in Memories, i \in Items : k[m][i] \in Field(SizeOf(i))

TypeInv ==
    /\ present \in [Memories -> BOOLEAN] /\ present["Onboard"]
    /\ eeprom \in [Memories -> [UsedAddresses -> Byte]]
    /\ RamOK(ram) /\ KeptOK(kept)
    /\ todo \in Seq(ItemTransfers) /\ at \in Memories
    /\ phase \in {"special", "offboard", "onboard", "dsp", "run", "save", "load"}
    /\ misplaced \in BOOLEAN /\ fresh \in BOOLEAN
    /\ \A s \in Servers : Len(servers[s]) <= 128

\* The switch of main is reached with a number it has a case or a default for.
PhaseInv ==
    /\ phase = "dsp" => PS_MODEL <= 100 /\ todo \in Seq(TransfersOf(Modules))
    /\ phase = "run" => todo = <<>>

\* SavedSurvives, byte by byte, the bytes nobody uses included.
Survives ==
    \A m \in Memories : \A i \in Items :
        Placed(m, i) => \A k \in 1 .. SizeOf(i) :
                            eeprom[m][Address(m, i) + k - 1] = kept[m][i][k]

Model == Element("PS_Model", 0)
Enable == Element("Enable_Onboard_EEPROM", 0)

ReadByte(m, i, k) == IF present[m] THEN eeprom[m][Address(m, i) + k - 1] ELSE 255

\* The cell holds what the memory does, but for what is still to be read.
Loaded(m, i) ==
    \A k \in 1 .. SizeOf(i) : ram[i][k] = ReadByte(m, i, k) \/ Pending(todo, i, k)

BankLoaded(m) == \A i \in BankSet : Alone(i) => Loaded(m, i)
ModulesLoaded(m) == \A i \in Modules : Loaded(m, i)

Enabled == kept["Onboard"][Enable] = <<0>>

Chosen(m) ==
    IF m = "Offboard" THEN Usable("Offboard")
    ELSE ~Usable("Offboard") /\ Usable("Onboard") /\ Enabled

\* How far the boot has come, and from which memory.
BootInv ==
    /\ phase = "special" => at = "Onboard" /\ Loaded("Onboard", Enable)
    /\ phase = "offboard" =>
          /\ at = "Offboard" /\ todo \in Seq(TransfersOf(BankSet))
          /\ BankLoaded("Offboard") /\ Loaded("Onboard", Enable)
    /\ phase = "onboard" =>
          /\ at = "Onboard" /\ todo \in Seq(TransfersOf(BankSet))
          /\ BankLoaded("Onboard") /\ ~Usable("Offboard") /\ Enabled
    /\ phase = "dsp" =>
          \/ BankLoaded(at) /\ ModulesLoaded(at) /\ Chosen(at)
          \/ /\ ~Usable("Offboard") /\ ~(Usable("Onboard") /\ Enabled)
             /\ PS_MODEL = Uninitialized
    /\ fresh => phase = "run" /\ BootSource

BankInv == TypeInv /\ PhaseInv /\ Survives /\ BootInv

LEMMA RamSet ==
    ASSUME NEW r, RamOK(r), NEW c \in Cells, NEW v \in Field(SizeOf(c))
    PROVE  /\ RamOK([r EXCEPT ![c] = v])
           /\ [r EXCEPT ![c] = v][c] = v
           /\ \A i \in Cells : i # c => [r EXCEPT ![c] = v][i] = r[i]
<1>1. DOMAIN r = Cells
  BY DEF RamOK
<1> DEFINE q == [r EXCEPT ![c] = v]
<1>2. q = [i \in Cells |-> IF i = c THEN v ELSE r[i]]
  BY <1>1
<1>3. \A i \in Cells : q[i] = IF i = c THEN v ELSE r[i]
  BY <1>2, Zenon
<1> HIDE DEF q
<1>4. q = [i \in Cells |-> q[i]]
  BY <1>2, Zenon
<1>5. \A i \in Cells : q[i] \in Field(SizeOf(i))
  BY <1>3 DEF RamOK
<1> QED BY <1>3, <1>4, <1>5 DEF RamOK, q

\* The part of a cell that a transaction is for.
Patched(old, t, bytes) ==
    [k \in DOMAIN old |-> IF k > t.from /\ k <= t.from + t.len THEN bytes[k - t.from] ELSE old[k]]

LEMMA PatchedFacts ==
    ASSUME NEW t \in ItemTransfers, NEW old \in Field(SizeOf(t.item)), NEW bytes \in Field(t.len)
    PROVE  /\ Patched(old, t, bytes) \in Field(SizeOf(t.item))
           /\ \A k \in 1 .. SizeOf(t.item) : Patched(old, t, bytes)[k] =
                 IF k > t.from /\ k <= t.from + t.len THEN bytes[k - t.from] ELSE old[k]
<1>1. /\ t.item \in Items /\ t.from \in Nat /\ t.len \in Nat
      /\ t.from + t.len <= SizeOf(t.item)
  BY DEF ItemTransfers
<1>2. DOMAIN old = 1 .. SizeOf(t.item)
  BY DEF Field
<1>3. \A k \in 1 .. SizeOf(t.item) :
          (IF k > t.from /\ k <= t.from + t.len THEN bytes[k - t.from] ELSE old[k]) \in Byte
  BY <1>1 DEF Field
<1> QED BY <1>2, <1>3 DEF Patched, Field

\* The first of the transactions, and the others.
LEMMA TodoFacts ==
    ASSUME NEW T, NEW trans \in Seq(T), trans # <<>>
    PROVE  /\ Head(trans) \in T /\ Tail(trans) \in Seq(T)
           /\ \A i, k : Pending(trans, i, k) =>
                 Covers(Head(trans), i, k) \/ Pending(Tail(trans), i, k)
<1>1. Head(trans) \in T /\ Tail(trans) \in Seq(T) /\ Head(trans) = trans[1]
  OBVIOUS
<1>2. ASSUME NEW i, NEW k, Pending(trans, i, k), ~Covers(Head(trans), i, k)
      PROVE  Pending(Tail(trans), i, k)
  <2>1. PICK n \in DOMAIN trans : Covers(trans[n], i, k)
    BY <1>2 DEF Pending
  <2>2. n # 1
    BY <1>1, <1>2, <2>1
  <2>3. n - 1 \in DOMAIN Tail(trans) /\ Tail(trans)[n - 1] = trans[n]
    BY <2>2
  <2> QED BY <2>1, <2>3 DEF Pending
<1> QED BY <1>1, <1>2

LEMMA NothingPending == \A i, k : ~Pending(<<>>, i, k)
BY DEF Pending

\* The values of a loaded cell.
LEMMA LoadFacts ==
    ASSUME TypeInv, Load
    PROVE  LET t == Head(todo)
           IN /\ t \in ItemTransfers /\ todo' = Tail(todo) /\ todo' \in Seq(ItemTransfers)
              /\ RamOK(ram')
              /\ \A k \in 1 .. SizeOf(t.item) :
                    ram'[Cell(t.item)][k] = IF t.from < k /\ k <= t.from + t.len
                                            THEN ReadByte(at, t.item, k)
                                            ELSE ram[Cell(t.item)][k]
              /\ \A c \in Cells : c # Cell(t.item) => ram'[c] = ram[c]
<1> DEFINE t == Head(todo)
           c == Cell(t.item)
           a == Address(at, t.item) + t.from
           read == read_i2c(eeprom[at], present[at], a, t.len)
<1>1. todo # <<>> /\ todo \in Seq(ItemTransfers) /\ todo' = Tail(todo)
      /\ at \in Memories /\ present \in [Memories -> BOOLEAN]
      /\ eeprom \in [Memories -> [UsedAddresses -> Byte]] /\ RamOK(ram)
  BY DEF Load, TypeInv
<1>2. t \in ItemTransfers /\ todo' \in Seq(ItemTransfers)
  BY <1>1, TodoFacts
<1>3. ram' = [ram EXCEPT ![c] = Patched(@, t, read)]
  BY DEF Load, Patched
<1> HIDE DEF t, c
<1>4. /\ t.item \in Items /\ t.from \in Nat /\ t.len \in Nat
      /\ t.from + t.len <= SizeOf(t.item)
  BY <1>2 DEF ItemTransfers
<1>5. Address(at, t.item) \in Nat /\ SizeOf(t.item) \in Nat /\ a \in Nat
  <2>1. Address(at, t.item) \in Nat /\ SizeOf(t.item) \in {1, 2, 4, 8, 16, 32, 64}
    BY <1>1, <1>4, ItemFacts
  <2> QED BY <1>4, <2>1
<1>6. c \in Cells /\ SizeOf(c) = SizeOf(t.item)
  BY <1>4, CellFacts DEF c
<1>7. ram[c] \in Field(SizeOf(t.item))
  BY <1>1, <1>6 DEF RamOK
<1>8. /\ read \in Field(t.len)
      /\ \A k \in 1 .. t.len : present[at] /\ a + k - 1 \in UsedAddresses =>
            read[k] = eeprom[at][a + k - 1]
      /\ \A k \in 1 .. t.len : ~present[at] => read[k] = 255
  <2>1. eeprom[at] \in [UsedAddresses -> Byte] /\ present[at] \in BOOLEAN
    BY <1>1
  <2> HIDE DEF a
  <2> QED BY <1>4, <1>5, <2>1, ReadFacts
<1> HIDE DEF read
<1> DEFINE new == Patched(ram[c], t, read)
<1>9. /\ new \in Field(SizeOf(t.item))
      /\ \A k \in 1 .. SizeOf(t.item) : new[k] =
            IF k > t.from /\ k <= t.from + t.len THEN read[k - t.from] ELSE ram[c][k]
  BY <1>2, <1>7, <1>8, PatchedFacts
<1>10. ASSUME NEW k \in 1 .. SizeOf(t.item), t.from < k, k <= t.from + t.len
       PROVE  read[k - t.from] = ReadByte(at, t.item, k)
  <2>1. k - t.from \in 1 .. t.len /\ a + (k - t.from) - 1 = Address(at, t.item) + k - 1
    BY <1>4, <1>5, <1>10
  <2>2. Address(at, t.item) + k - 1 \in UsedAddresses
    BY <1>1, <1>4, AddressesUsed
  <2> HIDE DEF a
  <2> QED BY <1>8, <2>1, <2>2 DEF ReadByte
<1> HIDE DEF new
<1>11. ram' = [ram EXCEPT ![c] = new]
  BY <1>3 DEF new
<1>12. RamOK(ram') /\ ram'[c] = new /\ \A d \in Cells : d # c => ram'[d] = ram[d]
  <2>1. new \in Field(SizeOf(c))
    BY <1>6, <1>9
  <2>2. /\ RamOK([ram EXCEPT ![c] = new])
        /\ [ram EXCEPT ![c] = new][c] = new
        /\ \A d \in Cells : d # c => [ram EXCEPT ![c] = new][d] = ram[d]
    BY <1>1, <1>6, <2>1, RamSet
  <2> QED BY <1>11, <2>2
<1>13. \A k \in 1 .. SizeOf(t.item) :
          ram'[c][k] = IF t.from < k /\ k <= t.from + t.len
                       THEN ReadByte(at, t.item, k) ELSE ram[c][k]
  <2> TAKE k \in 1 .. SizeOf(t.item)
  <2>1. CASE t.from < k /\ k <= t.from + t.len
    <3>1. ram'[c][k] = read[k - t.from]
      BY <1>4, <1>9, <1>12, <2>1
    <3> QED BY <1>10, <2>1, <3>1
  <2>2. CASE ~(t.from < k /\ k <= t.from + t.len)
    <3>1. ~(k > t.from /\ k <= t.from + t.len)
      BY <1>4, <2>2
    <3> QED BY <1>9, <1>12, <2>2, <3>1
  <2> QED BY <2>1, <2>2
<1> QED BY <1>1, <1>2, <1>12, <1>13 DEF t, c

LEMMA KeptSet ==
    ASSUME NEW r, KeptOK(r), NEW m \in Memories, NEW i \in Items, NEW v \in Field(SizeOf(i))
    PROVE  /\ KeptOK([r EXCEPT ![m][i] = v])
           /\ \A n \in Memories, j \in Items :
                 [r EXCEPT ![m][i] = v][n][j] = IF n = m /\ j = i THEN v ELSE r[n][j]
<1>1. DOMAIN r = Memories /\ \A n \in Memories : DOMAIN r[n] = Items
  <2>1. r = [n \in Memories |-> [j \in Items |-> r[n][j]]]
    BY DEF KeptOK
  <2>2. DOMAIN r = Memories
    BY <2>1, Zenon
  <2>3. \A n \in Memories : r[n] = [j \in Items |-> r[n][j]]
    BY <2>1, Zenon
  <2> QED BY <2>2, <2>3, Zenon
<1> DEFINE q == [r EXCEPT ![m][i] = v]
<1>2. q = [n \in Memories |-> [j \in Items |-> IF n = m /\ j = i THEN v ELSE r[n][j]]]
  <2> DEFINE p == [n \in Memories |-> [j \in Items |-> IF n = m /\ j = i THEN v ELSE r[n][j]]]
             rm == [r[m] EXCEPT ![i] = v]
  <2>1. q = [r EXCEPT ![m] = rm]
    OBVIOUS
  <2>2. rm = [j \in Items |-> IF j = i THEN v ELSE r[m][j]]
    BY <1>1
  <2>3. rm = p[m]
    BY <2>2
  <2>4. \A n \in Memories : n # m => r[n] = p[n]
    <3> SUFFICES ASSUME NEW n \in Memories, n # m PROVE r[n] = p[n]
      OBVIOUS
    <3>1. p[n] = [j \in Items |-> r[n][j]]
      OBVIOUS
    <3>2. r[n] = [j \in Items |-> r[n][j]]
      BY DEF KeptOK
    <3> QED BY <3>1, <3>2
  <2> HIDE DEF rm
  <2>5. [r EXCEPT ![m] = rm] = [n \in Memories |-> IF n = m THEN rm ELSE r[n]]
    BY <1>1
  <2>6. DOMAIN p = Memories /\ p = [n \in Memories |-> p[n]]
    OBVIOUS
  <2> HIDE DEF p
  <2>7. [n \in Memories |-> IF n = m THEN rm ELSE r[n]] = [n \in Memories |-> p[n]]
    BY <2>3, <2>4
  <2>8. q = p
    BY <2>1, <2>5, <2>6, <2>7
  <2> QED BY <2>8 DEF p
<1> HIDE DEF q
<1>3. \A n \in Memories, j \in Items : q[n][j] = IF n = m /\ j = i THEN v ELSE r[n][j]
  BY <1>2
<1>4. q = [n \in Memories |-> [j \in Items |-> q[n][j]]]
  BY <1>2
<1>5. \A n \in Memories, j \in Items : q[n][j] \in Field(SizeOf(j))
  BY <1>3 DEF KeptOK
<1> QED BY <1>3, <1>4, <1>5 DEF KeptOK, q

\* What a write transaction changes, in the memory and in the history.
SaveChanges(t, bytes) ==
    LET a == Address(at, t.item) + t.from
    IN /\ misplaced' = (misplaced \/ (at = "Offboard" /\ t.item[2] \in OnlyOnboard))
       /\ \A m \in Memories, x \in UsedAddresses :
             eeprom'[m][x] = IF m = at /\ a <= x /\ x < a + t.len
                             THEN bytes[x - a + 1] ELSE eeprom[m][x]
       /\ \A m \in Memories, i \in Items : \A k \in 1 .. SizeOf(i) :
             kept'[m][i][k] = IF m = at /\ i = t.item /\ t.from < k /\ k <= t.from + t.len
                              THEN bytes[k - t.from] ELSE kept[m][i][k]

LEMMA SaveFacts ==
    ASSUME TypeInv, Save
    PROVE  LET t == Head(todo)
           IN /\ t \in ItemTransfers /\ todo' = Tail(todo) /\ todo' \in Seq(ItemTransfers)
              /\ eeprom' \in [Memories -> [UsedAddresses -> Byte]] /\ KeptOK(kept')
              /\ misplaced' \in BOOLEAN
              /\ \/ UNCHANGED <<eeprom, kept, misplaced>>
                 \/ \E bytes : SaveChanges(t, bytes)
<1> DEFINE t == Head(todo)
           a == Address(at, t.item) + t.from
<1>1. /\ todo # <<>> /\ todo \in Seq(ItemTransfers) /\ todo' = Tail(todo)
      /\ at \in Memories /\ present \in [Memories -> BOOLEAN] /\ misplaced \in BOOLEAN
      /\ eeprom \in [Memories -> [UsedAddresses -> Byte]] /\ RamOK(ram) /\ KeptOK(kept)
  BY DEF Save, SaveTo, TypeInv
<1>2. t \in ItemTransfers /\ todo' \in Seq(ItemTransfers)
  BY <1>1, TodoFacts
<1>3. PICK bytes \in Sent(t, ram[Cell(t.item)]) :
          IF present[at]
          THEN /\ eeprom' = [eeprom EXCEPT ![at] = Written(@, a, bytes)]
               /\ kept' = [kept EXCEPT ![at][t.item] = Patched(@, t, bytes)]
               /\ misplaced' = (misplaced \/ (at = "Offboard" /\ t.item[2] \in OnlyOnboard))
          ELSE UNCHANGED <<eeprom, kept, misplaced>>
  BY DEF Save, SaveTo, Patched
<1> HIDE DEF t
<1>4. CASE ~present[at]
  BY <1>1, <1>2, <1>3, <1>4 DEF t
<1>5. CASE present[at]
  <2>1. /\ t.item \in Items /\ t.from \in Nat /\ t.len \in Nat
        /\ t.from + t.len <= SizeOf(t.item)
        /\ ((Address(at, t.item) + t.from) % 32) + t.len <= 32
    BY <1>1, <1>2 DEF ItemTransfers
  <2>2. Address(at, t.item) \in Nat /\ SizeOf(t.item) \in Nat /\ a \in Nat
    <3>1. Address(at, t.item) \in Nat /\ SizeOf(t.item) \in {1, 2, 4, 8, 16, 32, 64}
      BY <1>1, <2>1, ItemFacts
    <3> QED BY <2>1, <3>1
  <2>3. ram[Cell(t.item)] \in Field(SizeOf(t.item))
    BY <1>1, <2>1, CellFacts DEF RamOK
  <2>4. bytes \in Field(t.len) /\ Len(bytes) = t.len
    BY <1>2, <2>3, SentFacts
  <2> HIDE DEF a
  <2>5. /\ DOMAIN Written(eeprom[at], a, bytes) = UsedAddresses
        /\ \A x \in UsedAddresses : Written(eeprom[at], a, bytes)[x] =
              IF a <= x /\ x < a + t.len THEN bytes[x - a + 1] ELSE eeprom[at][x]
    <3>1. DOMAIN eeprom[at] = UsedAddresses /\ UsedAddresses \subseteq Nat
      BY <1>1, AddressesUsed
    <3>2. (a % 32) + t.len <= 32
      BY <2>1 DEF a
    <3> DEFINE e == eeprom[at]
    <3>3. DOMAIN e = UsedAddresses /\ (a % 32) + Len(bytes) <= 32 /\ Len(bytes) \in Nat
      BY <2>1, <2>4, <3>1, <3>2
    <3> HIDE DEF e
    <3>4. /\ DOMAIN Written(e, a, bytes) = DOMAIN e
          /\ \A x \in DOMAIN e : Written(e, a, bytes)[x] =
                IF a <= x /\ x < a + Len(bytes) THEN bytes[x - a + 1] ELSE e[x]
      BY <2>2, <3>1, <3>3, WrittenFacts
    <3> QED BY <2>4, <3>3, <3>4 DEF e
  <2>6. Written(eeprom[at], a, bytes) \in [UsedAddresses -> Byte]
    <3>1. ASSUME NEW x \in UsedAddresses PROVE Written(eeprom[at], a, bytes)[x] \in Byte
      <4>1. x \in Nat /\ eeprom[at][x] \in Byte
        BY <1>1, AddressesUsed
      <4>2. a <= x /\ x < a + t.len => x - a + 1 \in 1 .. t.len
        BY <2>1, <2>2, <4>1
      <4>3. a <= x /\ x < a + t.len => bytes[x - a + 1] \in Byte
        BY <2>4, <4>2 DEF Field
      <4> QED BY <2>5, <4>1, <4>3
    <3>2. Written(eeprom[at], a, bytes)
            = [x \in UsedAddresses |-> Written(eeprom[at], a, bytes)[x]]
      BY <2>5 DEF Written
    <3> QED BY <3>1, <3>2
  <2>7. eeprom' = [eeprom EXCEPT ![at] = Written(eeprom[at], a, bytes)]
    BY <1>3, <1>5
  <2>8. /\ eeprom' \in [Memories -> [UsedAddresses -> Byte]]
        /\ \A m \in Memories : eeprom'[m] = IF m = at THEN Written(eeprom[at], a, bytes)
                                                      ELSE eeprom[m]
    BY <1>1, <2>6, <2>7
  <2>9. \A m \in Memories, x \in UsedAddresses :
            eeprom'[m][x] = IF m = at /\ a <= x /\ x < a + t.len
                            THEN bytes[x - a + 1] ELSE eeprom[m][x]
    BY <2>5, <2>8
  <2> DEFINE v == Patched(kept[at][t.item], t, bytes)
  <2>10. kept[at][t.item] \in Field(SizeOf(t.item))
    BY <1>1, <2>1 DEF KeptOK
  <2>11. /\ v \in Field(SizeOf(t.item))
         /\ \A k \in 1 .. SizeOf(t.item) : v[k] =
               IF k > t.from /\ k <= t.from + t.len THEN bytes[k - t.from] ELSE kept[at][t.item][k]
    BY <1>2, <2>4, <2>10, PatchedFacts
  <2>12. kept' = [kept EXCEPT ![at][t.item] = v]
    BY <1>3, <1>5
  <2> HIDE DEF v
  <2>13. /\ KeptOK(kept')
         /\ \A m \in Memories, i \in Items :
               kept'[m][i] = IF m = at /\ i = t.item THEN v ELSE kept[m][i]
    <3> DEFINE new == [kept EXCEPT ![at][t.item] = v]
    <3>1. KeptOK(new) /\ \A m \in Memories, i \in Items :
              new[m][i] = IF m = at /\ i = t.item THEN v ELSE kept[m][i]
      BY <1>1, <2>1, <2>11, KeptSet
    <3>2. kept' = new
      BY <2>12
    <3> HIDE DEF new
    <3> QED BY <3>1, <3>2
  <2>14. ASSUME NEW m \in Memories, NEW i \in Items, NEW k \in 1 .. SizeOf(i)
         PROVE  kept'[m][i][k] = IF m = at /\ i = t.item /\ t.from < k /\ k <= t.from + t.len
                                 THEN bytes[k - t.from] ELSE kept[m][i][k]
    <3>1. CASE m = at /\ i = t.item
      <4>1. kept'[m][i][k] = IF k > t.from /\ k <= t.from + t.len
                             THEN bytes[k - t.from] ELSE kept[m][i][k]
        BY <2>11, <2>13, <3>1
      <4>2. (k > t.from) <=> (t.from < k)
        BY <2>1
      <4> QED BY <3>1, <4>1, <4>2
    <3>2. CASE ~(m = at /\ i = t.item)
      BY <2>13, <3>2
    <3> QED BY <3>1, <3>2
  <2>15. misplaced' = (misplaced \/ (at = "Offboard" /\ t.item[2] \in OnlyOnboard))
    BY <1>3, <1>5
  <2>16. SaveChanges(t, bytes)
    BY <2>9, <2>14, <2>15 DEF SaveChanges, a
  <2>17. misplaced' \in BOOLEAN
    BY <2>15, Zenon
  <2> QED BY <1>1, <1>2, <2>8, <2>13, <2>16, <2>17 DEF t
<1> QED BY <1>4, <1>5

----------------------------------------------------------------------------
(* Types.                                                                  *)

LEMMA CellCases ==
    ASSUME NEW c \in Cells
    PROVE  /\ SizeOf(c) \in Nat
           /\ c[1] = "param" => SizeOf(c) \in {1, 2, 4} /\ c[3] \in Nat
<1>0. "Onboard" \in Memories
  BY DEF Memories
<1>1. PICK i \in Items : c = Cell(i)
  BY DEF Cells
<1>2. SizeOf(c) = SizeOf(i)
  BY <1>1, CellFacts
<1>3. SizeOf(i) \in Nat
  <2>1. SizeOf(i) \in {1, 2, 4, 8, 16, 32, 64}
    BY <1>0, ItemFacts
  <2> QED BY <2>1
<1>4. CASE i \in Modules
  <2>1. PICK d, k : IsModule(i, d, k)
    BY <1>4, ModuleCase
  <2>2. i[1] = "dsp"
    BY <1>0, <2>1, ModulePlace
  <2>3. c = i
    BY <1>1, <2>2 DEF Cell, Element
  <2> QED BY <1>2, <1>3, <2>2, <2>3
<1>5. CASE i \in Elements
  <2>1. PICK id, n : IsElement(i, id, n)
    BY <1>5, ElementCase
  <2>2. SizeOf(i) \in {1, 2, 4} /\ i[3] \in Nat
    BY <1>0, <2>1, ElementPlace
  <2>3. c[3] \in Nat
    BY <1>1, <2>2 DEF Cell, Element
  <2> QED BY <1>2, <1>3, <2>2, <2>3
<1> QED BY <1>4, <1>5 DEF Items

LEMMA DefaultTable ==
    /\ \A id \in DOMAIN DefaultValues : DefaultValues[id] \in Seq(Nat)
    /\ "PS_Model" \in DOMAIN DefaultValues /\ DefaultValues["PS_Model"] = <<31>>
<1>1. DOMAIN DefaultValues = {"PS_Name", "PS_Model", "Num_PS_Modules", "Command_Interface",
          "RS485_Baudrate", "RS485_Address", "RS485_Termination", "Ethernet_IP",
          "Ethernet_Subnet_Mask", "Buzzer_Volume"}
  BY SMT DEF DefaultValues
<1>2. /\ DefaultValues["PS_Name"] = <<73, 110, 105, 116>> /\ DefaultValues["PS_Model"] = <<31>>
      /\ DefaultValues["Num_PS_Modules"] = <<1>> /\ DefaultValues["Command_Interface"] = <<0>>
      /\ DefaultValues["RS485_Address"] = <<1, 30, 30, 30>>
      /\ DefaultValues["RS485_Termination"] = <<1>>
      /\ DefaultValues["Ethernet_IP"] = <<10, 0, 25, 43>>
      /\ DefaultValues["Ethernet_Subnet_Mask"] = <<255, 255, 255, 0>>
      /\ DefaultValues["Buzzer_Volume"] = <<1>>
  BY SMT DEF DefaultValues, default_ps_name, Uninitialized
<1>3. DefaultValues["RS485_Baudrate"] \in Seq(Nat)
  <2>1. DefaultValues["RS485_Baudrate"] = <<\h47E10000>>
    BY SMT DEF DefaultValues
  <2>2. \h47E10000 \in Nat
    BY SMT
  <2> QED BY <2>1, <2>2, SMT
<1>4. /\ <<73, 110, 105, 116>> \in Seq(Nat) /\ <<31>> \in Seq(Nat) /\ <<1>> \in Seq(Nat)
      /\ <<0>> \in Seq(Nat) /\ <<1, 30, 30, 30>> \in Seq(Nat)
      /\ <<10, 0, 25, 43>> \in Seq(Nat) /\ <<255, 255, 255, 0>> \in Seq(Nat)
  BY SMT
<1>5. /\ DefaultValues["PS_Name"] \in Seq(Nat)
      /\ DefaultValues["PS_Model"] \in Seq(Nat)
      /\ DefaultValues["Num_PS_Modules"] \in Seq(Nat)
      /\ DefaultValues["Command_Interface"] \in Seq(Nat)
      /\ DefaultValues["RS485_Address"] \in Seq(Nat)
      /\ DefaultValues["RS485_Termination"] \in Seq(Nat)
      /\ DefaultValues["Ethernet_IP"] \in Seq(Nat)
      /\ DefaultValues["Ethernet_Subnet_Mask"] \in Seq(Nat)
      /\ DefaultValues["Buzzer_Volume"] \in Seq(Nat)
  BY <1>2, <1>4, SMT
<1>6. \A id \in DOMAIN DefaultValues : DefaultValues[id] \in Seq(Nat)
  BY <1>1, <1>3, <1>5, Zenon
<1>7. "PS_Model" \in DOMAIN DefaultValues
  BY <1>1
<1> QED BY <1>2, <1>6, <1>7, Zenon

LEMMA DefaultFacts ==
    ASSUME RamOK(ram)
    PROVE  RamOK(load_param_bank_default) /\ Number(load_param_bank_default[Model]) = 31
<1> DEFINE Has(i) == /\ i[1] = "param" /\ i[2] \in DOMAIN DefaultValues
                     /\ i[3] < Len(DefaultValues[i[2]])
           new == load_param_bank_default
<1>1. new = [i \in Cells |-> IF Has(i) THEN Bytes(DefaultValues[i[2]][i[3] + 1], SizeOf(i))
                                       ELSE ram[i]]
  BY DEF load_param_bank_default
<1>2. ASSUME NEW i \in Cells PROVE new[i] \in Field(SizeOf(i))
  <2>1. CASE Has(i)
    <3>1. SizeOf(i) \in {1, 2, 4} /\ i[3] \in Nat
      BY <2>1, CellCases
    <3>2. DefaultValues[i[2]] \in Seq(Nat)
      BY <2>1, DefaultTable
    <3>3. DefaultValues[i[2]][i[3] + 1] \in Nat
      BY <2>1, <3>1, <3>2
    <3>4. new[i] = Bytes(DefaultValues[i[2]][i[3] + 1], SizeOf(i))
      BY <1>1, <2>1, Zenon
    <3> QED BY <3>1, <3>3, <3>4, BytesFacts
  <2>2. CASE ~Has(i)
    <3>1. new[i] = ram[i]
      BY <1>1, <2>2, Zenon
    <3> QED BY <3>1 DEF RamOK
  <2> QED BY <2>1, <2>2
<1>3. new = [i \in Cells |-> new[i]]
  BY <1>1, Zenon
<1>4. Number(new[Model]) = 31
  <2>1. Model \in Cells /\ SizeOf(Model) = 2
    <3>1. Model \in Items /\ Alone(Model) /\ SizeOf(Model) = 2
      BY SpecialFacts DEF Model, Items
    <3> QED BY <3>1, CellFacts
  <2>2. Model[1] = "param" /\ Model[2] = "PS_Model" /\ Model[3] = 0
    BY DEF Model, Element
  <2>3. Has(Model) /\ DefaultValues[Model[2]][Model[3] + 1] = 31
    BY <2>2, DefaultTable
  <2>4. new[Model] = Bytes(31, 2)
    <3>1. new[Model] = Bytes(DefaultValues[Model[2]][Model[3] + 1], SizeOf(Model))
      BY <1>1, <2>1, <2>3, Zenon
    <3> QED BY <2>1, <2>3, <3>1
  <2>5. Bytes(31, 2) \in Field(2)
    BY BytesFacts
  <2>6. Len(Bytes(31, 2)) = 2
    BY <2>5, FieldSeq
  <2>7. Bytes(31, 2)[1] = 31 /\ Bytes(31, 2)[2] = 0
    BY DEF Bytes
  <2> HIDE DEF new
  <2> QED BY <2>4, <2>6, <2>7 DEF Number
<1> QED BY <1>2, <1>3, <1>4 DEF RamOK

LEMMA NumberFacts ==
    ASSUME NEW b \in Field(2)
    PROVE  Number(b) = b[1] + 256 * b[2] /\ Number(b) \in Nat
<1>1. Len(b) = 2
  BY FieldSeq
<1>2. b[1] \in Nat /\ b[2] \in Nat
  BY DEF Field, Byte
<1> QED BY <1>1, <1>2 DEF Number

LEMMA ModelCell ==
    ASSUME RamOK(ram)
    PROVE  /\ Model \in Cells /\ ram[Model] \in Field(2) /\ PS_MODEL \in Nat
           /\ PS_MODEL = ram[Model][1] + 256 * ram[Model][2]
<1>1. Model \in Items /\ Alone(Model) /\ SizeOf(Model) = 2
  BY SpecialFacts DEF Model, Items
<1>2. Model \in Cells
  BY <1>1, CellFacts
<1>3. ram[Model] \in Field(2)
  BY <1>1, <1>2 DEF RamOK
<1> QED BY <1>2, <1>3, NumberFacts DEF PS_MODEL, Model

LEMMA FilledFacts ==
    ASSUME NEW model \in Nat, NEW enable \in Byte
    PROVE  Filled(model, enable) \in [UsedAddresses -> Byte]
<1> DEFINE Content(i) == IF i = Element("PS_Model", 0) THEN Bytes(model, 2)
                         ELSE IF i = Element("Enable_Onboard_EEPROM", 0) THEN <<enable>>
                         ELSE Pattern(Address("Onboard", i), SizeOf(i))
<1>0. "Onboard" \in Memories
  BY DEF Memories
<1>1. ASSUME NEW i \in Items
      PROVE  Content(i) \in Field(SizeOf(i)) /\ SizeOf(i) \in Nat /\ Address("Onboard", i) \in Nat
  <2>1. SizeOf(i) \in {1, 2, 4, 8, 16, 32, 64} /\ Address("Onboard", i) \in Nat
    BY <1>0, ItemFacts
  <2>2. CASE i = Element("PS_Model", 0)
    <3>1. Content(i) = Bytes(model, 2) /\ SizeOf(i) = 2
      BY <2>2, SpecialFacts
    <3> QED BY <2>1, <3>1, BytesFacts
  <2>3. CASE i = Element("Enable_Onboard_EEPROM", 0)
    <3>1. Element("PS_Model", 0) # Element("Enable_Onboard_EEPROM", 0)
      BY DEF Element
    <3>2. Content(i) = <<enable>> /\ SizeOf(i) = 1
      BY <2>3, <3>1, SpecialFacts
    <3>3. <<enable>> \in Field(1)
      BY DEF Field
    <3> QED BY <2>1, <3>2, <3>3
  <2>4. CASE i # Element("PS_Model", 0) /\ i # Element("Enable_Onboard_EEPROM", 0)
    <3>1. Content(i) = Pattern(Address("Onboard", i), SizeOf(i))
      BY <2>4
    <3>2. SizeOf(i) \in Nat
      BY <2>1
    <3> QED BY <2>1, <3>1, <3>2, PatternFacts
  <2> QED BY <2>2, <2>3, <2>4
<1> DEFINE First(x) == CHOOSE j \in ItemsAt(x) : TRUE
           Value(x) == IF ItemsAt(x) = {} THEN Blank
                       ELSE Content(First(x))[x - Address("Onboard", First(x)) + 1]
<1>2. Filled(model, enable) = [x \in UsedAddresses |-> Value(x)]
  BY DEF Filled
<1>3. ASSUME NEW x \in UsedAddresses, ItemsAt(x) # {} PROVE First(x) \in ItemsAt(x)
  <2> HIDE DEF Content
  <2> QED BY <1>3
<1> HIDE DEF Content, First
<1>4. ASSUME NEW x \in UsedAddresses PROVE Value(x) \in Byte
  <2>1. CASE ItemsAt(x) = {}
    BY <2>1 DEF Blank, Byte
  <2>2. CASE ItemsAt(x) # {}
    <3>1. First(x) \in Items /\ x \in Address("Onboard", First(x)) ..
                                     Address("Onboard", First(x)) + SizeOf(First(x)) - 1
      BY <1>3, <2>2 DEF ItemsAt
    <3>2. /\ Content(First(x)) \in Field(SizeOf(First(x))) /\ SizeOf(First(x)) \in Nat
          /\ Address("Onboard", First(x)) \in Nat
      BY <1>1, <3>1
    <3>3. x - Address("Onboard", First(x)) + 1 \in 1 .. SizeOf(First(x))
      BY <3>1, <3>2
    <3>4. Content(First(x))[x - Address("Onboard", First(x)) + 1] \in Byte
      BY <3>2, <3>3 DEF Field
    <3> QED BY <2>2, <3>4
  <2> QED BY <2>1, <2>2
<1> HIDE DEF Value
<1> QED BY <1>2, <1>4

LEMMA ZeroFacts == \A i \in Cells : Zero(i) \in Field(SizeOf(i))
BY CellCases DEF Zero, Field, Byte

LEMMA TypeInit == Init => TypeInv /\ PhaseInv
<1> SUFFICES ASSUME Init PROVE TypeInv /\ PhaseInv
  OBVIOUS
<1>1. present \in [Memories -> BOOLEAN] /\ present["Onboard"]
  BY DEF Init
<1>2. eeprom \in [Memories -> [UsedAddresses -> Byte]]
  <2>1. PICK off \in Factory, on \in Factory, enable \in {0, Blank} :
            eeprom = [Offboard |-> Filled(IF present["Offboard"] THEN off ELSE Blank, Blank),
                      Onboard |-> Filled(on, enable)]
    BY DEF Init
  <2> DEFINE model == IF present["Offboard"] THEN off ELSE Blank
  <2>2. model \in Nat /\ on \in Nat /\ enable \in Byte /\ Blank \in Byte
    BY ParamAssumption DEF Blank, Byte
  <2> HIDE DEF model
  <2>3. Filled(model, Blank) \in [UsedAddresses -> Byte]
        /\ Filled(on, enable) \in [UsedAddresses -> Byte]
    BY <2>2, FilledFacts
  <2>4. eeprom = [Offboard |-> Filled(model, Blank), Onboard |-> Filled(on, enable)]
    BY <2>1 DEF model
  <2> QED BY <2>3, <2>4 DEF Memories
<1>3. RamOK(ram)
  BY ZeroFacts DEF Init, RamOK
<1>4. KeptOK(kept)
  <2>1. kept = [m \in Memories |-> [i \in Items |->
                   read_i2c(eeprom[m], TRUE, Address(m, i), SizeOf(i))]]
    BY DEF Init
  <2>2. ASSUME NEW m \in Memories, NEW i \in Items PROVE kept[m][i] \in Field(SizeOf(i))
    <3>1. Address(m, i) \in Nat /\ SizeOf(i) \in {1, 2, 4, 8, 16, 32, 64}
      BY ItemFacts
    <3>2. SizeOf(i) \in Nat /\ eeprom[m] \in [UsedAddresses -> Byte]
      BY <1>2, <3>1
    <3>3. kept[m][i] = read_i2c(eeprom[m], TRUE, Address(m, i), SizeOf(i))
      BY <2>1
    <3>4. read_i2c(eeprom[m], TRUE, Address(m, i), SizeOf(i)) \in Field(SizeOf(i))
      BY <3>1, <3>2 DEF read_i2c, Field, Byte, Blank
    <3> QED BY <3>3, <3>4
  <2>3. kept = [m \in Memories |-> [i \in Items |-> kept[m][i]]]
    BY <2>1
  <2> QED BY <2>2, <2>3 DEF KeptOK
<1>5. todo \in Seq(ItemTransfers)
  BY LoadsFacts DEF Init
<1>6. \A s \in Servers : Len(servers[s]) <= 128
  BY DEF Init
<1> QED BY <1>1, <1>2, <1>3, <1>4, <1>5, <1>6 DEF Init, TypeInv, PhaseInv, Memories

LEMMA BootTyped ==
    ASSUME TypeInv, Boot
    PROVE  TypeInv' /\ PhaseInv'
<1>1. RamOK(ram')
  <2>1. PICK cleared \in BOOLEAN :
            ram' = [i \in Cells |-> IF i \in Modules /\ ~cleared THEN ram[i] ELSE Zero(i)]
    BY DEF Boot
  <2>2. ASSUME NEW i \in Cells PROVE ram'[i] \in Field(SizeOf(i))
    <3>1. ram[i] \in Field(SizeOf(i)) /\ Zero(i) \in Field(SizeOf(i))
      BY ZeroFacts DEF TypeInv, RamOK
    <3>2. ram'[i] = IF i \in Modules /\ ~cleared THEN ram[i] ELSE Zero(i)
      BY <2>1, Zenon
    <3> QED BY <3>1, <3>2
  <2>3. ram' = [i \in Cells |-> ram'[i]]
    BY <2>1, Zenon
  <2> QED BY <2>2, <2>3 DEF RamOK
<1>2. todo' \in Seq(ItemTransfers)
  BY LoadsFacts DEF Boot, Loads
<1>3. \A s \in Servers : Len(servers'[s]) <= 128
  BY DEF Boot
<1>4. /\ present' = present /\ eeprom' = eeprom /\ kept' = kept /\ misplaced' = misplaced
      /\ phase' = "special" /\ at' = "Onboard" /\ fresh' = FALSE
  BY DEF Boot
<1> QED BY <1>1, <1>2, <1>3, <1>4 DEF TypeInv, PhaseInv, Memories

\* What the commands leave, a reset apart: they set a cell, or begin with
\* transactions.
Commanded ==
    /\ RamOK(ram') /\ todo' \in Seq(ItemTransfers) /\ at' \in Memories
    /\ \/ phase' = "run" /\ todo' = todo
       \/ phase' \in {"save", "load"}
    /\ fresh' = FALSE
    /\ UNCHANGED <<present, eeprom, servers, kept, misplaced>>

LEMMA ElementItem ==
    ASSUME NEW id \in Ids, NEW n \in Nat, n < num_elements(id)
    PROVE  /\ Element(id, n) \in Items /\ Cell(Element(id, n)) \in Cells
           /\ SizeOf(Element(id, n)) \in {1, 2, 4}
           /\ SizeOf(Cell(Element(id, n))) = SizeOf(Element(id, n))
<1>1. num_elements(id) \in Nat
  <2>1. param_info(id).elements \in 1 .. 64 /\ MaxElements \in 1 .. 4
    BY ParamSizes, ParamAssumption DEF AllIds
  <2> QED BY <2>1 DEF num_elements
<1>2. n \in 0 .. num_elements(id) - 1
  BY <1>1
<1>3. Element(id, n) \in ElementsOf(id)
  BY <1>2 DEF ElementsOf
<1>4. Element(id, n) \in Elements
  BY <1>3 DEF Elements
<1>5. Element(id, n) \in Items
  BY <1>4 DEF Items
<1>6. PICK jd, k : IsElement(Element(id, n), jd, k)
  BY <1>4, ElementCase
<1>7. "Onboard" \in Memories
  BY DEF Memories
<1>8. SizeOf(Element(id, n)) \in {1, 2, 4}
  BY <1>6, <1>7, ElementPlace
<1> QED BY <1>5, <1>8, CellFacts

LEMMA InputFacts == \A id \in Ids : InputsOf(id) \subseteq Nat
BY ParamAssumption DEF InputsOf

\* The answer of a call without transactions, and one with.
LEMMA AnswerTyped ==
    ASSUME TypeInv, Call, NEW a, Answer(a), RamOK(ram')
    PROVE  Commanded
BY DEF TypeInv, Call, Answer, Commanded

LEMMA TransactTyped ==
    ASSUME TypeInv, Call, NEW kind \in {"save", "load"}, NEW m \in Memories, NEW items, NEW a,
           Transact(kind, m, items, a), UNCHANGED ram, AllTransfers(items) \in Seq(ItemTransfers)
    PROVE  Commanded
BY DEF TypeInv, Call, Transact, Commanded

LEMMA CommandTyped ==
    ASSUME TypeInv, Command
    PROVE  Commanded \/ Boot
<1>0. RamOK(ram) /\ TypeInv
  BY DEF TypeInv
<1>1. /\ AllTransfers(BankItems) \in Seq(ItemTransfers)
      /\ AllTransfers(DspItems) \in Seq(ItemTransfers)
      /\ \A i \in Items : AllTransfers(<<i>>) \in Seq(ItemTransfers)
      /\ Modules \subseteq Items
  <2>1. TransfersOf(BankSet) \subseteq ItemTransfers /\ TransfersOf(Modules) \subseteq ItemTransfers
    BY DEF TransfersOf
  <2> QED BY <2>1, LoadsFacts, WiderSeq
<1>2. CASE Locked
  BY <1>0, <1>2, AnswerTyped DEF Locked
<1>3. CASE bsmp_set_param
  <2>1. PICK id \in Ids : \E n \in Indices(id), v \in InputsOf(id) :
          IF n < num_elements(id)
          THEN /\ ram' = [ram EXCEPT ![Cell(Element(id, n))] = Bytes(v, SizeOf(Element(id, n)))]
               /\ Answer("Ok")
          ELSE Answer("Invalid_Command") /\ UNCHANGED ram
    BY <1>3 DEF bsmp_set_param
  <2>2. PICK n \in Indices(id), v \in InputsOf(id) :
          IF n < num_elements(id)
          THEN /\ ram' = [ram EXCEPT ![Cell(Element(id, n))] = Bytes(v, SizeOf(Element(id, n)))]
               /\ Answer("Ok")
          ELSE Answer("Invalid_Command") /\ UNCHANGED ram
    BY <2>1
  <2>3. n \in Nat /\ v \in Nat /\ Call
    BY <1>3, InputFacts DEF bsmp_set_param, Indices
  <2>4. CASE n < num_elements(id)
    <3> DEFINE c == Cell(Element(id, n))
               b == Bytes(v, SizeOf(Element(id, n)))
    <3>1. c \in Cells /\ b \in Field(SizeOf(c))
      BY <2>3, <2>4, ElementItem, BytesFacts
    <3>2. ram' = [ram EXCEPT ![c] = b] /\ Answer("Ok")
      BY <2>2, <2>4
    <3> HIDE DEF c, b
    <3>3. RamOK([ram EXCEPT ![c] = b])
      BY <1>0, <3>1, RamSet
    <3> QED BY <1>0, <2>3, <3>2, <3>3, AnswerTyped
  <2>5. CASE ~(n < num_elements(id))
    BY <1>0, <2>2, <2>3, <2>5, AnswerTyped
  <2> QED BY <2>4, <2>5
<1>4. CASE bsmp_get_param
  <2>1. PICK a : Answer(a)
    BY <1>4 DEF bsmp_get_param
  <2> QED BY <1>0, <1>4, <2>1, AnswerTyped DEF bsmp_get_param
<1>5. CASE bsmp_set_serial_termination
  <2> DEFINE c == Element("RS485_Termination", 0)
  <2>1. PICK v \in Inputs : ram' = [ram EXCEPT ![c] = Bytes(v, 2)]
    BY <1>5 DEF bsmp_set_serial_termination
  <2>2. c \in Items /\ Alone(c) /\ SizeOf(c) = 2
    BY SpecialFacts
  <2> HIDE DEF c
  <2>3. c \in Cells
    BY <2>2, CellFacts
  <2>4. Bytes(v, 2) \in Field(SizeOf(c))
    BY <2>2, BytesFacts, ParamAssumption
  <2>5. RamOK([ram EXCEPT ![c] = Bytes(v, 2)])
    BY <1>0, <2>3, <2>4, RamSet
  <2> QED BY <1>0, <1>5, <2>1, <2>5, AnswerTyped DEF bsmp_set_serial_termination
<1>6. CASE bsmp_get_dsp_coeff
  BY <1>0, <1>6, AnswerTyped DEF bsmp_get_dsp_coeff
<1>7. ASSUME NEW kind \in {"save", "load"}, Call, UNCHANGED ram,
             \E id \in Ids, m \in TypeMemory : \E n \in Indices(id) :
                IF m \in Memories /\ n < num_elements(id)
                THEN Transact(kind, m, <<Element(id, n)>>, "Ok")
                ELSE Answer("Invalid_Command")
      PROVE  Commanded
  <2>1. PICK id \in Ids, m \in TypeMemory : \E n \in Indices(id) :
                IF m \in Memories /\ n < num_elements(id)
                THEN Transact(kind, m, <<Element(id, n)>>, "Ok")
                ELSE Answer("Invalid_Command")
    BY <1>7
  <2>2. PICK n \in Indices(id) :
                IF m \in Memories /\ n < num_elements(id)
                THEN Transact(kind, m, <<Element(id, n)>>, "Ok")
                ELSE Answer("Invalid_Command")
    BY <2>1
  <2>3. n \in Nat
    BY DEF Indices
  <2>4. CASE m \in Memories /\ n < num_elements(id)
    <3>1. Element(id, n) \in Items
      BY <2>3, <2>4, ElementItem
    <3>2. AllTransfers(<<Element(id, n)>>) \in Seq(ItemTransfers)
      BY <1>1, <3>1
    <3> QED BY <1>0, <1>7, <2>2, <2>4, <3>2, TransactTyped
  <2>5. CASE ~(m \in Memories /\ n < num_elements(id))
    BY <1>0, <1>7, <2>2, <2>5, AnswerTyped
  <2> QED BY <2>4, <2>5
<1>8. CASE bsmp_save_param_eeprom
  BY <1>7, <1>8 DEF bsmp_save_param_eeprom
<1>9. CASE bsmp_load_param_eeprom
  BY <1>7, <1>9 DEF bsmp_load_param_eeprom
<1>10. CASE bsmp_save_param_bank
  <2>1. PICK m \in TypeMemory :
          IF m \in Memories THEN Transact("save", m, BankItems, "Ok") ELSE Answer("Ok")
    BY <1>10 DEF bsmp_save_param_bank
  <2> QED BY <1>0, <1>1, <1>10, <2>1, TransactTyped, AnswerTyped DEF bsmp_save_param_bank
<1>11. CASE bsmp_load_param_bank
  <2>1. PICK m \in TypeMemory :
          \/ m \in Memories /\ Transact("load", m, BankItems, "unset") /\ UNCHANGED ram
          \/ m = "Default" /\ ram' = load_param_bank_default /\ Answer("unset")
          \/ m = "other" /\ Answer("unset") /\ UNCHANGED ram
    BY <1>11 DEF bsmp_load_param_bank
  <2>2. Call
    BY <1>11 DEF bsmp_load_param_bank
  <2>3. RamOK(load_param_bank_default)
    BY <1>0, DefaultFacts
  <2> QED BY <1>0, <1>1, <2>1, <2>2, <2>3, TransactTyped, AnswerTyped
<1>12. CASE bsmp_set_dsp_coeffs
  <2>1. CASE Answer("Invalid_Command") /\ UNCHANGED ram
    BY <1>0, <1>12, <2>1, AnswerTyped DEF bsmp_set_dsp_coeffs
  <2>2. ASSUME NEW i \in Modules, NEW v \in Inputs, NEW a \in MailboxAnswers, Answer(a), Call,
               ram' = [ram EXCEPT ![i] = [k \in DOMAIN @ |->
                          IF k <= UsedBytes(i) THEN Pattern(v, SizeOf(i))[k] ELSE @[k]]]
        PROVE  Commanded
    <3> DEFINE new == [k \in DOMAIN ram[i] |->
                          IF k <= UsedBytes(i) THEN Pattern(v, SizeOf(i))[k] ELSE ram[i][k]]
    <3>1. i \in Items /\ Cell(i) = i
      <4>1. PICK c, k : IsModule(i, c, k)
        BY ModuleCase
      <4>2. i[1] = "dsp"
        BY <4>1, ModulePlace DEF Memories
      <4> QED BY <1>1, <4>2 DEF Cell, Element
    <3>2. i \in Cells
      BY <3>1, CellFacts
    <3>3. ram[i] \in Field(SizeOf(i)) /\ SizeOf(i) \in Nat
      BY <1>0, <3>2, CellCases DEF RamOK
    <3>4. Pattern(v, SizeOf(i)) \in Field(SizeOf(i))
      BY <3>3, PatternFacts, ParamAssumption
    <3>5. new \in Field(SizeOf(i))
      BY <3>3, <3>4 DEF Field
    <3>6. ram' = [ram EXCEPT ![i] = new]
      BY <2>2
    <3> HIDE DEF new
    <3>7. RamOK(ram')
      BY <1>0, <3>2, <3>5, <3>6, RamSet
    <3> QED BY <1>0, <2>2, <3>7, AnswerTyped
  <2> QED BY <1>12, <2>1, <2>2 DEF bsmp_set_dsp_coeffs
<1>13. CASE bsmp_save_dsp_coeffs_eeprom
  <2>1. CASE Answer("Invalid_Command")
    BY <1>0, <1>13, <2>1, AnswerTyped DEF bsmp_save_dsp_coeffs_eeprom
  <2>2. CASE \E i \in Modules, m \in Memories : Transact("save", m, <<i>>, "Ok")
    <3>1. PICK i \in Modules, m \in Memories : Transact("save", m, <<i>>, "Ok")
      BY <2>2
    <3>2. AllTransfers(<<i>>) \in Seq(ItemTransfers)
      BY <1>1
    <3> QED BY <1>0, <1>13, <3>1, <3>2, TransactTyped DEF bsmp_save_dsp_coeffs_eeprom
  <2> QED BY <1>13, <2>1, <2>2 DEF bsmp_save_dsp_coeffs_eeprom
<1>14. CASE bsmp_load_dsp_coeffs_eeprom
  <2>1. CASE Answer("Invalid_Command")
    BY <1>0, <1>14, <2>1, AnswerTyped DEF bsmp_load_dsp_coeffs_eeprom
  <2>2. CASE \E i \in Modules, m \in Memories, a \in MailboxAnswers : Transact("load", m, <<i>>, a)
    <3>1. PICK i \in Modules, m \in Memories, a \in MailboxAnswers : Transact("load", m, <<i>>, a)
      BY <2>2
    <3>2. AllTransfers(<<i>>) \in Seq(ItemTransfers)
      BY <1>1
    <3> QED BY <1>0, <1>14, <3>1, <3>2, TransactTyped DEF bsmp_load_dsp_coeffs_eeprom
  <2> QED BY <1>14, <2>1, <2>2 DEF bsmp_load_dsp_coeffs_eeprom
<1>15. CASE bsmp_save_dsp_modules_eeprom
  <2>1. PICK m \in TypeMemory :
          IF m \in Memories THEN Transact("save", m, DspItems, "Ok") ELSE Answer("Ok")
    BY <1>15 DEF bsmp_save_dsp_modules_eeprom
  <2> QED BY <1>0, <1>1, <1>15, <2>1, TransactTyped, AnswerTyped DEF bsmp_save_dsp_modules_eeprom
<1>16. CASE bsmp_load_dsp_modules_eeprom
  <2>1. PICK m \in TypeMemory :
          IF m \in Memories THEN Transact("load", m, DspItems, "Ok") ELSE Answer("Ok")
    BY <1>16 DEF bsmp_load_dsp_modules_eeprom
  <2> QED BY <1>0, <1>1, <1>16, <2>1, TransactTyped, AnswerTyped DEF bsmp_load_dsp_modules_eeprom
<1>17. CASE bsmp_reset_udc
  BY <1>17 DEF bsmp_reset_udc, Answer, Commanded, TypeInv
<1> QED BY <1>2, <1>3, <1>4, <1>5, <1>6, <1>8, <1>9, <1>10, <1>11, <1>12, <1>13, <1>14, <1>15,
           <1>16, <1>17 DEF Command

LEMMA CommandedTyped ==
    ASSUME TypeInv, PhaseInv, Commanded, phase = "run"
    PROVE  TypeInv' /\ PhaseInv'
<1>1. todo = <<>>
  BY DEF PhaseInv
<1> QED BY <1>1 DEF TypeInv, PhaseInv, Commanded

LEMMA CommandRuns == Command => phase = "run"
BY DEF Command, Call, Locked, bsmp_set_param, bsmp_get_param, bsmp_set_serial_termination,
   bsmp_get_dsp_coeff, bsmp_save_param_eeprom, bsmp_load_param_eeprom, bsmp_save_param_bank,
   bsmp_load_param_bank, bsmp_set_dsp_coeffs, bsmp_save_dsp_coeffs_eeprom,
   bsmp_load_dsp_coeffs_eeprom, bsmp_save_dsp_modules_eeprom, bsmp_load_dsp_modules_eeprom,
   bsmp_reset_udc

\* The coefficients have cells of their own.
LEMMA ModuleCells ==
    ASSUME NEW i \in Modules
    PROVE  i \in Items /\ i \in Cells /\ Cell(i) = i /\ Alone(i) /\ i # Model
<1>1. PICK c, k : IsModule(i, c, k)
  BY ModuleCase
<1>2. i[1] = "dsp" /\ i[2] = c /\ c \in AllClasses
  BY <1>1, ModulePlace DEF Memories
<1>3. i \in Items
  BY DEF Items
<1>4. c \notin {"Buzzer_Volume", "Command_Interface"}
  BY <1>2 DEF AllClasses, num_dsp_modules
<1>5. Alone(i)
  BY <1>2, <1>4 DEF Alone
<1> QED BY <1>2, <1>3, <1>5, CellFacts DEF Model, Element

LEMMA TypeStep ==
    ASSUME TypeInv, PhaseInv, [Next]_vars
    PROVE  TypeInv' /\ PhaseInv'
<1>1. CASE Load
  <2> DEFINE t == Head(todo)
  <2>1. /\ t \in ItemTransfers /\ todo' = Tail(todo) /\ todo' \in Seq(ItemTransfers) /\ RamOK(ram')
        /\ \A c \in Cells : c # Cell(t.item) => ram'[c] = ram[c]
    BY <1>1, LoadFacts
  <2>2. todo # <<>> /\ UNCHANGED <<present, eeprom, servers, phase, at, fresh, kept, misplaced>>
    BY <1>1 DEF Load
  <2>3. TypeInv'
    BY <2>1, <2>2 DEF TypeInv
  <2>4. phase # "run"
    BY <2>2 DEF PhaseInv
  <2>5. ASSUME phase = "dsp" PROVE PS_MODEL' <= 100 /\ todo' \in Seq(TransfersOf(Modules))
    <3>1. PS_MODEL <= 100 /\ todo \in Seq(TransfersOf(Modules))
      BY <2>5 DEF PhaseInv
    <3>2. t \in TransfersOf(Modules) /\ todo' \in Seq(TransfersOf(Modules))
      BY <2>1, <2>2, <3>1, TodoFacts
    <3> HIDE DEF t
    <3>3. t.item \in Modules
      BY <3>2 DEF TransfersOf
    <3>4. Cell(t.item) # Model
      BY <3>3, ModuleCells
    <3>5. ram'[Model] = ram[Model]
      BY <2>1, <3>4, ModelCell DEF TypeInv
    <3> QED BY <3>1, <3>2, <3>5 DEF PS_MODEL, Model
  <2> QED BY <2>2, <2>3, <2>4, <2>5 DEF PhaseInv
<1>2. CASE Save
  <2>1. /\ todo' \in Seq(ItemTransfers) /\ misplaced' \in BOOLEAN
        /\ eeprom' \in [Memories -> [UsedAddresses -> Byte]] /\ KeptOK(kept')
    BY <1>2, SaveFacts
  <2>2. phase = "save" /\ UNCHANGED <<present, ram, servers, phase, at, fresh>>
    BY <1>2 DEF Save, SaveTo
  <2> QED BY <2>1, <2>2 DEF TypeInv, PhaseInv
<1>3. CASE Return
  BY <1>3 DEF Return, TypeInv, PhaseInv
<1>4. AllTransfers(BankItems) \in Seq(ItemTransfers) /\ AllTransfers(DspItems) \in Seq(ItemTransfers)
  <2>1. TransfersOf(BankSet) \subseteq ItemTransfers /\ TransfersOf(Modules) \subseteq ItemTransfers
    BY DEF TransfersOf
  <2> QED BY <2>1, LoadsFacts, WiderSeq
<1>5. CASE load_param_bank_offboard_eeprom
  BY <1>4, <1>5 DEF load_param_bank_offboard_eeprom, BootStep, Loads, TypeInv, PhaseInv, Memories
<1>6. CASE load_param_bank_onboard_eeprom
  BY <1>4, <1>6 DEF load_param_bank_onboard_eeprom, BootStep, Loads, TypeInv, PhaseInv, Memories
<1>7. CASE load_dsp_modules_eeprom
  <2>1. PS_MODEL <= 100 /\ PS_MODEL' = PS_MODEL
    BY <1>7, ModelCell DEF load_dsp_modules_eeprom, check_param_bank, TypeInv, PS_MODEL
  <2> QED BY <1>4, <1>7, <2>1, LoadsFacts
          DEF load_dsp_modules_eeprom, BootStep, Loads, TypeInv, PhaseInv
<1>8. CASE DefaultBank
  <2>1. RamOK(ram') /\ PS_MODEL' = 31
    BY <1>8, DefaultFacts DEF DefaultBank, TypeInv, PS_MODEL, Model
  <2>2. <<>> \in Seq(TransfersOf(Modules))
    OBVIOUS
  <2> QED BY <1>8, <2>1, <2>2 DEF DefaultBank, BootStep, TypeInv, PhaseInv
<1>9. CASE Configure
  <2>1. PS_MODEL \in 0 .. 100
    <3>1. PS_MODEL \in Nat
      BY ModelCell DEF TypeInv
    <3>2. PS_MODEL <= 100
      BY <1>9 DEF Configure, PhaseInv
    <3> QED BY <3>1, <3>2
  <2>2. \A s \in Servers : Len(servers'[s]) <= 128
    BY <1>9, <2>1, ModelsFit DEF Configure
  <2> QED BY <1>9, <2>2 DEF Configure, TypeInv, PhaseInv
<1>10. CASE Command
  BY <1>10, CommandTyped, CommandRuns, CommandedTyped, BootTyped
<1>11. CASE PowerFails
  BY <1>11, BootTyped DEF PowerFails
<1>12. CASE UNCHANGED vars
  BY <1>12 DEF vars, TypeInv, PhaseInv, PS_MODEL
<1> QED BY <1>1, <1>2, <1>3, <1>5, <1>6, <1>7, <1>8, <1>9, <1>10, <1>11, <1>12 DEF Next, Work

(* Every cell of the RAM and of the EEPROMs keeps its width, transactions  *)
(* stay inside their item, and no server has more than 128 variables,      *)
(* whatever the tables, the commands and the power failures.               *)
THEOREM ParamTypes == Spec => []TypeOK
<1>1. TypeInv => TypeOK
  <2> SUFFICES ASSUME TypeInv PROVE TypeOK
    OBVIOUS
  <2>1. ASSUME NEW i \in Cells
        PROVE  Len(ram[i]) = SizeOf(i) /\ \A k \in DOMAIN ram[i] : ram[i][k] \in Byte
    <3>1. ram[i] \in Field(SizeOf(i)) /\ SizeOf(i) \in Nat
      BY CellCases DEF TypeInv, RamOK
    <3> QED BY <3>1, FieldSeq DEF Field
  <2>2. \A m \in Memories, x \in UsedAddresses : eeprom[m][x] \in Byte
    BY DEF TypeInv
  <2>3. \A k \in DOMAIN todo : /\ todo[k].item \in Items
                               /\ todo[k].from + todo[k].len <= SizeOf(todo[k].item)
    <3> TAKE k \in DOMAIN todo
    <3>1. todo[k] \in ItemTransfers
      BY DEF TypeInv
    <3> QED BY <3>1 DEF ItemTransfers
  <2> QED BY <2>1, <2>2, <2>3 DEF TypeInv, TypeOK, BSMP_MAX_VARIABLES
<1> QED BY <1>1, TypeInit, TypeStep, PTL DEF Spec

----------------------------------------------------------------------------
(* What was saved survives.                                                *)

LEMMA SurvivesInit == Init => Survives
<1> SUFFICES ASSUME Init, NEW m \in Memories, NEW i \in Items, NEW k \in 1 .. SizeOf(i)
             PROVE  eeprom[m][Address(m, i) + k - 1] = kept[m][i][k]
  BY DEF Survives
<1>1. eeprom \in [Memories -> [UsedAddresses -> Byte]]
  BY TypeInit DEF TypeInv
<1>2. DOMAIN eeprom[m] = UsedAddresses /\ Address(m, i) + k - 1 \in UsedAddresses
  BY <1>1, AddressesUsed
<1>3. kept[m][i] = read_i2c(eeprom[m], TRUE, Address(m, i), SizeOf(i))
  BY DEF Init
<1> QED BY <1>2, <1>3 DEF read_i2c

\* A transaction for one item touches no byte of another that keeps its place.
LEMMA SaveElsewhere ==
    ASSUME TypeInv, NEW t \in ItemTransfers, NEW i \in Items, i # t.item,
           at = "Offboard" => i[2] \notin OnlyOnboard /\
                              (t.item[2] \in OnlyOnboard => i[2] # "PS_Name"),
           NEW k \in 1 .. SizeOf(i)
    PROVE  LET a == Address(at, t.item) + t.from
               x == Address(at, i) + k - 1
           IN ~(a <= x /\ x < a + t.len)
<1> DEFINE j == t.item
           f == t.from
           l == t.len
<1>1. j \in Items /\ f \in Nat /\ l \in Nat /\ f + l <= SizeOf(j) /\ at \in Memories
  BY DEF ItemTransfers, TypeInv
<1> HIDE DEF j, f, l
<1>2. Apart(Address(at, j), SizeOf(j), Address(at, i), SizeOf(i))
  <2>1. CASE at = "Offboard" /\ j[2] \in OnlyOnboard
    <3>1. i[2] \notin OnlyOnboard /\ i[2] # "PS_Name"
      BY <2>1 DEF j
    <3> QED BY <1>1, <2>1, <3>1, MisplacedApart
  <2>2. CASE ~(at = "Offboard" /\ j[2] \in OnlyOnboard)
    <3>1. Own(at, i) /\ Own(at, j) /\ i # j
      BY <2>2 DEF Own, j
    <3> QED BY <1>1, <3>1, ItemsApart
  <2> QED BY <2>1, <2>2
<1>3. /\ Address(at, j) \in Nat /\ Address(at, i) \in Nat
      /\ SizeOf(j) \in {1, 2, 4, 8, 16, 32, 64} /\ SizeOf(i) \in {1, 2, 4, 8, 16, 32, 64}
  BY <1>1, ItemFacts
<1>4. SizeOf(j) \in Nat /\ SizeOf(i) \in Nat
  BY <1>3
<1> DEFINE aj == Address(at, j)
           ai == Address(at, i)
           sj == SizeOf(j)
           si == SizeOf(i)
<1>5. /\ aj \in Nat /\ ai \in Nat /\ sj \in Nat /\ si \in Nat /\ k \in 1 .. si
      /\ f + l <= sj /\ (aj + sj <= ai \/ ai + si <= aj)
  BY <1>1, <1>2, <1>3, <1>4 DEF Apart
<1> HIDE DEF aj, ai, sj, si
<1>6. ~(aj + f <= ai + k - 1 /\ ai + k - 1 < aj + f + l)
  BY <1>1, <1>5
<1> QED BY <1>6 DEF aj, ai, j, f, l

LEMMA SurvivesStep ==
    ASSUME TypeInv, Survives, [Next]_vars
    PROVE  Survives'
<1>1. CASE UNCHANGED <<eeprom, kept, misplaced>>
  BY <1>1 DEF Survives, Placed
<1>2. CASE Save /\ ~UNCHANGED <<eeprom, kept, misplaced>>
  <2> DEFINE t == Head(todo)
  <2>1. t \in ItemTransfers /\ \E bytes : SaveChanges(t, bytes)
    BY <1>2, SaveFacts
  <2> HIDE DEF t
  <2>2. PICK bytes : SaveChanges(t, bytes)
    BY <2>1
  <2> DEFINE a == Address(at, t.item) + t.from
  <2>3. /\ misplaced' = (misplaced \/ (at = "Offboard" /\ t.item[2] \in OnlyOnboard))
        /\ \A m \in Memories, x \in UsedAddresses :
              eeprom'[m][x] = IF m = at /\ a <= x /\ x < a + t.len
                              THEN bytes[x - a + 1] ELSE eeprom[m][x]
        /\ \A m \in Memories, i \in Items : \A k \in 1 .. SizeOf(i) :
              kept'[m][i][k] = IF m = at /\ i = t.item /\ t.from < k /\ k <= t.from + t.len
                               THEN bytes[k - t.from] ELSE kept[m][i][k]
    BY <2>2 DEF SaveChanges
  <2> SUFFICES ASSUME NEW m \in Memories, NEW i \in Items, Placed(m, i)', NEW k \in 1 .. SizeOf(i)
               PROVE  eeprom'[m][Address(m, i) + k - 1] = kept'[m][i][k]
    BY DEF Survives
  <2> DEFINE x == Address(m, i) + k - 1
  <2>4. x \in UsedAddresses
    BY AddressesUsed
  <2>5. eeprom[m][x] = kept[m][i][k]
    <3>1. Placed(m, i)
      BY <2>3 DEF Placed
    <3> QED BY <3>1 DEF Survives
  <2>6. CASE m # at
    BY <2>3, <2>4, <2>5, <2>6
  <2>7. CASE m = at /\ i # t.item
    <3>1. at = "Offboard" => i[2] \notin OnlyOnboard /\
                             (t.item[2] \in OnlyOnboard => i[2] # "PS_Name")
      BY <2>3, <2>7 DEF Placed
    <3>2. ~(a <= x /\ x < a + t.len)
      BY <2>1, <2>7, <3>1, SaveElsewhere
    <3> QED BY <2>3, <2>4, <2>5, <2>7, <3>2
  <2>8. CASE m = at /\ i = t.item
    <3>1. t.from \in Nat /\ t.len \in Nat
      BY <2>1 DEF ItemTransfers
    <3>2. Address(m, i) \in Nat
      BY ItemFacts
    <3>3. k \in Nat
      <4>1. SizeOf(i) \in {1, 2, 4, 8, 16, 32, 64}
        BY ItemFacts
      <4> QED BY <4>1
    <3>4. /\ (a <= x /\ x < a + t.len) <=> (t.from < k /\ k <= t.from + t.len)
          /\ x - a + 1 = k - t.from
      BY <2>8, <3>1, <3>2, <3>3
    <3> HIDE DEF x, a
    <3> QED BY <2>3, <2>4, <2>5, <2>8, <3>4 DEF x
  <2> QED BY <2>6, <2>7, <2>8
<1>3. Save \/ UNCHANGED <<eeprom, kept, misplaced>>
  <2>1. CASE Command
    <3>1. Commanded \/ Boot
      BY <2>1, CommandTyped
    <3> QED BY <3>1 DEF Commanded, Boot
  <2>2. CASE Work
    BY <2>2 DEF Work, Load, Return, load_param_bank_offboard_eeprom, BootStep,
       load_param_bank_onboard_eeprom, load_dsp_modules_eeprom, DefaultBank, Configure
  <2>3. CASE PowerFails
    BY <2>3 DEF PowerFails, Boot
  <2>4. CASE UNCHANGED vars
    BY <2>4 DEF vars
  <2> QED BY <2>1, <2>2, <2>3, <2>4 DEF Next
<1> QED BY <1>1, <1>2, <1>3

(* What was last written of a parameter or of a module's coefficients is   *)
(* what its addresses hold: no other save, no page boundary and no save    *)
(* that a power failure cut short disturbs it (ps_parameters.c, eeprom.c). *)
THEOREM SavedItemsSurvive == Spec => []SavedSurvives
<1>1. TypeInv /\ Survives => SavedSurvives
  <2> SUFFICES ASSUME TypeInv, Survives, NEW m \in Memories, NEW i \in Items, Placed(m, i)
               PROVE  read_i2c(eeprom[m], TRUE, Address(m, i), SizeOf(i)) = kept[m][i]
    BY DEF SavedSurvives, UsedPart
  <2>1. kept[m][i] \in Field(SizeOf(i)) /\ eeprom[m] \in [UsedAddresses -> Byte]
    BY DEF TypeInv, KeptOK
  <2>2. \A k \in 1 .. SizeOf(i) : /\ Address(m, i) + k - 1 \in UsedAddresses
                                  /\ eeprom[m][Address(m, i) + k - 1] = kept[m][i][k]
    BY AddressesUsed DEF Survives
  <2>3. kept[m][i] = [k \in 1 .. SizeOf(i) |-> kept[m][i][k]]
    BY <2>1 DEF Field
  <2>4. read_i2c(eeprom[m], TRUE, Address(m, i), SizeOf(i))
          = [k \in 1 .. SizeOf(i) |-> kept[m][i][k]]
    BY <2>1, <2>2 DEF read_i2c
  <2> QED BY <2>3, <2>4
<1>2. Init => TypeInv /\ PhaseInv /\ Survives
  BY TypeInit, SurvivesInit
<1>3. TypeInv /\ PhaseInv /\ Survives /\ [Next]_vars => (TypeInv /\ PhaseInv /\ Survives)'
  BY TypeStep, SurvivesStep
<1> QED BY <1>1, <1>2, <1>3, PTL DEF Spec

----------------------------------------------------------------------------
(* The source of a boot.                                                   *)

LEMMA SpecialCells ==
    /\ Model \in Items /\ Model \in Cells /\ Alone(Model) /\ SizeOf(Model) = 2 /\ Model \in BankSet
    /\ Enable \in Items /\ Enable \in Cells /\ Alone(Enable) /\ SizeOf(Enable) = 1
    /\ Enable \notin BankSet /\ Enable \notin Modules
    /\ \A m \in Memories : Placed(m, Model)
    /\ Placed("Onboard", Enable)
<1>1. Model \in Items /\ Alone(Model) /\ SizeOf(Model) = 2 /\ Model \in Elements
      /\ Enable \in Items /\ Alone(Enable) /\ SizeOf(Enable) = 1
  BY SpecialFacts DEF Model, Enable, Items
<1>2. Model[2] = "PS_Model" /\ Enable[2] = "Enable_Onboard_EEPROM" /\ Enable[1] = "param"
  BY DEF Model, Enable, Element
<1>3. Model \in BankSet /\ Enable \notin BankSet
  BY <1>1, <1>2 DEF BankSet, OnlyOnboard
<1>4. Enable \notin Modules
  <2> SUFFICES ASSUME Enable \in Modules PROVE FALSE
    OBVIOUS
  <2>1. PICK c, k : IsModule(Enable, c, k)
    BY ModuleCase
  <2> QED BY <1>2, <2>1, ModulePlace DEF Memories
<1> QED BY <1>1, <1>2, <1>3, <1>4, CellFacts DEF Placed, OnlyOnboard

\* Loaded, with the transactions that are left as a parameter.
LEMMA LoadKeeps ==
    ASSUME TypeInv, Load, NEW i \in Items, Alone(i), NEW m \in Memories, Loaded(m, i),
           Head(todo).item = i => m = at
    PROVE  Loaded(m, i)'
<1> DEFINE t == Head(todo)
<1>1. /\ t \in ItemTransfers /\ todo' = Tail(todo)
      /\ \A k \in 1 .. SizeOf(t.item) :
            ram'[Cell(t.item)][k] = IF t.from < k /\ k <= t.from + t.len
                                    THEN ReadByte(at, t.item, k) ELSE ram[Cell(t.item)][k]
      /\ \A c \in Cells : c # Cell(t.item) => ram'[c] = ram[c]
  BY LoadFacts
<1>2. \A p, k : Pending(todo, p, k) => Covers(t, p, k) \/ Pending(todo', p, k)
  <2>1. todo \in Seq(ItemTransfers) /\ todo # <<>>
    BY DEF TypeInv, Load
  <2> QED BY <1>1, <2>1, TodoFacts
<1>3. t.item = i => m = at
  OBVIOUS
<1> HIDE DEF t
<1>4. \A k : ReadByte(m, i, k)' = ReadByte(m, i, k)
  BY DEF Load, ReadByte
<1>5. Cell(i) = i /\ i \in Cells /\ t.item \in Items
  BY <1>1, CellFacts DEF ItemTransfers
<1>6. ASSUME NEW k \in 1 .. SizeOf(i)
      PROVE  ram'[i][k] = ReadByte(m, i, k) \/ Pending(todo', i, k)
  <2>1. ram[i][k] = ReadByte(m, i, k) \/ Pending(todo, i, k)
    BY DEF Loaded
  <2>2. CASE t.item = i
    <3>1. ram'[i][k] = IF t.from < k /\ k <= t.from + t.len
                       THEN ReadByte(m, i, k) ELSE ram[i][k]
      BY <1>1, <1>3, <1>5, <2>2
    <3> QED BY <1>2, <2>1, <2>2, <3>1 DEF Covers
  <2>3. CASE t.item # i
    <3>1. Cell(t.item) # i
      BY <1>5, <2>3, CellFacts
    <3>2. ram'[i] = ram[i] /\ ~Covers(t, i, k)
      BY <1>1, <1>5, <2>3, <3>1 DEF Covers
    <3> QED BY <1>2, <2>1, <3>2
  <2> QED BY <2>2, <2>3
<1> QED BY <1>4, <1>6 DEF Loaded

\* The bank says which model this is as soon as it is there.
LEMMA ModelRead ==
    ASSUME TypeInv, Survives, NEW m \in Memories, Loaded(m, Model), todo = <<>>
    PROVE  (PS_MODEL <= 100) <=> Usable(m)
<1>1. /\ PS_MODEL = ram[Model][1] + 256 * ram[Model][2]
      /\ ram[Model][1] = ReadByte(m, Model, 1) /\ ram[Model][2] = ReadByte(m, Model, 2)
  <2>1. \A k \in 1 .. 2 : ram[Model][k] = ReadByte(m, Model, k)
    BY SpecialCells, NothingPending DEF Loaded
  <2> QED BY <2>1, ModelCell DEF TypeInv
<1>2. /\ kept[m][Model] \in Field(2)
      /\ Number(kept[m][Model]) = kept[m][Model][1] + 256 * kept[m][Model][2]
  <2>1. kept[m][Model] \in Field(2)
    BY SpecialCells DEF TypeInv, KeptOK
  <2> QED BY <2>1, NumberFacts
<1>3. CASE present[m]
  <2>1. \A k \in 1 .. 2 : ReadByte(m, Model, k) = kept[m][Model][k]
    BY <1>3, SpecialCells DEF ReadByte, Survives
  <2>2. PS_MODEL = Number(kept[m][Model])
    BY <1>1, <1>2, <2>1
  <2> QED BY <1>3, <2>2 DEF Usable, Model
<1>4. CASE ~present[m]
  <2>1. ReadByte(m, Model, 1) = 255 /\ ReadByte(m, Model, 2) = 255
    BY <1>4 DEF ReadByte
  <2>2. PS_MODEL = 65535
    BY <1>1, <2>1
  <2> QED BY <1>4, <2>2 DEF Usable
<1> QED BY <1>3, <1>4

LEMMA EnableRead ==
    ASSUME TypeInv, Survives, Loaded("Onboard", Enable), \A k : ~Pending(todo, Enable, k)
    PROVE  ram[Enable] = <<0>> <=> Enabled
<1>1. "Onboard" \in Memories /\ present["Onboard"]
  BY DEF TypeInv, Memories
<1>2. ram[Enable] \in Field(1) /\ kept["Onboard"][Enable] \in Field(1)
  BY <1>1, SpecialCells DEF TypeInv, KeptOK, RamOK
<1>3. ram[Enable][1] = kept["Onboard"][Enable][1]
  <2>1. 1 \in 1 .. SizeOf(Enable)
    BY SpecialCells
  <2>2. ram[Enable][1] = ReadByte("Onboard", Enable, 1)
    BY <2>1 DEF Loaded
  <2>3. eeprom["Onboard"][Address("Onboard", Enable) + 1 - 1] = kept["Onboard"][Enable][1]
    BY <1>1, <2>1, SpecialCells DEF Survives
  <2> QED BY <1>1, <2>2, <2>3 DEF ReadByte
<1>4. ram[Enable] = kept["Onboard"][Enable]
  BY <1>2, <1>3 DEF Field
<1> QED BY <1>4 DEF Enabled

\* All of the bank and of the coefficients is there.
LEMMA RestoredFrom ==
    ASSUME TypeInv, Survives, NEW m \in Memories, present[m], todo = <<>>,
           BankLoaded(m), ModulesLoaded(m)
    PROVE  Restored(m)
<1> SUFFICES ASSUME NEW i \in Items, Placed(m, i), Alone(i), i[2] \notin OnlyOnboard
             PROVE  ram[i] = kept[m][i]
  BY DEF Restored, UsedPart
<1>1. i \in BankSet \/ i \in Modules
  BY DEF Items, BankSet
<1>2. Loaded(m, i)
  BY <1>1 DEF BankLoaded, ModulesLoaded
<1>3. i \in Cells
  BY CellFacts
<1>4. ram[i] \in Field(SizeOf(i)) /\ kept[m][i] \in Field(SizeOf(i))
  BY <1>3 DEF TypeInv, RamOK, KeptOK
<1>5. \A k \in 1 .. SizeOf(i) : ram[i][k] = kept[m][i][k]
  <2> TAKE k \in 1 .. SizeOf(i)
  <2>1. ram[i][k] = ReadByte(m, i, k)
    BY <1>2, NothingPending DEF Loaded
  <2>2. eeprom[m][Address(m, i) + k - 1] = kept[m][i][k]
    BY DEF Survives
  <2> QED BY <2>1, <2>2 DEF ReadByte
<1> DEFINE f == ram[i]
           g == kept[m][i]
           n == SizeOf(i)
<1>6. f \in Field(n) /\ g \in Field(n) /\ \A k \in 1 .. n : f[k] = g[k]
  BY <1>4, <1>5
<1> HIDE DEF f, g, n
<1>7. f = g
  <2>1. f = [k \in 1 .. n |-> f[k]] /\ g = [k \in 1 .. n |-> g[k]]
    BY <1>6 DEF Field
  <2>2. [k \in 1 .. n |-> f[k]] = [k \in 1 .. n |-> g[k]]
    BY <1>6
  <2> QED BY <2>1, <2>2
<1> QED BY <1>7 DEF f, g

LEMMA BootPending ==
    ASSUME TypeInv', Boot
    PROVE  BootInv'
<1>1. Loaded("Onboard", Enable)'
  BY LoadsFacts DEF Boot, Loads, Loaded, Enable
<1> QED BY <1>1 DEF BootInv, Boot

LEMMA BootInit == Init => BootInv
<1> SUFFICES ASSUME Init PROVE BootInv
  OBVIOUS
<1>1. Loaded("Onboard", Enable)
  BY LoadsFacts DEF Init, Loaded, Enable
<1> QED BY <1>1 DEF BootInv, Init

\* What does not depend on the RAM.
Sources == <<present, eeprom, kept>>

LEMMA SourcesKept ==
    ASSUME UNCHANGED Sources
    PROVE  /\ \A m : Usable(m)' <=> Usable(m)
           /\ Enabled' <=> Enabled
           /\ \A m : Chosen(m)' <=> Chosen(m)
           /\ \A m, i, k : ReadByte(m, i, k)' = ReadByte(m, i, k)
BY DEF Sources, Usable, Enabled, Chosen, ReadByte

\* A cell that has been read stays as it is while others are.
LEMMA LoadedKept ==
    ASSUME UNCHANGED Sources, UNCHANGED ram, NEW m, NEW i, Loaded(m, i), todo = <<>>
    PROVE  Loaded(m, i)'
<1>1. \A k \in 1 .. SizeOf(i) : ram[i][k] = ReadByte(m, i, k)
  BY NothingPending DEF Loaded
<1> QED BY <1>1, SourcesKept DEF Loaded

LEMMA LoadBoots ==
    ASSUME TypeInv, PhaseInv, BootInv, Load
    PROVE  BootInv'
<1> DEFINE t == Head(todo)
<1>1. todo # <<>> /\ todo' = Tail(todo) /\ phase \notin {"save", "run"} /\ ~fresh
      /\ UNCHANGED Sources /\ UNCHANGED <<phase, at, fresh>>
  BY DEF Load, PhaseInv, BootInv, Sources
<1>2. ASSUME NEW S, todo \in Seq(TransfersOf(S))
      PROVE  t.item \in S /\ todo' \in Seq(TransfersOf(S))
  <2>1. t \in TransfersOf(S) /\ todo' \in Seq(TransfersOf(S))
    BY <1>1, <1>2, TodoFacts
  <2> QED BY <2>1 DEF TransfersOf
<1>3. at \in Memories /\ "Onboard" \in Memories
  BY DEF TypeInv, Memories
<1>4. ASSUME NEW m \in Memories, m = at, BankLoaded(m) PROVE BankLoaded(m)'
  <2> SUFFICES ASSUME NEW i \in BankSet, Alone(i) PROVE Loaded(m, i)'
    BY DEF BankLoaded
  <2>1. i \in Items /\ Loaded(m, i)
    BY <1>4, LoadsFacts DEF BankLoaded
  <2> QED BY <1>4, <2>1, LoadKeeps
<1>5. ASSUME NEW m \in Memories, m = at, ModulesLoaded(m) PROVE ModulesLoaded(m)'
  <2> SUFFICES ASSUME NEW i \in Modules PROVE Loaded(m, i)'
    BY DEF ModulesLoaded
  <2>1. i \in Items /\ Loaded(m, i) /\ Alone(i)
    BY <1>5, ModuleCells DEF ModulesLoaded
  <2> QED BY <1>5, <2>1, LoadKeeps
<1>6. CASE phase = "special"
  <2>1. at = "Onboard" /\ Loaded("Onboard", Enable)
    BY <1>6 DEF BootInv
  <2>2. Loaded("Onboard", Enable)'
    BY <1>3, <2>1, SpecialCells, LoadKeeps
  <2> QED BY <1>1, <1>6, <2>1, <2>2 DEF BootInv
<1>7. CASE phase = "offboard"
  <2>1. /\ at = "Offboard" /\ todo \in Seq(TransfersOf(BankSet))
        /\ BankLoaded("Offboard") /\ Loaded("Onboard", Enable)
    BY <1>7 DEF BootInv
  <2>2. t.item \in BankSet /\ todo' \in Seq(TransfersOf(BankSet))
    BY <1>2, <2>1
  <2>3. t.item # Enable
    BY <2>2, SpecialCells
  <2>4. Loaded("Onboard", Enable)'
    BY <1>3, <2>1, <2>3, SpecialCells, LoadKeeps
  <2>5. BankLoaded("Offboard")'
    BY <1>3, <1>4, <2>1
  <2> QED BY <1>1, <1>7, <2>1, <2>2, <2>4, <2>5 DEF BootInv
<1>8. CASE phase = "onboard"
  <2>1. /\ at = "Onboard" /\ todo \in Seq(TransfersOf(BankSet))
        /\ BankLoaded("Onboard") /\ ~Usable("Offboard") /\ Enabled
    BY <1>8 DEF BootInv
  <2>2. todo' \in Seq(TransfersOf(BankSet))
    BY <1>2, <2>1
  <2>3. BankLoaded("Onboard")'
    BY <1>3, <1>4, <2>1
  <2> QED BY <1>1, <1>8, <2>1, <2>2, <2>3, SourcesKept DEF BootInv
<1>9. CASE phase = "dsp"
  <2>1. CASE BankLoaded(at) /\ ModulesLoaded(at) /\ Chosen(at)
    <3>1. PICK m \in Memories : m = at
      BY <1>3
    <3>2. BankLoaded(m)' /\ ModulesLoaded(m)' /\ Chosen(m)'
      BY <1>1, <1>4, <1>5, <2>1, <3>1, SourcesKept
    <3>3. BankLoaded(at)' /\ ModulesLoaded(at)' /\ Chosen(at)'
      BY <1>1, <3>1, <3>2 DEF BankLoaded, ModulesLoaded, Chosen, Loaded, ReadByte
    <3> QED BY <1>1, <1>9, <3>3 DEF BootInv
  <2>2. CASE /\ ~Usable("Offboard") /\ ~(Usable("Onboard") /\ Enabled)
             /\ PS_MODEL = Uninitialized
    <3>1. t.item \in Modules
      BY <1>2, <1>9 DEF PhaseInv
    <3>2. Cell(t.item) # Model
      BY <3>1, ModuleCells
    <3>3. ram'[Model] = ram[Model]
      BY <3>2, LoadFacts, SpecialCells
    <3>4. PS_MODEL' = Uninitialized
      BY <2>2, <3>3 DEF PS_MODEL, Model
    <3> QED BY <1>1, <1>9, <2>2, <3>4, SourcesKept DEF BootInv
  <2> QED BY <1>9, <2>1, <2>2 DEF BootInv
<1>10. CASE phase = "load"
  BY <1>1, <1>10 DEF BootInv
<1> QED BY <1>1, <1>6, <1>7, <1>8, <1>9, <1>10 DEF TypeInv

\* What BootSource asks for after a boot.
BootsRight ==
    IF Usable("Offboard") THEN Restored("Offboard")
    ELSE IF Usable("Onboard") /\ Enabled THEN Restored("Onboard")
         ELSE PS_MODEL = Uninitialized

LEMMA BootStepKept ==
    ASSUME BankInv, TypeInv', [Next]_vars
    PROVE  BootInv'
<1> USE DEF BankInv
<1>1. "Onboard" \in Memories /\ "Offboard" \in Memories /\ at \in Memories
  BY DEF TypeInv, Memories
<1>2. CASE Load
  BY <1>2, LoadBoots
<1>3. CASE Save
  <2>1. phase' = "save" /\ fresh' = FALSE
    BY <1>3 DEF Save, SaveTo, BootInv, TypeInv
  <2> QED BY <2>1 DEF BootInv
<1>4. CASE Return
  <2>1. phase' = "run" /\ fresh' = FALSE
    BY <1>4 DEF Return, BootInv, TypeInv
  <2> QED BY <2>1 DEF BootInv
<1>5. CASE load_param_bank_offboard_eeprom
  <2>1. /\ phase = "special" /\ phase' = "offboard" /\ at' = "Offboard" /\ todo = <<>>
        /\ todo' = AllTransfers(BankItems) /\ fresh' = FALSE
        /\ UNCHANGED Sources /\ UNCHANGED ram
    BY <1>5 DEF load_param_bank_offboard_eeprom, BootStep, Loads, Sources, BootInv, TypeInv
  <2>2. Loaded("Onboard", Enable)'
    BY <2>1, LoadedKept DEF BootInv
  <2>3. BankLoaded("Offboard")'
    BY <2>1, LoadsFacts DEF BankLoaded, Loaded
  <2> QED BY <2>1, <2>2, <2>3, LoadsFacts DEF BootInv
<1>6. ASSUME NEW m \in Memories, BankLoaded(m), todo = <<>>
      PROVE  (PS_MODEL <= 100) <=> Usable(m)
  <2>1. Loaded(m, Model)
    BY <1>6, SpecialCells DEF BankLoaded
  <2> QED BY <1>6, <2>1, ModelRead
<1>7. phase = "offboard" /\ todo = <<>> => (ram[Enable] = <<0>> <=> Enabled)
  BY NothingPending, EnableRead DEF BootInv
<1>8. CASE load_param_bank_onboard_eeprom
  <2>1. /\ phase = "offboard" /\ phase' = "onboard" /\ at' = "Onboard" /\ todo = <<>>
        /\ todo' = AllTransfers(BankItems) /\ fresh' = FALSE
        /\ ~(PS_MODEL <= 100) /\ ram[Enable] = <<0>>
        /\ UNCHANGED Sources /\ UNCHANGED ram
    BY <1>8, ModelCell DEF load_param_bank_onboard_eeprom, BootStep, Loads, Sources, BootInv, TypeInv,
       check_param_bank, Enable
  <2>2. ~Usable("Offboard") /\ Enabled
    BY <1>1, <1>6, <1>7, <2>1 DEF BootInv
  <2>3. BankLoaded("Onboard")'
    BY <2>1, LoadsFacts DEF BankLoaded, Loaded
  <2> QED BY <2>1, <2>2, <2>3, LoadsFacts, SourcesKept DEF BootInv
<1>9. CASE load_dsp_modules_eeprom
  <2>1. /\ phase \in {"offboard", "onboard"} /\ phase' = "dsp" /\ at' = at /\ todo = <<>>
        /\ todo' = AllTransfers(DspItems) /\ fresh' = FALSE /\ PS_MODEL <= 100
        /\ UNCHANGED Sources /\ UNCHANGED ram
    BY <1>9, ModelCell DEF load_dsp_modules_eeprom, BootStep, Loads, Sources, BootInv, TypeInv,
       check_param_bank
  <2>2. PICK m \in Memories : m = at
    BY <1>1
  <2>3. BankLoaded(m)
    BY <2>1, <2>2 DEF BootInv
  <2>4. Chosen(m)
    BY <1>6, <2>1, <2>2, <2>3 DEF BootInv, Chosen
  <2>5. BankLoaded(m)'
    BY <2>1, <2>3, LoadedKept DEF BankLoaded
  <2>6. ModulesLoaded(m)'
    BY <2>1, LoadsFacts DEF ModulesLoaded, Loaded
  <2>7. Chosen(m)'
    BY <2>1, <2>4, SourcesKept
  <2>8. BankLoaded(at)' /\ ModulesLoaded(at)' /\ Chosen(at)'
    BY <2>1, <2>2, <2>5, <2>6, <2>7 DEF BankLoaded, ModulesLoaded, Chosen, Loaded, ReadByte
  <2> QED BY <2>1, <2>8 DEF BootInv
<1>10. CASE DefaultBank
  <2>1. /\ \/ phase = "offboard" /\ ram[Enable] # <<0>>
           \/ phase = "onboard"
        /\ ~(PS_MODEL <= 100) /\ phase' = "dsp" /\ todo = <<>> /\ fresh' = FALSE
        /\ ram' = load_param_bank_default /\ UNCHANGED Sources
    BY <1>10, ModelCell DEF DefaultBank, BootStep, Sources, BootInv, TypeInv, check_param_bank, Enable
  <2>2. PS_MODEL' = Uninitialized
    BY <2>1, DefaultFacts DEF TypeInv, PS_MODEL, Model, Uninitialized
  <2>3. CASE phase = "offboard"
    <3>1. ~Usable("Offboard") /\ ~Enabled
      BY <1>1, <1>6, <1>7, <2>1, <2>3 DEF BootInv
    <3> QED BY <2>1, <2>2, <3>1, SourcesKept DEF BootInv
  <2>4. CASE phase = "onboard"
    <3>1. ~Usable("Offboard") /\ ~Usable("Onboard")
      BY <1>1, <1>6, <2>1, <2>4 DEF BootInv
    <3> QED BY <2>1, <2>2, <3>1, SourcesKept DEF BootInv
  <2> QED BY <2>1, <2>3, <2>4
<1>11. CASE Configure
  <2>1. /\ phase = "dsp" /\ phase' = "run" /\ todo = <<>>
        /\ UNCHANGED Sources /\ UNCHANGED <<ram, misplaced>>
    BY <1>11 DEF Configure, Sources
  <2>2. BootsRight
    <3>1. CASE BankLoaded(at) /\ ModulesLoaded(at) /\ Chosen(at)
      <4>1. Usable(at)
        BY <1>1, <3>1 DEF Chosen, Memories
      <4>2. Restored(at)
        BY <1>1, <2>1, <3>1, <4>1, RestoredFrom DEF Usable
      <4> QED BY <1>1, <3>1, <4>2 DEF BootsRight, Chosen, Memories
    <3>2. CASE /\ ~Usable("Offboard") /\ ~(Usable("Onboard") /\ Enabled)
               /\ PS_MODEL = Uninitialized
      BY <3>2 DEF BootsRight
    <3> QED BY <2>1, <3>1, <3>2 DEF BootInv
  <2>3. \A m : Restored(m)' <=> Restored(m)
    BY <2>1 DEF Restored, Placed, Sources
  <2>4. PS_MODEL' = PS_MODEL
    BY <2>1 DEF PS_MODEL
  <2>5. BootsRight'
    BY <2>1, <2>2, <2>3, <2>4, SourcesKept DEF BootsRight
  <2>6. BootSource'
    BY <2>5 DEF BootSource, BootsRight, Enabled, Enable
  <2> QED BY <2>1, <2>6 DEF BootInv
<1>12. CASE Command
  <2>1. CASE Boot
    BY <2>1, BootPending
  <2>2. CASE Commanded
    <3>1. phase' \in {"run", "save", "load"} /\ fresh' = FALSE
      BY <2>2 DEF Commanded
    <3> QED BY <3>1 DEF BootInv
  <2> QED BY <1>12, <2>1, <2>2, CommandTyped
<1>13. CASE PowerFails
  BY <1>13, BootPending DEF PowerFails
<1>14. CASE UNCHANGED vars
  BY <1>14 DEF vars, BootInv, BootSource, Restored, Placed, Usable, Enabled, Chosen, BankLoaded,
     ModulesLoaded, Loaded, ReadByte, PS_MODEL
<1> QED BY <1>2, <1>3, <1>4, <1>5, <1>8, <1>9, <1>10, <1>11, <1>12, <1>13, <1>14 DEF Next, Work

(* After a boot, whatever was interrupted before it, bank and coefficients *)
(* are what was last saved in one and the same memory, the off-board one   *)
(* first; without a usable memory the supply is Uninitialized              *)
(* (init_parameters_bank, init_system and the switch of main).             *)
THEOREM BootFromOneMemory == Spec => []BootSource
<1>1. Init => BankInv
  BY TypeInit, SurvivesInit, BootInit DEF BankInv
<1>2. BankInv /\ [Next]_vars => BankInv'
  BY TypeStep, SurvivesStep, BootStepKept DEF BankInv
<1>3. BankInv => BootSource
  BY DEF BankInv, BootInv, BootSource
<1> QED BY <1>1, <1>2, <1>3, PTL DEF Spec

----------------------------------------------------------------------------
(* The registration drops no variable of a model's tables.                 *)

\* create_bsmp_var with the next free identifier takes every variable it is given.
LEMMA CreateWhole ==
    ASSUME NEW S, NEW v \in Seq(S), NEW sources \in Seq(S), NEW first \in Nat, first = Len(v),
           NEW m \in Nat, m = Len(sources), first + m <= 128,
           NEW w, w = create_bsmp_var(v, first, sources)
    PROVE  /\ w \in Seq(S) /\ Len(w) = first + m
           /\ \A k \in 1 .. first : w[k] = v[k]
           /\ \A k \in 1 .. m : w[first + k] = sources[k]
<1> DEFINE part == SubSeq(sources, 1, Len(sources))
<1>1. first \in Nat /\ m \in Nat
  OBVIOUS
<1>2. part = sources
  OBVIOUS
<1>3. w = v \o sources
  <2>1. w = v \o SubSeq(sources, Len(v) - first + 1, Len(sources))
    BY <1>1 DEF create_bsmp_var, CreateUpTo, BSMP_MAX_VARIABLES
  <2>2. Len(v) - first + 1 = 1
    BY <1>1
  <2> QED BY <1>2, <2>1, <2>2
<1>4. v \o sources \in Seq(S) /\ Len(v \o sources) = first + m
      /\ \A k \in 1 .. first + m : (v \o sources)[k] = IF k <= first THEN v[k] ELSE sources[k - first]
  BY ConcatProperties
<1>5. \A k \in 1 .. first : w[k] = v[k]
  BY <1>1, <1>3, <1>4
<1>6. ASSUME NEW k \in 1 .. m PROVE w[first + k] = sources[k]
  <2>1. first + k \in 1 .. first + m /\ ~(first + k <= first) /\ first + k - first = k
    BY <1>1
  <2> QED BY <1>3, <1>4, <2>1
<1> QED BY <1>3, <1>4, <1>5, <1>6

\* The list of the server a call is for, after the call.
Served(v, c) ==
    CASE c.op = "init" -> bsmp_init(c.server)
      [] c.op = "create" -> create_bsmp_var(v, c.first, c.sources)
      [] c.op = "modify" -> modify_bsmp_var(v, c.first, c.sources)

\* Call c names identifier id.
NamesId(c, id) == id + 1 - c.first \in DOMAIN c.sources

\* bsmp_init registers the 31 variables all supplies have in common.
LEMMA InitServes ==
    ASSUME NEW s \in Nat
    PROVE  Len(bsmp_init(s)) = 31
<1>1. CommonVars(s) \in Seq(OtherSources) /\ Len(CommonVars(s)) = 31
  BY CommonTyped, ListedCommon DEF Listed
<1>2. <<>> \in Seq(OtherSources) /\ Len(<<>>) = 0 /\ 0 + 31 <= 128
  OBVIOUS
<1> DEFINE e == <<>>
           n == 0
           q == CommonVars(s)
           w == create_bsmp_var(e, n, q)
<1>3. e \in Seq(OtherSources) /\ n = Len(e) /\ n \in Nat /\ Len(q) \in Nat /\ n + Len(q) <= 128
  BY <1>1, <1>2
<1>4. q \in Seq(OtherSources)
  BY <1>1
<1> HIDE DEF e, n, q
<1>5. Len(w) = n + Len(q)
  BY <1>3, <1>4, CreateWhole
<1> QED BY <1>1, <1>5 DEF bsmp_init, e, n, q

\* A call in its turn leaves what it names, and what was there before.
LEMMA ServedFacts ==
    ASSUME NEW S, NEW v \in VarLists(S), NEW c \in CallsWith(S), NEW m,
           InTurn(c, Len(v), m), m <= 128
    PROVE  /\ Len(Served(v, c)) = m
           /\ \A id \in Nat : NamesId(c, id) =>
                 id < m /\ Served(v, c)[id + 1] = c.sources[id + 1 - c.first]
           /\ \A id \in Nat : id < Len(v) /\ ~NamesId(c, id) =>
                 id < m /\ Served(v, c)[id + 1] = v[id + 1]
<1> DEFINE n == Len(v)
           q == c.sources
           w == Served(v, c)
<1>1. c.server \in Nat /\ c.first \in Nat /\ q \in Seq(S) /\ v \in Seq(S) /\ n \in Nat
      /\ Len(q) \in Nat /\ DOMAIN q = 1 .. Len(q)
  BY DEF CallsWith, VarLists
<1>2. CASE c.op = "init"
  <2>1. n = 0 /\ m = 31 /\ q = <<>>
    BY <1>2 DEF InTurn
  <2>2. w = bsmp_init(c.server)
    BY <1>2 DEF Served
  <2>3. Len(w) = 31
    BY <1>1, <2>2, InitServes
  <2>4. \A id : ~NamesId(c, id)
    BY <2>1 DEF NamesId
  <2> QED BY <2>1, <2>3, <2>4
<1>3. CASE c.op = "create"
  <2>1. n = c.first /\ m = n + Len(q)
    BY <1>3 DEF InTurn
  <2>2. w = create_bsmp_var(v, n, q)
    BY <1>3, <2>1 DEF Served
  <2> HIDE DEF w
  <2>3. /\ Len(w) = n + Len(q) /\ \A k \in 1 .. n : w[k] = v[k]
        /\ \A k \in 1 .. Len(q) : w[n + k] = q[k]
    <3>1. n + Len(q) <= 128
      BY <2>1
    <3>2. v \in Seq(S) /\ q \in Seq(S) /\ n \in Nat /\ Len(q) \in Nat
      BY <1>1
    <3> HIDE DEF q
    <3> QED BY <2>2, <3>1, <3>2, CreateWhole
  <2>4. ASSUME NEW id \in Nat, NamesId(c, id)
        PROVE  id < m /\ w[id + 1] = q[id + 1 - c.first]
    <3>1. id + 1 - n \in 1 .. Len(q)
      BY <1>1, <2>1, <2>4 DEF NamesId
    <3>2. n + (id + 1 - n) = id + 1 /\ id < m
      BY <1>1, <2>1, <3>1
    <3>3. w[n + (id + 1 - n)] = q[id + 1 - n]
      BY <2>3, <3>1
    <3> QED BY <2>1, <3>2, <3>3
  <2>5. ASSUME NEW id \in Nat, id < n
        PROVE  id < m /\ w[id + 1] = v[id + 1]
    <3>1. id + 1 \in 1 .. n /\ id < m
      BY <1>1, <2>1, <2>5
    <3> QED BY <2>3, <3>1
  <2> QED BY <2>1, <2>3, <2>4, <2>5 DEF w
<1>4. CASE c.op = "modify"
  <2>1. c.first + Len(q) <= n /\ m = n
    BY <1>4 DEF InTurn
  <2>2. w = modify_bsmp_var(v, c.first, q)
    BY <1>4 DEF Served
  <2> HIDE DEF w
  <2>3. w = [k \in 1 .. n |-> IF k - c.first \in DOMAIN q THEN q[k - c.first] ELSE v[k]]
    BY <1>1, <2>2 DEF modify_bsmp_var
  <2>4. Len(w) = n
    <3>1. w \in [1 .. n -> S]
      BY <1>1, <2>3
    <3> QED BY <1>1, <3>1, SeqDef
  <2>5. ASSUME NEW id \in Nat, NamesId(c, id)
        PROVE  id < m /\ w[id + 1] = q[id + 1 - c.first]
    <3>1. id + 1 - c.first \in 1 .. Len(q)
      BY <1>1, <2>5 DEF NamesId
    <3>2. id + 1 \in 1 .. n /\ id < m
      BY <1>1, <2>1, <3>1
    <3> QED BY <1>1, <2>3, <3>1, <3>2
  <2>6. ASSUME NEW id \in Nat, id < n, ~NamesId(c, id)
        PROVE  id < m /\ w[id + 1] = v[id + 1]
    <3>1. id + 1 \in 1 .. n /\ id < m /\ id + 1 - c.first \notin DOMAIN q
      BY <1>1, <2>1, <2>6 DEF NamesId
    <3> DEFINE k == id + 1
    <3> HIDE DEF k
    <3>2. w[k] = v[k]
      <4>1. k \in 1 .. n /\ k - c.first \notin DOMAIN q
        <5>1. (id + 1) - c.first = id + 1 - c.first
          BY <1>1
        <5> QED BY <3>1, <5>1 DEF k
      <4> QED BY <2>3, <4>1
    <3> QED BY <3>1, <3>2 DEF k
  <2> QED BY <2>1, <2>4, <2>5, <2>6 DEF w
<1> QED BY <1>2, <1>3, <1>4 DEF InTurn

\* Where the servers are after k calls: as many variables as the table
\* counts, and every variable as the last call for it says.
InStep(loop, g, table, k) ==
    /\ \A s \in Servers : Len(loop[k][s]) = g[k][s]
    /\ \A j \in 1 .. k, id \in Nat :
          /\ NamesId(table[j], id)
          /\ \A i \in j + 1 .. k : table[i].server = table[j].server => ~NamesId(table[i], id)
          => /\ id < Len(loop[k][table[j].server])
             /\ loop[k][table[j].server][id + 1] = table[j].sources[id + 1 - table[j].first]

\* A call changes the server it is for.
LEMMA RegisteredServes ==
    ASSUME NEW S, NEW before \in [Servers -> VarLists(S)], NEW c, c.server \in Servers
    PROVE  /\ Registered(before, c)[c.server] = Served(before[c.server], c)
           /\ \A s \in Servers \ {c.server} : Registered(before, c)[s] = before[s]
<1> DEFINE r == Registered(before, c)
<1>1. r = [before EXCEPT ![c.server] = Served(before[c.server], c)]
  BY DEF Registered, Served
<1> HIDE DEF r
<1> QED BY <1>1 DEF r

\* One more call keeps the servers in step with the table.
LEMMA InStepKept ==
    ASSUME NEW S, NEW table \in Seq(CallsWith(S)), NEW loop, Unfolds(loop, table, S),
           NEW g \in [0 .. Len(table) -> Lengths], NEW k \in 1 .. Len(table),
           Takes(table, k, g[k - 1], g[k]), InStep(loop, g, table, k - 1),
           \A j \in 1 .. Len(table) : table[j].server \in Servers
    PROVE  InStep(loop, g, table, k)
<1> DEFINE n == Len(table)
           c == table[k]
           s0 == c.server
           before == loop[k - 1]
           after == loop[k]
           v == before[s0]
<1>1. n \in Nat /\ k - 1 \in 0 .. n /\ k \in 0 .. n /\ c \in CallsWith(S)
  OBVIOUS
<1>2. s0 \in Servers /\ InTurn(c, g[k - 1][s0], g[k][s0])
      /\ \A s \in Servers \ {s0} : g[k][s] = g[k - 1][s]
  BY DEF Takes
<1>3. before \in [Servers -> VarLists(S)] /\ after = Registered(before, c)
  BY <1>1 DEF Unfolds
<1>4. v \in VarLists(S) /\ Len(v) = g[k - 1][s0]
  BY <1>2, <1>3 DEF InStep
<1>5. g[k][s0] <= 128
  <2>1. g[k] \in Lengths
    BY <1>1
  <2> DEFINE x == g[k][s0]
  <2>2. x \in 0 .. 128
    BY <1>2, <2>1 DEF Lengths
  <2> HIDE DEF x
  <2>3. x <= 128
    BY <2>2
  <2> QED BY <2>3 DEF x
<1>6. after[s0] = Served(v, c) /\ \A s \in Servers \ {s0} : after[s] = before[s]
  BY <1>2, <1>3, RegisteredServes
<1> HIDE DEF n, c, s0, before, after, v
<1>7. /\ Len(after[s0]) = g[k][s0]
      /\ \A id \in Nat : NamesId(c, id) =>
            id < g[k][s0] /\ after[s0][id + 1] = c.sources[id + 1 - c.first]
      /\ \A id \in Nat : id < Len(v) /\ ~NamesId(c, id) =>
            id < g[k][s0] /\ after[s0][id + 1] = v[id + 1]
  BY <1>1, <1>2, <1>4, <1>5, <1>6, ServedFacts
<1>8. ASSUME NEW s \in Servers PROVE Len(after[s]) = g[k][s]
  <2>1. CASE s = s0
    BY <1>7, <2>1
  <2>2. CASE s # s0
    <3>1. Len(before[s]) = g[k - 1][s]
      BY DEF InStep, before
    <3> QED BY <1>2, <1>6, <2>2, <3>1
  <2> QED BY <2>1, <2>2
<1>9. ASSUME NEW j \in 1 .. k, NEW id \in Nat, NamesId(table[j], id),
             \A i \in j + 1 .. k : table[i].server = table[j].server => ~NamesId(table[i], id)
      PROVE  /\ id < Len(after[table[j].server])
             /\ after[table[j].server][id + 1] = table[j].sources[id + 1 - table[j].first]
  <2>1. CASE j = k
    <3>1. table[j] = c /\ table[j].server = s0
      BY <2>1 DEF c, s0
    <3> QED BY <1>7, <1>9, <3>1
  <2>2. CASE j # k
    <3> DEFINE s == table[j].server
               was == before[s]
    <3>1. j \in 1 .. k - 1 /\ k \in j + 1 .. k
          /\ \A i \in j + 1 .. k - 1 : i \in j + 1 .. k
      BY <1>1, <2>2
    <3>2. /\ id < Len(was)
          /\ was[id + 1] = table[j].sources[id + 1 - table[j].first]
      <4>1. \A i \in j + 1 .. k - 1 : table[i].server = table[j].server => ~NamesId(table[i], id)
        BY <1>9, <3>1
      <4> QED BY <1>9, <3>1, <4>1 DEF InStep, before
    <3>3. s = s0 => ~NamesId(c, id)
      BY <1>9, <3>1 DEF c, s0
    <3>4. CASE s = s0
      <4>1. was = v
        BY <3>4 DEF v
      <4>2. id < g[k][s0] /\ after[s0][id + 1] = v[id + 1]
        BY <1>7, <3>2, <3>3, <3>4, <4>1
      <4> HIDE DEF s, was
      <4>3. id < Len(after[s]) /\ after[s][id + 1] = table[j].sources[id + 1 - table[j].first]
        BY <1>7, <3>2, <3>4, <4>1, <4>2
      <4> QED BY <4>3 DEF s
    <3>5. CASE s # s0
      <4>1. s \in Servers => after[s] = was
        BY <1>6, <3>5
      <4>2. s \in Servers
        BY <1>1, <3>1
      <4> QED BY <3>2, <4>1, <4>2
    <3> QED BY <3>4, <3>5
  <2> QED BY <2>1, <2>2
<1> QED BY <1>8, <1>9 DEF InStep, after

\* The loop over the table: the servers are in step after the last call.
LEMMA InStepAlways ==
    ASSUME NEW S, OtherSources \subseteq S, NEW table \in Seq(CallsWith(S)),
           NEW b, Fills(table, Have(31, 0, 0, 0), b)
    PROVE  \A w \in Wanted(table) :
              w[2] < Len(Configured(table)[w[1]]) /\ Configured(table)[w[1]][w[2] + 1] = w[3]
<1> DEFINE n == Len(table)
<1>1. n \in Nat /\ DOMAIN table = 1 .. n
  OBVIOUS
<1>2. PICK loop : Unfolds(loop, table, S)
  BY ConfiguredUnfold
<1>3. PICK g \in [0 .. n -> Lengths] :
          g[0] = Have(31, 0, 0, 0) /\ \A k \in 1 .. n : Takes(table, k, g[k - 1], g[k])
  BY DEF Fills
<1>4. \A j \in 1 .. n : table[j].server \in Servers
  BY <1>3 DEF Takes
<1> HIDE DEF n
<1> DEFINE G == {k \in 0 .. n : InStep(loop, g, table, k)}
<1>5. 0 \in G
  <2>1. ASSUME NEW s \in Servers PROVE Len(loop[0][s]) = g[0][s]
    <3>1. loop[0][s] = IF s = 0 THEN bsmp_init(0) ELSE <<>>
      BY <1>2 DEF Unfolds
    <3>2. Have(31, 0, 0, 0)[s] = IF s = 0 THEN 31 ELSE 0
      BY DEF Have, Servers, NUM_MAX_PS_MODULES
    <3>3. Len(<<>>) = 0 /\ Len(bsmp_init(0)) = 31
      BY InitServes
    <3> QED BY <1>3, <3>1, <3>2, <3>3
  <2>2. 1 .. 0 = {} /\ 0 \in 0 .. n
    BY <1>1
  <2> QED BY <2>1, <2>2 DEF InStep
<1>6. ASSUME NEW k \in 1 .. n, k - 1 \in G PROVE k \in G
  <2>1. k \in 0 .. n
    BY <1>1
  <2>2. InStep(loop, g, table, k)
    BY <1>2, <1>3, <1>4, <1>6, InStepKept DEF n
  <2> QED BY <2>1, <2>2
<1>7. InStep(loop, g, table, n)
  <2> HIDE DEF G
  <2>1. 0 .. n \subseteq G
    BY <1>1, <1>5, <1>6, TurnInduction
  <2>2. n \in G
    BY <1>1, <2>1
  <2> QED BY <2>2 DEF G
<1>8. Configured(table) = loop[n]
  BY <1>2 DEF Unfolds, n
<1> HIDE DEF G
<1>9. ASSUME NEW w \in Wanted(table)
      PROVE  \E j \in 1 .. n, id \in Nat :
                /\ NamesId(table[j], id)
                /\ \A i \in j + 1 .. n : table[i].server = table[j].server => ~NamesId(table[i], id)
                /\ w = <<table[j].server, id, table[j].sources[id + 1 - table[j].first]>>
  <2> DEFINE Final(k, id) ==
                /\ NamesId(table[k], id)
                /\ \A j \in k + 1 .. Len(table) :
                      table[j].server = table[k].server => ~NamesId(table[j], id)
             Of(k) == {<<table[k].server, id, table[k].sources[id + 1 - table[k].first]>> :
                          id \in {i \in 0 .. BSMP_MAX_VARIABLES + 30 : Final(k, i)}}
  <2>1. Wanted(table) = UNION {Of(k) : k \in DOMAIN table}
    BY DEF Wanted, NamesId
  <2> HIDE DEF Of
  <2>2. PICK j \in 1 .. n : w \in Of(j)
    BY <1>1, <2>1
  <2> HIDE DEF Final
  <2>3. PICK id \in 0 .. BSMP_MAX_VARIABLES + 30 :
            Final(j, id) /\ w = <<table[j].server, id, table[j].sources[id + 1 - table[j].first]>>
    BY <2>2 DEF Of
  <2>4. id \in Nat
    BY DEF BSMP_MAX_VARIABLES
  <2> QED BY <2>3, <2>4 DEF Final, n
<1>10. ASSUME NEW w \in Wanted(table)
       PROVE  w[2] < Len(Configured(table)[w[1]]) /\ Configured(table)[w[1]][w[2] + 1] = w[3]
  <2>1. PICK j \in 1 .. n, id \in Nat :
                /\ NamesId(table[j], id)
                /\ \A i \in j + 1 .. n : table[i].server = table[j].server => ~NamesId(table[i], id)
                /\ w = <<table[j].server, id, table[j].sources[id + 1 - table[j].first]>>
    BY <1>9
  <2>2. /\ id < Len(loop[n][table[j].server])
        /\ loop[n][table[j].server][id + 1] = table[j].sources[id + 1 - table[j].first]
    BY <1>7, <2>1 DEF InStep
  <2>3. /\ w[1] = table[j].server /\ w[2] = id
        /\ w[3] = table[j].sources[id + 1 - table[j].first]
    BY <2>1
  <2> QED BY <1>8, <2>2, <2>3
<1> QED BY <1>10

\* What is registered for a number of a model, 0 and those without one included.
LEMMA ModelsRegistered ==
    ASSUME NEW number \in 0 .. 100
    PROVE  \A w \in WantedVars[number] :
              /\ w[2] < Len(ConfiguredServers[number][w[1]])
              /\ ConfiguredServers[number][w[1]][w[2] + 1] = w[3]
<1> DEFINE m == IF number \in DOMAIN ps_model_t THEN ps_model_t[number] ELSE "Uninitialized"
<1>1. m \in AllModels
  <2>1. \A k \in DOMAIN ps_model_t : ps_model_t[k] \in AllModels
    BY SMTT(60) DEF AllModels, ps_model_t, SystemConfig
  <2>2. "Uninitialized" \in AllModels
    BY DEF AllModels, SystemConfig
  <2> QED BY <2>1, <2>2
<1> HIDE DEF m
<1> DEFINE S == SourcesWith(SystemConfig[m].boards)
           table == SystemConfig[m].server
<1>2. table \in Seq(CallsWith(S))
  BY <1>1, SourcedModels DEF Sourced
<1>3. OtherSources \subseteq S
  BY DEF SourcesWith
<1>4. PICK b : Fills(table, Have(31, 0, 0, 0), b)
  BY <1>1, TableFills
<1>5. ConfiguredServers[number] = Configured(table) /\ WantedVars[number] = Wanted(table)
  BY DEF ConfiguredServers, WantedVars, ModelTable, m
<1> HIDE DEF S, table
<1>6. \A w \in Wanted(table) :
          w[2] < Len(Configured(table)[w[1]]) /\ Configured(table)[w[1]][w[2] + 1] = w[3]
  BY <1>2, <1>3, <1>4, InStepAlways
<1> QED BY <1>5, <1>6

\* The servers are as the tables left them until a command runs.
RegisteredInv ==
    fresh => PS_MODEL \in 0 .. 100 /\ servers = ConfiguredServers[PS_MODEL]

\* Boot registers, a command ends the time BootComplete speaks of, and the steps
\* between leave the servers alone.
LEMMA RegisteredStep ==
    ASSUME BankInv, RegisteredInv, TypeInv', [Next]_vars
    PROVE  RegisteredInv'
<1>1. CASE Load
  <2>1. fresh = FALSE /\ fresh' = fresh
    BY <1>1 DEF Load, BankInv, TypeInv, PhaseInv, BootInv
  <2> QED BY <2>1 DEF RegisteredInv
<1>2. CASE Save
  <2>1. fresh = FALSE /\ fresh' = fresh
    BY <1>2 DEF Save, SaveTo, BankInv, TypeInv, BootInv
  <2> QED BY <2>1 DEF RegisteredInv
<1>3. CASE Return
  <2>1. fresh = FALSE /\ fresh' = fresh
    BY <1>3 DEF Return, BankInv, TypeInv, BootInv
  <2> QED BY <2>1 DEF RegisteredInv
<1>4. CASE \/ load_param_bank_offboard_eeprom \/ load_param_bank_onboard_eeprom
           \/ load_dsp_modules_eeprom \/ DefaultBank
  <2>1. fresh = FALSE /\ fresh' = fresh
    BY <1>4 DEF load_param_bank_offboard_eeprom, load_param_bank_onboard_eeprom,
       load_dsp_modules_eeprom, DefaultBank, BootStep, BankInv, TypeInv, BootInv
  <2> QED BY <2>1 DEF RegisteredInv
<1>5. CASE Configure
  <2>1. PS_MODEL \in Nat
    BY ModelCell DEF BankInv, TypeInv
  <2>2. PS_MODEL \in 0 .. 100
    BY <1>5, <2>1 DEF Configure, BankInv, PhaseInv
  <2>3. servers' = ConfiguredServers[PS_MODEL] /\ PS_MODEL' = PS_MODEL
    BY <1>5 DEF Configure, PS_MODEL
  <2> QED BY <2>2, <2>3 DEF RegisteredInv
<1>6. CASE Command
  <2>1. fresh' = FALSE
    BY <1>6, CommandTyped DEF Boot, Commanded, BankInv
  <2> QED BY <2>1 DEF RegisteredInv
<1>7. CASE PowerFails
  <2>1. fresh' = FALSE
    BY <1>7 DEF PowerFails, Boot
  <2> QED BY <2>1 DEF RegisteredInv
<1>8. CASE UNCHANGED vars
  BY <1>8 DEF vars, RegisteredInv, PS_MODEL
<1> QED BY <1>1, <1>2, <1>3, <1>4, <1>5, <1>6, <1>7, <1>8 DEF Next, Work

(* After a boot every variable the tables of the model create has the      *)
(* identifier the tables give it and shows what the last call for it says: *)
(* create_bsmp_var dropped none for being out of order or too many         *)
(* (bsmp_init, <model>_bsmp_init and their calls of create_bsmp_var and    *)
(* modify_bsmp_var, whichever of the models the number selects).           *)
THEOREM EveryVariableRegistered == Spec => []BootComplete
<1>1. Init => BankInv /\ RegisteredInv
  <2>1. Init => BankInv
    BY TypeInit, SurvivesInit, BootInit DEF BankInv
  <2>2. Init => fresh = FALSE
    BY DEF Init
  <2> QED BY <2>1, <2>2 DEF RegisteredInv
<1>2. BankInv /\ RegisteredInv /\ [Next]_vars => BankInv' /\ RegisteredInv'
  BY TypeStep, SurvivesStep, BootStepKept, RegisteredStep DEF BankInv
<1>3. BankInv /\ RegisteredInv => BootComplete
  BY ModelsRegistered DEF RegisteredInv, BootComplete
<1> QED BY <1>1, <1>2, <1>3, PTL DEF Spec
=============================================================================
