-------------------------- MODULE SystemTaskProofs --------------------------
(***************************************************************************)
(* Proofs about SystemTask, for every set of models, every status the CAN  *)
(* controller may report and every number of events: the interlocks, and   *)
(* where the data of the boards and of the monitoring ADC ends up.         *)
(***************************************************************************)
EXTENDS SystemTask, PsModelsProofs, SequenceTheorems, TLAPS

----------------------------------------------------------------------------
(* The tables of the boards.                                               *)

Kinds == {OsMessages, IsMessages, CmdMessages, FapMessages}

\* No two boards of a model raise the same interlock.
GoodBoards(bs) ==
    /\ \A a \in DOMAIN bs : bs[a].messages \in Kinds
    /\ \A a, b \in DOMAIN bs : bs[a].itlk = bs[b].itlk => a = b

LEMMA TwoBoards ==
    ASSUME NEW m1 \in Kinds, NEW m2 \in Kinds, NEW p1, NEW p2, NEW b1, NEW b2,
           NEW f1, NEW f2, NEW s1, NEW s2, <<p1, b1>> # <<p2, b2>>
    PROVE  GoodBoards(<<Board(m1, p1, b1, f1, s1), Board(m2, p2, b2, f2, s2)>>)
BY DEF GoodBoards, Board

\* The interlock message is the only one with the interlock register, and it
\* is not the first.
GoodMessages(k) ==
    /\ Len(k) \in {6, 7, 8}
    /\ DOMAIN k = 1 .. Len(k)
    /\ \A v \in 0 .. Len(k) - 1 :
        /\ k[v + 1][1] = "InterlocksRegister" <=> v = Len(k) - 1
        /\ k[v + 1][2] # "InterlocksRegister"
    /\ k[Len(k)] = <<"InterlocksRegister", "AlarmsRegister">>

LEMMA MessageTables == \A k \in Kinds : GoodMessages(k)
<1>1. GoodMessages(OsMessages)
  BY DEF GoodMessages, OsMessages
<1>2. GoodMessages(IsMessages)
  BY DEF GoodMessages, IsMessages, None
<1>3. GoodMessages(CmdMessages)
  BY DEF GoodMessages, CmdMessages
<1>4. GoodMessages(FapMessages)
  BY DEF GoodMessages, FapMessages
<1> QED BY <1>1, <1>2, <1>3, <1>4 DEF Kinds

\* The interlock message of a board.
LEMMA LastMessage ==
    ASSUME NEW k, GoodMessages(k)
    PROVE  /\ 0 \in 0 .. Len(k) - 1 /\ 0 # Len(k) - 1
           /\ Len(k) \in DOMAIN k /\ k[Len(k)][1] = "InterlocksRegister"
<1>1. Len(k) \in {6, 7, 8} /\ DOMAIN k = 1 .. Len(k)
  BY DEF GoodMessages
<1>2. k[Len(k)] = <<"InterlocksRegister", "AlarmsRegister">>
  BY DEF GoodMessages
<1>3. <<"InterlocksRegister", "AlarmsRegister">>[1] = "InterlocksRegister"
  OBVIOUS
<1>4. ASSUME NEW n \in {6, 7, 8} PROVE 0 \in 0 .. n - 1 /\ 0 # n - 1 /\ n \in 1 .. n
  OBVIOUS
<1>5. 0 \in 0 .. Len(k) - 1 /\ 0 # Len(k) - 1 /\ Len(k) \in 1 .. Len(k)
  BY <1>1, <1>4
<1> QED BY <1>1, <1>2, <1>3, <1>5

LEMMA KindsOfBoards ==
    /\ OsMessages \in Kinds /\ IsMessages \in Kinds
    /\ CmdMessages \in Kinds /\ FapMessages \in Kinds
BY DEF Kinds

\* Every model's boards have interlocks of their own.
LEMMA BoardTables == \A m \in AllModels : GoodBoards(SystemConfig[m].boards)
<1> USE KindsOfBoards
<1>1. GoodBoards(<<>>)
  BY DEF GoodBoards
<1>2. GoodBoards(fac_acdc_boards)
  BY TwoBoards DEF fac_acdc_boards, fac_acdc_IIB_IS_Itlk, fac_acdc_IIB_Cmd_Itlk
<1>3. GoodBoards(fac_dcdc_boards) /\ GoodBoards(fac_dcdc_ema_boards) /\ GoodBoards(fap_boards)
  BY DEF GoodBoards, Board, fac_dcdc_boards, fac_dcdc_ema_boards, fap_boards
<1>4. GoodBoards(fac_2s_dcdc_boards)
  BY TwoBoards DEF fac_2s_dcdc_boards, fac_2s_dcdc_IIB_Mod_1_Itlk
<1>5. GoodBoards(fac_2s_acdc_boards) /\ GoodBoards(fac_2p4s_acdc_boards)
  BY DEF GoodBoards, Board, fac_2s_acdc_boards, fac_2p4s_acdc_boards,
     fac_2s_acdc_IIB_IS_Itlk, fac_2s_acdc_IIB_Cmd_Itlk,
     fac_2p4s_acdc_IIB_IS_Itlk, fac_2p4s_acdc_IIB_Cmd_Itlk
<1>6. GoodBoards(fac_2p4s_dcdc_boards)
  BY DEF GoodBoards, Board, fac_2p4s_dcdc_boards, fac_2p4s_dcdc_IIB_Mod_1_Itlk
<1>7. GoodBoards(fap_4p_boards) /\ GoodBoards(fap_2p2s_boards)
  BY DEF GoodBoards, Board, fap_4p_boards, fap_2p2s_boards,
     fap_4p_IIB_Mod_1_Itlk, fap_2p2s_IIB_Mod_1_Itlk
<1>8. TAKE m \in AllModels
<1>9. SystemConfig[m].boards \in {<<>>, fac_acdc_boards, fac_dcdc_boards,
        fac_dcdc_ema_boards, fap_boards, fac_2s_dcdc_boards, fac_2s_acdc_boards,
        fac_2p4s_acdc_boards, fac_2p4s_dcdc_boards, fap_4p_boards, fap_2p2s_boards}
  BY DEF AllModels, SystemConfig, Config, fbp_system_config,
     fbp_dclink_system_config, fac_acdc_system_config, fac_dcdc_system_config,
     fac_dcdc_ema_system_config, fap_system_config, fac_2s_acdc_system_config,
     fac_2p4s_acdc_system_config, fac_2s_dcdc_system_config,
     fac_2p4s_dcdc_system_config, fac_2p_acdc_imas_system_config,
     fac_2p_dcdc_imas_system_config, fap_4p_system_config,
     fap_2p2s_system_config
<1> QED BY <1>1, <1>2, <1>3, <1>4, <1>5, <1>6, <1>7, <1>9

----------------------------------------------------------------------------
(* Type correctness.                                                       *)

LEMMA ResetBound == ResetAddresses \in 0 .. 8
BY DEF ResetAddresses

\* A word of the receive FIFO is a channel, and a full scan has eight.
LEMMA ScanTyped ==
    ASSUME NEW first \in 0 .. 7
    PROVE  [k \in 1 .. 8 |-> (first + k - 1) % 8] \in [1 .. 8 -> 0 .. 7]
OBVIOUS

LEMMA ScanIsSeq ==
    ASSUME NEW s \in [1 .. 8 -> 0 .. 7]
    PROVE  s \in Seq(0 .. 7) /\ Len(s) = 8 /\ s # <<>>
<1>1. s \in Seq(0 .. 7)
  BY SeqDef
<1>2. Len(s) = 8
  BY <1>1, LenProperties
<1>3. Len(<<>>) = 0
  OBVIOUS
<1>4. s # <<>>
  <2> SUFFICES ASSUME s = <<>> PROVE FALSE
    OBVIOUS
  <2> QED BY <1>2, <1>3
<1> QED BY <1>1, <1>2, <1>4

(* What TypeOK needs to be inductive: where the loop may be with which     *)
(* index, and that the FIFO is empty or holds a whole scan.                *)
Indices ==
    /\ main.at \in {"test", "load", "store"} => main.i >= 1
    /\ main.at \in {"load", "store"} => main.i <= NumMasks
    /\ main.at = "samples" => main.i <= 8
    /\ main.at = "reset" => main.i <= 9

ScanOK ==
    /\ adc \in [fifo : Seq(0 .. 7), RxTable : [1 .. 8 -> 0 .. 7],
               counter_sampl : 0 .. 8]
    /\ adc.fifo = <<>> \/ adc.fifo \in [1 .. 8 -> 0 .. 7]

TInv == TypeOK /\ Indices /\ ScanOK

LEMMA InitTyped == Init => TInv
<1> SUFFICES ASSUME Init PROVE TInv
  OBVIOUS
<1> USE DEF Init
<1>1. main \in [at : Places, i : 0 .. NumMasks + 1, reg : SUBSET StatusBits]
  BY DEF Idle, Places, NumMasks
<1>2. adc \in [fifo : Seq(0 .. 7), RxTable : [1 .. 8 -> 0 .. 7], counter_sampl : 0 .. 8]
  OBVIOUS
<1>3. Indices
  BY DEF Indices, Idle
<1>4. ScanOK
  BY <1>2 DEF ScanOK
<1> QED BY <1>1, <1>2, <1>3, <1>4 DEF TInv, TypeOK

LEMMA StepTyped == TInv /\ [Next]_vars => TInv'
<1> SUFFICES ASSUME TInv, [Next]_vars PROVE TInv'
  OBVIOUS
<1> USE DEF TInv, TypeOK, Indices, ScanOK, NumMasks, Places, canVars
<1>1. CASE UNCHANGED vars
  BY <1>1 DEF vars
<1>2. CASE TaskAdcp \/ TaskCan \/ TaskRtc \/ TaskItlk \/ TaskLed
  BY <1>2 DEF TaskAdcp, TaskCan, TaskRtc, TaskItlk, TaskLed, Take, At
<1>3. CASE adcp_get_samples
  BY <1>3 DEF adcp_get_samples, At, Idle
<1>4. CASE can_error_handler
  <2>1. CASE can_check
    BY <1>4, <2>1 DEF can_check, At, Idle
  <2>2. CASE TestFlag
    BY <1>4, <2>2 DEF TestFlag, At, Idle
  <2>3. CASE LoadFlag
    BY <1>4, <2>3 DEF LoadFlag, At
  <2>4. CASE StoreFlag
    BY <1>4, <2>4 DEF StoreFlag, At
  <2> QED BY <1>4, <2>1, <2>2, <2>3, <2>4 DEF can_error_handler
<1>5. CASE send_reset_iib_message
  <2>1. UNCHANGED <<model, flags, errFlag, rxPtr, adc>> /\ main.at = "reset"
    BY <1>5 DEF send_reset_iib_message
  <2>2. CASE main.i > ResetAddresses
    BY <1>5, <2>1, <2>2 DEF send_reset_iib_message, Idle
  <2>3. CASE ~(main.i > ResetAddresses)
    <3>1. main' = At("reset", main.i + 1) /\ can' = [can EXCEPT !.tx = main.i]
      BY <1>5, <2>3 DEF send_reset_iib_message
    <3>2. main.i + 1 \in 0 .. 9
      BY <2>3, ResetBound
    <3> QED BY <2>1, <3>1, <3>2 DEF At
  <2> QED BY <2>2, <2>3
<1>6. CASE can_int_handler
  <2>1. CASE StatusInterrupt
    BY <1>6, <2>1 DEF can_int_handler, StatusInterrupt, TaskSetNew
  <2>2. CASE DataInterrupt
    BY <1>6, <2>2 DEF can_int_handler, DataInterrupt
  <2>3. CASE ResetInterrupt
    BY <1>6, <2>3 DEF can_int_handler, ResetInterrupt
  <2> QED BY <1>6, <2>1, <2>2, <2>3 DEF can_int_handler
<1>7. CASE isr_adcp
  <2>1. adc.fifo \in [1 .. 8 -> 0 .. 7] /\ Len(adc.fifo) = 8
    BY <1>7, ScanIsSeq DEF isr_adcp
  <2> QED BY <1>7, <2>1 DEF isr_adcp, TaskSetNew
<1>8. CASE \E f : Receive(f)
  BY <1>8 DEF Receive, StatusBits
<1>9. CASE Transmitted
  BY <1>9 DEF Transmitted, StatusBits
<1>10. CASE BusError
  BY <1>10, SystemAssumption DEF BusError
<1>11. CASE isr_global_timer
  <2>1. PICK first \in 0 .. 7 : adc' = adcp_read(first)
    BY <1>11, SystemAssumption DEF isr_global_timer
  <2>2. ScanOK'
    BY <2>1, ScanTyped, ScanIsSeq DEF adcp_read
  <2>3. UNCHANGED <<model, main, canVars>> /\ flags' \subseteq flags \cup {"RTC", "LED"}
    BY <1>11 DEF isr_global_timer, TaskSetNew
  <2> QED BY <2>2, <2>3
<1>12. CASE RequestReset \/ InterlockState
  BY <1>12 DEF RequestReset, InterlockState, TaskSetNew
<1>13. BoardSends \/ ForeignSends => \E f : Receive(f)
  BY DEF BoardSends, ForeignSends
<1> QED BY <1>1, <1>2, <1>3, <1>4, <1>5, <1>6, <1>7, <1>8, <1>9, <1>10, <1>11,
           <1>12, <1>13 DEF Next, TaskCheck, Interrupts, Environment

(* The indices of the loop and of the interrupts stay inside their tables: *)
(* the masks of can_error_handler, the samples of adcp_get_samples.        *)
THEOREM TypeCorrect == Spec => []TypeOK
<1>1. Init => TInv
  BY InitTyped
<1>2. TInv /\ [Next]_vars => TInv'
  BY StepTyped
<1>3. TInv => TypeOK
  BY DEF TInv
<1> QED BY <1>1, <1>2, <1>3, PTL DEF Spec

----------------------------------------------------------------------------
(* A status the interrupt noted is looked at.                              *)

\* The bits that test i or a later one takes off.
Remaining(i) == {b \in StatusBits : \E j \in 1 .. NumMasks : j >= i /\ b \in Masks[j]}

LEMMA AllRemain == Remaining(1) = StatusBits
<1>1. \A b \in StatusBits : \E j \in 1 .. 16 : b \in Masks[j]
  <2>1. /\ "BUS_OFF" \in Masks[1] /\ "EWARN" \in Masks[2] /\ "EPASS" \in Masks[3]
        /\ "RXOK" \in Masks[4] /\ "TXOK" \in Masks[5] /\ "L0" \in Masks[6]
        /\ "L1" \in Masks[6] /\ "L2" \in Masks[6] /\ "PDA" \in Masks[14]
        /\ "WAKE_UP" \in Masks[15] /\ "PERR" \in Masks[16]
    BY DEF Masks
  <2> QED BY <2>1 DEF StatusBits
<1> QED BY <1>1 DEF Remaining, NumMasks

LEMMA NoneRemain == Remaining(NumMasks + 1) = {}
BY DEF Remaining, NumMasks

LEMMA OneLess ==
    ASSUME NEW i \in 1 .. NumMasks, NEW S \in SUBSET Remaining(i)
    PROVE  S \ Masks[i] \subseteq Remaining(i + 1)
<1>1. \A j \in 1 .. NumMasks : j >= i => j = i \/ j >= i + 1
  BY DEF NumMasks
<1> QED BY <1>1 DEF Remaining

(* The strengthening: while the handler is at test i, the flag word - and  *)
(* its copy in a register, between the load and the store - holds only     *)
(* bits that a test still to come takes off, unless the request flag is    *)
(* set again and the word will be looked at once more.                     *)
Noticed ==
    \/ "CAN" \in flags
    \/ main.at = "can_check"
    \/ main.at \in {"loop", "samples", "reset"} /\ errFlag = {}
    \/ main.at \in {"test", "load"} /\ errFlag \subseteq Remaining(main.i)
    \/ /\ main.at = "store"
       /\ errFlag \subseteq Remaining(main.i)
       /\ main.reg \subseteq Remaining(main.i)

LEMMA StepNoticed == TInv /\ Noticed /\ [Next]_vars => Noticed'
<1> SUFFICES ASSUME TInv, Noticed, [Next]_vars PROVE Noticed'
  OBVIOUS
<1> USE DEF Noticed, canVars
<1>1. CASE UNCHANGED vars
  BY <1>1 DEF vars
<1>2. CASE TaskAdcp \/ TaskRtc \/ TaskItlk \/ TaskLed
  BY <1>2 DEF TaskAdcp, TaskRtc, TaskItlk, TaskLed, Take, At
<1>3. CASE TaskCan
  BY <1>3 DEF TaskCan, At
<1>4. CASE adcp_get_samples \/ send_reset_iib_message
  BY <1>4 DEF adcp_get_samples, send_reset_iib_message, At, Idle
<1>5. CASE can_check
  BY <1>5, AllRemain DEF can_check, At, Idle, TInv, TypeOK
<1>6. CASE TestFlag
  <2>0. main.at = "test" /\ UNCHANGED <<flags, errFlag>> /\ main.i \in 1 .. NumMasks + 1
    BY <1>6 DEF TestFlag, TInv, TypeOK, Indices, NumMasks
  <2>1. CASE main.i > NumMasks
    <3>1. main.i = NumMasks + 1
      BY <2>0, <2>1 DEF NumMasks
    <3> QED BY <1>6, <2>0, <2>1, <3>1, NoneRemain DEF TestFlag, Idle
  <2>2. CASE ~(main.i > NumMasks) /\ errFlag \cap Masks[main.i] = {}
    <3>1. main.i \in 1 .. NumMasks /\ main' = At("test", main.i + 1)
      BY <1>6, <2>0, <2>2 DEF TestFlag, NumMasks
    <3>2. "CAN" \in flags \/ errFlag \ Masks[main.i] \subseteq Remaining(main.i + 1)
      BY <2>0, <3>1, OneLess
    <3> QED BY <2>0, <2>2, <3>1, <3>2 DEF At
  <2>3. CASE ~(main.i > NumMasks) /\ errFlag \cap Masks[main.i] # {}
    BY <1>6, <2>0, <2>3 DEF TestFlag, At
  <2> QED BY <2>1, <2>2, <2>3
<1>7. CASE LoadFlag
  BY <1>7 DEF LoadFlag, At
<1>8. CASE StoreFlag
  <2>1. main.i \in 1 .. NumMasks /\ main.at = "store" /\ UNCHANGED flags
    BY <1>8 DEF StoreFlag, TInv, TypeOK, Indices, NumMasks
  <2>2. "CAN" \in flags \/ main.reg \ Masks[main.i] \subseteq Remaining(main.i + 1)
    BY <2>1, OneLess
  <2> QED BY <1>8, <2>1, <2>2 DEF StoreFlag, At
<1>9. CASE can_int_handler
  BY <1>9 DEF can_int_handler, StatusInterrupt, DataInterrupt, ResetInterrupt, TaskSetNew,
     TInv, TypeOK, Places
<1>10. CASE isr_adcp \/ isr_global_timer \/ RequestReset \/ InterlockState
  BY <1>10 DEF isr_adcp, isr_global_timer, RequestReset, InterlockState, TaskSetNew
<1>11. CASE (\E f : Receive(f)) \/ Transmitted \/ BusError
  BY <1>11 DEF Receive, Transmitted, BusError
<1>12. BoardSends \/ ForeignSends => \E f : Receive(f)
  BY DEF BoardSends, ForeignSends
<1> QED BY <1>1, <1>2, <1>3, <1>4, <1>5, <1>6, <1>7, <1>8, <1>9, <1>10, <1>11, <1>12
        DEF Next, TaskCheck, Interrupts, Environment, can_error_handler

(* No status waits in g_ui32ErrFlag with nobody to look at it, for every   *)
(* interleaving of the CAN interrupt with the tests, loads and stores of   *)
(* can_error_handler and every combination of status bits.                 *)
THEOREM ErrorsNoticed == Spec => []ErrNoticed
<1>1. Init => TInv /\ Noticed
  BY InitTyped DEF Init, Noticed, Idle
<1>2. TInv /\ Noticed /\ [Next]_vars => TInv' /\ Noticed'
  BY StepTyped, StepNoticed
<1>3. TInv /\ Noticed => ErrNoticed
  BY DEF TInv, TypeOK, Noticed, ErrNoticed
<1> QED BY <1>1, <1>2, <1>3, PTL DEF Spec

----------------------------------------------------------------------------
(* Interlocks of the boards.                                               *)

LEMMA ModelBoards ==
    ASSUME model \in Models, NEW a \in Boards
    PROVE  /\ GoodMessages(Cfg.boards[a].messages)
           /\ \A b \in Boards : Cfg.boards[a].itlk = Cfg.boards[b].itlk => a = b
<1>1. GoodBoards(Cfg.boards)
  BY SystemAssumption, BoardTables DEF Cfg
<1> QED BY <1>1, MessageTables DEF GoodBoards, Boards

IlkTyped ==
    /\ model \in Models
    /\ iib = [a \in Boards |-> iib[a]]
    /\ \A a \in Boards : "InterlocksRegister" \in DOMAIN iib[a]

\* A message that is waiting comes from a board that has such a message.
FrameOK ==
    /\ DOMAIN can = {"off", "status", "rx", "tx", "done"}
    /\ can.rx.from # Foreign =>
          can.rx.from \in Boards /\ can.rx.var \in 0 .. Last(can.rx.from)
    /\ can.rx.itlk => can.rx.from \in reported

AskedOK == \A q \in asked : \E a \in Boards \cap reported : Cfg.boards[a].itlk = q

IlkInv == IlkTyped /\ FrameOK /\ AskedOK /\ InterlockRaised

\* What storing one message does to the interlock registers and requests.
LEMMA StoreEffect ==
    ASSUME IlkTyped, NEW a \in Boards, NEW v \in 0 .. Last(a), NEW hi, NEW lo,
           StoreMessage(a, v, hi, lo), UNCHANGED model
    PROVE  /\ IlkTyped'
           /\ asked \subseteq asked'
           /\ asked' # asked => asked' = asked \cup {Cfg.boards[a].itlk} /\ v = Last(a) /\ hi # Zero
           /\ InterlockRaised => InterlockRaised'
<1> DEFINE b == Cfg.boards[a]
           names == b.messages[v + 1]
           word(f) == IF f = names[1] THEN hi ELSE lo
           touched == {names[1], names[2]}
<1>0. Cfg' = Cfg /\ Boards' = Boards
  BY DEF Cfg, Boards
<1>1. iib' = [iib EXCEPT ![a] =
                [f \in DOMAIN @ |-> IF f \in touched THEN word(f) ELSE @[f]]]
  BY DEF StoreMessage
<1>2. asked' = IF v = Last(a) /\ hi # Zero THEN asked \cup {b.itlk} ELSE asked
  BY DEF StoreMessage
<1>3. /\ names[1] = "InterlocksRegister" <=> v = Last(a)
      /\ names[2] # "InterlocksRegister"
  BY ModelBoards DEF GoodMessages, Last, IlkTyped
<1>4. /\ iib' = [c \in Boards |-> iib'[c]]
      /\ \A c \in Boards : c # a => iib'[c] = iib[c]
      /\ iib'[a] = [f \in DOMAIN iib[a] |-> IF f \in touched THEN word(f) ELSE iib[a][f]]
  <2> HIDE DEF touched, word
  <2> QED BY <1>1 DEF IlkTyped
<1>5. iib'[a]["InterlocksRegister"] =
        IF v = Last(a) THEN hi ELSE iib[a]["InterlocksRegister"]
  BY <1>3, <1>4 DEF IlkTyped
<1>6. IlkTyped'
  <2>1. \A c \in Boards : "InterlocksRegister" \in DOMAIN iib'[c]
    <3> HIDE DEF touched, word
    <3> QED BY <1>4 DEF IlkTyped
  <2> QED BY <1>0, <1>4, <2>1 DEF IlkTyped
<1>7. InterlockRaised => InterlockRaised'
  BY <1>0, <1>2, <1>4, <1>5 DEF InterlockRaised
<1> QED BY <1>2, <1>6, <1>7

LEMMA StepInterlock == IlkInv /\ [Next]_vars => IlkInv'
<1> SUFFICES ASSUME IlkInv, [Next]_vars PROVE IlkInv'
  OBVIOUS
<1>0. UNCHANGED model /\ Cfg' = Cfg /\ Boards' = Boards /\ (\A a : Last(a)' = Last(a))
  <2>1. UNCHANGED model
    BY DEF vars, Next, TaskCheck, TaskAdcp, TaskCan, TaskRtc, TaskItlk, TaskLed,
       adcp_get_samples, can_error_handler, can_check, TestFlag, LoadFlag, StoreFlag,
       send_reset_iib_message, Interrupts, can_int_handler, isr_adcp, Environment,
       BoardSends, ForeignSends, Receive, Transmitted, BusError, isr_global_timer,
       RequestReset, InterlockState
  <2> QED BY <2>1 DEF Cfg, Boards, Last
<1>1. CASE UNCHANGED <<iib, asked, reported>> /\ can'.rx = can.rx /\ DOMAIN can' = DOMAIN can
  BY <1>0, <1>1 DEF IlkInv, IlkTyped, FrameOK, AskedOK, InterlockRaised
<1>2. CASE TaskCheck \/ isr_adcp \/ isr_global_timer \/ RequestReset \/ InterlockState
  <2>1. UNCHANGED <<iib, asked, reported>> /\ can'.rx = can.rx /\ DOMAIN can' = DOMAIN can
    BY <1>2 DEF TaskCheck, TaskAdcp, TaskCan, TaskRtc, TaskItlk, TaskLed,
       adcp_get_samples, can_error_handler, can_check, TestFlag, LoadFlag, StoreFlag,
       send_reset_iib_message, isr_adcp, isr_global_timer, RequestReset,
       InterlockState, canVars, IlkInv, FrameOK
  <2> QED BY <1>1, <2>1
<1>3. CASE Transmitted \/ BusError \/ (can_int_handler /\ (StatusInterrupt \/ ResetInterrupt))
  <2>1. UNCHANGED <<iib, asked, reported>> /\ can'.rx = can.rx /\ DOMAIN can' = DOMAIN can
    BY <1>3 DEF Transmitted, BusError, can_int_handler, StatusInterrupt, ResetInterrupt,
       IlkInv, FrameOK
  <2> QED BY <1>1, <2>1
<1>4. CASE BoardSends
  <2>1. PICK a \in Boards, itlk \in BOOLEAN :
           \E v \in 0 .. Len(Cfg.boards[a].messages) - 1 :
               /\ Receive(Frame(a, v, itlk))
               /\ reported' = IF itlk THEN reported \cup {a} ELSE reported
    BY <1>4 DEF BoardSends
  <2>2. PICK v \in 0 .. Last(a) :
               /\ Receive(Frame(a, v, itlk))
               /\ reported' = IF itlk THEN reported \cup {a} ELSE reported
    BY <2>1 DEF Last
  <2>3. UNCHANGED <<iib, asked>> /\ can'.rx = Frame(a, v, itlk) /\ DOMAIN can' = DOMAIN can
    BY <2>2 DEF Receive, IlkInv, FrameOK
  <2>4. FrameOK'
    BY <1>0, <2>2, <2>3 DEF IlkInv, FrameOK, Frame
  <2> QED BY <1>0, <2>2, <2>3, <2>4 DEF IlkInv, IlkTyped, AskedOK, InterlockRaised
<1>5. CASE ForeignSends
  <2>1. UNCHANGED <<iib, asked, reported>> /\ can'.rx = Frame(Foreign, 0, FALSE)
        /\ DOMAIN can' = DOMAIN can
    BY <1>5 DEF ForeignSends, Receive, IlkInv, FrameOK
  <2>2. FrameOK'
    BY <1>0, <2>1 DEF IlkInv, FrameOK, Frame
  <2> QED BY <1>0, <2>1, <2>2 DEF IlkInv, IlkTyped, AskedOK, InterlockRaised
<1>6. CASE can_int_handler /\ DataInterrupt
  <2> DEFINE f == can.rx
  <2>1. UNCHANGED reported /\ can'.rx = NoFrame /\ DOMAIN can' = DOMAIN can /\ f.here
        /\ handle_can_data(f)
    BY <1>6 DEF can_int_handler, DataInterrupt, IlkInv, FrameOK
  <2>2. FrameOK'
    BY <1>0, <2>1 DEF IlkInv, FrameOK, NoFrame
  <2>3. CASE f.from # Foreign /\ StoreMessage(f.from, f.var, Data(f, 1), Data(f, 2))
    <3>1. f.from \in Boards /\ f.var \in 0 .. Last(f.from)
      BY <2>3 DEF IlkInv, FrameOK
    <3>2. f.var = Last(f.from) /\ Data(f, 1) # Zero => f.from \in reported
      BY <2>3 DEF IlkInv, FrameOK, Data, Half
    <3>3. /\ IlkTyped' /\ asked \subseteq asked' /\ InterlockRaised'
          /\ asked' # asked => /\ asked' = asked \cup {Cfg.boards[f.from].itlk}
                              /\ f.var = Last(f.from) /\ Data(f, 1) # Zero
      BY <1>0, <2>3, <3>1, StoreEffect DEF IlkInv
    <3>4. AskedOK'
      BY <1>0, <2>1, <3>1, <3>2, <3>3 DEF IlkInv, AskedOK
    <3> QED BY <2>2, <3>3, <3>4 DEF IlkInv
  <2>4. CASE UNCHANGED <<iib, net, asked>>
    BY <1>0, <2>1, <2>2, <2>4 DEF IlkInv, IlkTyped, AskedOK, InterlockRaised
  <2>5. ASSUME NEW a \in Boards, StoreMessage(a, 0, Data(f, 1), Data(f, 2)) PROVE IlkInv'
    <3>1. 0 \in 0 .. Last(a) /\ 0 # Last(a)
      BY ModelBoards, LastMessage DEF IlkInv, IlkTyped, Last
    <3>2. IlkTyped' /\ asked' = asked /\ InterlockRaised'
      BY <1>0, <2>5, <3>1, StoreEffect DEF IlkInv
    <3> QED BY <1>0, <2>1, <2>2, <3>2 DEF IlkInv, AskedOK
  <2> QED BY <2>1, <2>3, <2>4, <2>5 DEF handle_can_data, handle_foreign
<1>7. CASE UNCHANGED vars
  BY <1>1, <1>7 DEF vars
<1> QED BY <1>2, <1>3, <1>4, <1>5, <1>6, <1>7
        DEF Next, Interrupts, Environment, can_int_handler

LEMMA InitInterlock == Init => IlkInv
<1> SUFFICES ASSUME Init PROVE IlkInv
  OBVIOUS
<1>1. \A a \in Boards : "InterlocksRegister" \in FieldsOf(Cfg.boards[a])
  <2> SUFFICES ASSUME NEW a \in Boards
               PROVE  "InterlocksRegister" \in FieldsOf(Cfg.boards[a])
    OBVIOUS
  <2> DEFINE k == Cfg.boards[a].messages
  <2>1. GoodMessages(k)
    BY ModelBoards DEF Init
  <2>2. Len(k) \in DOMAIN k /\ k[Len(k)][1] = "InterlocksRegister"
    BY <2>1, LastMessage
  <2> QED BY <2>2 DEF FieldsOf
<1>2. IlkTyped
  BY <1>1 DEF Init, IlkTyped
<1>3. InterlockRaised
  BY <1>1 DEF Init, InterlockRaised
<1> QED BY <1>2, <1>3 DEF Init, IlkInv, FrameOK, AskedOK, NoFrame

(* Whatever the model, an interlock is asked of the C28 for a board only   *)
(* if that board reported one, although identifiers of no board leave the  *)
(* handler with an uninitialised module.                                   *)
THEOREM InterlocksAttributed == Spec => []InterlockAttributed
<1>1. IlkInv => InterlockAttributed
  <2> SUFFICES ASSUME IlkInv, NEW a \in Boards, Cfg.boards[a].itlk \in asked
               PROVE  a \in reported
    BY DEF InterlockAttributed
  <2>1. PICK b \in Boards \cap reported : Cfg.boards[b].itlk = Cfg.boards[a].itlk
    BY DEF IlkInv, AskedOK
  <2> QED BY <2>1, ModelBoards DEF IlkInv, IlkTyped
<1> QED BY <1>1, InitInterlock, StepInterlock, PTL DEF Spec

(* No board's interlock register is kept from the C28, on any model.       *)
THEOREM InterlocksRaised == Spec => []InterlockRaised
<1>1. IlkInv => InterlockRaised
  BY DEF IlkInv
<1> QED BY <1>1, InitInterlock, StepInterlock, PTL DEF Spec

----------------------------------------------------------------------------
(* The wiring of the signals.                                              *)

\* No two of the channels of the ADC and the boards are wired to one signal.
Wired(cfg) ==
    /\ cfg.adcp = [c \in 0 .. 7 |-> cfg.adcp[c]]
    /\ \A c, d \in 0 .. 7 : cfg.adcp[c] = cfg.adcp[d] /\ cfg.adcp[c] \in Signals => c = d
    /\ \A a \in DOMAIN cfg.boards, c \in 0 .. 7 :
          cfg.boards[a].signal \in Signals => cfg.boards[a].signal # cfg.adcp[c]
    /\ \A a, b \in DOMAIN cfg.boards :
          cfg.boards[a].signal = cfg.boards[b].signal /\ cfg.boards[a].signal \in Signals
              => a = b
    /\ DOMAIN cfg.boards \subseteq 1 .. 8

\* The tables with unconnected channels, channel by channel.
LEMMA SparseTables ==
    /\ fbp_dclink_adcp_channel_config =
          [c \in 0 .. 7 |-> IF c = 0 THEN 0 ELSE IF c = 1 THEN 1 ELSE IF c = 2 THEN 3
                            ELSE IF c = 3 THEN 2 ELSE 99]
    /\ fac_dcdc_adcp_channel_config = [c \in 0 .. 7 |-> IF c = 4 THEN 0 ELSE 99]
    /\ fac_dcdc_ema_adcp_channel_config = [c \in 0 .. 7 |-> IF c = 0 THEN 0 ELSE 99]
    /\ fap_adcp_channel_config =
          [c \in 0 .. 7 |-> IF c = 0 THEN 0 ELSE IF c = 1 THEN 1 ELSE 99]
    /\ fac_2p_dcdc_imas_adcp_channel_config =
          [c \in 0 .. 7 |-> IF c = 1 THEN 0 ELSE IF c = 2 THEN 1 ELSE 99]
<1> USE DEF AllOff, Unconnected
<1>1. fbp_dclink_adcp_channel_config =
          [c \in 0 .. 7 |-> IF c = 0 THEN 0 ELSE IF c = 1 THEN 1 ELSE IF c = 2 THEN 3
                            ELSE IF c = 3 THEN 2 ELSE 99]
  BY DEF fbp_dclink_adcp_channel_config
<1>2. fac_dcdc_adcp_channel_config = [c \in 0 .. 7 |-> IF c = 4 THEN 0 ELSE 99]
  BY DEF fac_dcdc_adcp_channel_config
<1>3. fac_dcdc_ema_adcp_channel_config = [c \in 0 .. 7 |-> IF c = 0 THEN 0 ELSE 99]
  BY DEF fac_dcdc_ema_adcp_channel_config
<1>4. fap_adcp_channel_config =
          [c \in 0 .. 7 |-> IF c = 0 THEN 0 ELSE IF c = 1 THEN 1 ELSE 99]
  BY DEF fap_adcp_channel_config
<1>5. fac_2p_dcdc_imas_adcp_channel_config =
          [c \in 0 .. 7 |-> IF c = 1 THEN 0 ELSE IF c = 2 THEN 1 ELSE 99]
  BY DEF fac_2p_dcdc_imas_adcp_channel_config
<1> QED BY <1>1, <1>2, <1>3, <1>4, <1>5

LEMMA WiredModels == \A m \in AllModels : Wired(SystemConfig[m])
<1> USE DEF Wired, Config, Signals, AllOff, Unconnected, Board
<1>1. Wired(fbp_system_config)
  BY DEF fbp_system_config, fbp_adcp_channel_config
<1>2. Wired(fbp_dclink_system_config)
  BY SparseTables DEF fbp_dclink_system_config
<1>3. Wired(fac_acdc_system_config)
  BY DEF fac_acdc_system_config, fac_acdc_adcp_channel_config, fac_acdc_boards
<1>4. Wired(fac_dcdc_system_config) /\ Wired(fac_dcdc_ema_system_config)
  BY SparseTables DEF fac_dcdc_system_config, fac_dcdc_boards,
     fac_dcdc_ema_system_config, fac_dcdc_ema_boards
<1>5. Wired(fap_system_config)
  BY SparseTables DEF fap_system_config, fap_boards
<1>6. Wired(fac_2s_acdc_system_config) /\ Wired(fac_2p4s_acdc_system_config)
  BY DEF fac_2s_acdc_system_config, fac_2s_acdc_adcp_channel_config, fac_2s_acdc_boards,
     fac_2p4s_acdc_system_config, fac_2p4s_acdc_adcp_channel_config, fac_2p4s_acdc_boards
<1>7. Wired(fac_2s_dcdc_system_config)
  BY DEF fac_2s_dcdc_system_config, fac_2s_dcdc_adcp_channel_config, fac_2s_dcdc_boards
<1>8. Wired(fac_2p4s_dcdc_system_config)
  BY DEF fac_2p4s_dcdc_system_config, fac_2p4s_dcdc_adcp_channel_config, fac_2p4s_dcdc_boards
<1>9. Wired(fac_2p_acdc_imas_system_config) /\ Wired(fac_2p_dcdc_imas_system_config)
  BY SparseTables DEF fac_2p_acdc_imas_system_config, fac_2p_acdc_imas_adcp_channel_config,
     fac_2p_dcdc_imas_system_config
<1>10. Wired(fap_4p_system_config) /\ Wired(fap_2p2s_system_config)
  BY DEF fap_4p_system_config, fap_4p_adcp_channel_config, fap_4p_boards,
     fap_2p2s_system_config, fap_2p2s_adcp_channel_config, fap_2p2s_boards
<1>11. Wired(Config(AllOff, <<>>, <<>>, Nothing, 0))
  OBVIOUS
<1> HIDE DEF Wired, Config
<1> QED BY <1>1, <1>2, <1>3, <1>4, <1>5, <1>6, <1>7, <1>8, <1>9, <1>10, <1>11
        DEF AllModels, SystemConfig

LEMMA ModelWired ==
    ASSUME model \in Models
    PROVE  Wired(Cfg)
BY SystemAssumption, WiredModels DEF Cfg

----------------------------------------------------------------------------
(* The words each field and each signal may hold.                          *)

\* Nothing yet, or message 0 of an identifier of no board.
NoWord == {Zero, ForeignWord(1), ForeignWord(2)}

\* The halves of the messages of board a that carry field f.
BoardWords(a, f) ==
    {w \in {a} \X (0 .. Last(a)) \X {1, 2} : Cfg.boards[a].messages[w[2] + 1][w[3]] = f}

SignalWords(i) ==
    {SampleWord(c) : c \in {d \in 0 .. 7 : Cfg.adcp[d] = i}}
    \cup UNION {BoardWords(a, Cfg.boards[a].copied) :
                    a \in {b \in Boards : Cfg.boards[b].signal = i}}

FieldsShown ==
    /\ iib = [a \in Boards |-> iib[a]]
    /\ \A a \in Boards :
          /\ DOMAIN iib[a] = FieldsOf(Cfg.boards[a])
          /\ \A f \in DOMAIN iib[a] : iib[a][f] \in NoWord \cup BoardWords(a, f)

SignalsShown ==
    /\ net = [i \in Signals |-> net[i]]
    /\ \A i \in Signals : net[i] \in NoWord \cup SignalWords(i)

DataInv == TInv /\ IlkInv /\ FieldsShown /\ SignalsShown

LEMMA InitData == Init => DataInv
BY InitTyped, InitInterlock DEF Init, DataInv, FieldsShown, SignalsShown, NoWord

LEMMA SameWords ==
    ASSUME UNCHANGED model
    PROVE  /\ Cfg' = Cfg /\ Boards' = Boards
           /\ \A a : FieldsOf(Cfg.boards[a])' = FieldsOf(Cfg.boards[a])
           /\ \A a, f : BoardWords(a, f)' = BoardWords(a, f)
           /\ \A i : SignalWords(i)' = SignalWords(i)
<1>1. Cfg' = Cfg /\ Boards' = Boards
  BY DEF Cfg, Boards
<1> QED BY <1>1 DEF FieldsOf, BoardWords, SignalWords, Last

\* Storing a message puts each half where that half belongs.
LEMMA StoreData ==
    ASSUME FieldsShown, SignalsShown, NEW a \in Boards, NEW v \in 0 .. Last(a),
           NEW hi \in NoWord \cup {Word(a, v, 1)}, NEW lo \in NoWord \cup {Word(a, v, 2)},
           StoreMessage(a, v, hi, lo), UNCHANGED model
    PROVE  FieldsShown' /\ SignalsShown'
<1> DEFINE b == Cfg.boards[a]
           names == b.messages[v + 1]
           word(f) == IF f = names[1] THEN hi ELSE lo
           touched == {names[1], names[2]}
<1>0. /\ Boards' = Boards /\ Cfg' = Cfg
      /\ \A c : FieldsOf(Cfg.boards[c])' = FieldsOf(Cfg.boards[c])
      /\ \A c, f : BoardWords(c, f)' = BoardWords(c, f)
      /\ \A i : SignalWords(i)' = SignalWords(i)
  BY SameWords
<1>1. /\ iib' = [iib EXCEPT ![a] =
                [f \in DOMAIN @ |-> IF f \in touched THEN word(f) ELSE @[f]]]
      /\ net' = IF b.copied \in touched
                THEN [net EXCEPT ![b.signal] = word(b.copied)] ELSE net
  BY DEF StoreMessage
<1>2. ASSUME NEW f \in touched PROVE word(f) \in NoWord \cup BoardWords(a, f)
  <2>1. Word(a, v, 1) \in BoardWords(a, names[1]) /\ Word(a, v, 2) \in BoardWords(a, names[2])
    BY DEF BoardWords, Word
  <2>2. CASE f = names[1]
    BY <2>1, <2>2
  <2>3. CASE f # names[1] /\ f = names[2]
    BY <2>1, <2>3
  <2> QED BY <2>2, <2>3
<1> HIDE DEF touched, word
<1>3. /\ iib' = [c \in Boards |-> iib'[c]]
      /\ \A c \in Boards : c # a => iib'[c] = iib[c]
      /\ iib'[a] = [f \in DOMAIN iib[a] |-> IF f \in touched THEN word(f) ELSE iib[a][f]]
  BY <1>1 DEF FieldsShown
<1>4. FieldsShown'
  <2>1. DOMAIN iib'[a] = FieldsOf(Cfg.boards[a])
        /\ \A f \in DOMAIN iib'[a] : iib'[a][f] \in NoWord \cup BoardWords(a, f)
    BY <1>2, <1>3 DEF FieldsShown
  <2>2. NoWord' = NoWord
    BY DEF NoWord, Zero, ForeignWord
  <2> QED BY <1>0, <1>3, <2>1, <2>2 DEF FieldsShown
<1>5. SignalsShown'
  <2>1. NoWord' = NoWord
    BY DEF NoWord, Zero, ForeignWord
  <2>2. CASE ~(b.copied \in touched /\ b.signal \in Signals)
    <3>1. net' = net
      BY <1>1, <2>2 DEF SignalsShown
    <3> QED BY <1>0, <2>1, <3>1 DEF SignalsShown
  <2>3. CASE b.copied \in touched /\ b.signal \in Signals
    <3>1. word(b.copied) \in NoWord \cup SignalWords(b.signal)
      BY <1>2, <2>3 DEF SignalWords
    <3>2. net' = [net EXCEPT ![b.signal] = word(b.copied)]
      BY <1>1, <2>3
    <3> QED BY <1>0, <2>1, <2>3, <3>1, <3>2 DEF SignalsShown
  <2> QED BY <2>2, <2>3
<1> QED BY <1>4, <1>5

LEMMA StepData == DataInv /\ [Next]_vars => DataInv'
<1> SUFFICES ASSUME DataInv, [Next]_vars PROVE FieldsShown' /\ SignalsShown'
  BY StepTyped, StepInterlock DEF DataInv
<1>0. UNCHANGED model
  BY DEF vars, Next, TaskCheck, TaskAdcp, TaskCan, TaskRtc, TaskItlk, TaskLed,
     adcp_get_samples, can_error_handler, can_check, TestFlag, LoadFlag, StoreFlag,
     send_reset_iib_message, Interrupts, can_int_handler, isr_adcp, Environment,
     BoardSends, ForeignSends, Receive, Transmitted, BusError, isr_global_timer,
     RequestReset, InterlockState
<1>1. NoWord' = NoWord
  BY DEF NoWord, Zero, ForeignWord
<1>2. CASE UNCHANGED <<iib, net>>
  BY <1>0, <1>1, <1>2, SameWords DEF DataInv, FieldsShown, SignalsShown
<1>3. CASE adcp_get_samples
  <2>1. UNCHANGED iib
    BY <1>3 DEF adcp_get_samples
  <2>2. SignalsShown'
    <3>1. CASE UNCHANGED net
      BY <1>2, <2>1, <3>1
    <3>2. ASSUME NEW c \in 0 .. 7, net' = adc_channel(c, c) PROVE SignalsShown'
      <4>1. SampleWord(c) \in SignalWords(Cfg.adcp[c])
        BY DEF SignalWords
      <4> HIDE DEF SampleWord
      <4> QED BY <1>0, <1>1, <1>2, <2>1, <3>2, <4>1, SameWords
              DEF DataInv, SignalsShown, adc_channel
    <3>3. main.i < adc.counter_sampl => main.i + 1 \in 1 .. 8
      BY DEF DataInv, TInv, TypeOK, ScanOK, NumMasks
    <3>4. \A k \in 1 .. 8 : adc.RxTable[k] \in 0 .. 7
      BY DEF DataInv, TInv, ScanOK
    <3> QED BY <1>3, <3>1, <3>2, <3>3, <3>4 DEF adcp_get_samples
  <2>3. FieldsShown'
    BY <1>0, <1>1, <2>1, SameWords DEF DataInv, FieldsShown
  <2> QED BY <2>2, <2>3
<1>4. CASE can_int_handler /\ DataInterrupt
  <2> DEFINE f == can.rx
  <2>1. handle_can_data(f)
    BY <1>4 DEF DataInterrupt
  <2>2. CASE f.from # Foreign /\ StoreMessage(f.from, f.var, Data(f, 1), Data(f, 2))
    <3>1. f.from \in Boards /\ f.var \in 0 .. Last(f.from)
      BY <2>2 DEF DataInv, IlkInv, FrameOK
    <3>2. /\ Data(f, 1) \in NoWord \cup {Word(f.from, f.var, 1)}
          /\ Data(f, 2) \in NoWord \cup {Word(f.from, f.var, 2)}
      BY <2>2 DEF Data, Half, NoWord
    <3> QED BY <1>0, <2>2, <3>1, <3>2, StoreData DEF DataInv
  <2>3. CASE UNCHANGED <<iib, net, asked>>
    BY <1>2, <2>3
  <2>4. ASSUME NEW a \in Boards, f.from = Foreign, StoreMessage(a, 0, Data(f, 1), Data(f, 2))
        PROVE  FieldsShown' /\ SignalsShown'
    <3>1. 0 \in 0 .. Last(a)
      BY ModelBoards, LastMessage DEF DataInv, IlkInv, IlkTyped, Last
    <3>2. Data(f, 1) \in NoWord /\ Data(f, 2) \in NoWord
      BY <2>4 DEF Data, Half, NoWord
    <3> QED BY <1>0, <2>4, <3>1, <3>2, StoreData DEF DataInv
  <2> QED BY <2>1, <2>2, <2>3, <2>4 DEF handle_can_data, handle_foreign
<1>5. CASE UNCHANGED vars
  BY <1>2, <1>5 DEF vars
<1>6. CASE \/ TaskAdcp \/ TaskCan \/ TaskRtc \/ TaskItlk \/ TaskLed \/ can_error_handler
           \/ send_reset_iib_message \/ isr_adcp \/ Environment
           \/ can_int_handler /\ (StatusInterrupt \/ ResetInterrupt)
  <2>1. UNCHANGED <<iib, net>>
    BY <1>6 DEF TaskAdcp, TaskCan, TaskRtc, TaskItlk, TaskLed, can_error_handler,
       can_check, TestFlag, LoadFlag, StoreFlag, send_reset_iib_message, isr_adcp,
       Environment, BoardSends, ForeignSends, Receive, Transmitted, BusError,
       isr_global_timer, RequestReset, InterlockState, StatusInterrupt, ResetInterrupt,
       canVars
  <2> QED BY <1>2, <2>1
<1> QED BY <1>3, <1>4, <1>5, <1>6 DEF Next, TaskCheck, Interrupts, can_int_handler

----------------------------------------------------------------------------
(* One writer for each signal.                                             *)

\* The first component of a word is where it comes from.
LEMMA Origins ==
    ASSUME model \in Models, NEW i \in Signals, NEW w \in SignalWords(i)
    PROVE  \/ \E c \in 0 .. 7 : Cfg.adcp[c] = i /\ w = SampleWord(c)
           \/ \E a \in Boards : /\ Cfg.boards[a].signal = i
                                /\ w \in BoardWords(a, Cfg.boards[a].copied)
BY DEF SignalWords

LEMMA OneOrigin ==
    ASSUME model \in Models, NEW i \in Signals,
           NEW w \in SignalWords(i), NEW z \in SignalWords(i)
    PROVE  w[1] = z[1]
<1>1. Wired(Cfg)
  BY ModelWired
<1>2. \A a, f : \A x \in BoardWords(a, f) : x[1] = a
  BY DEF BoardWords
<1>3. ASSUME NEW c \in 0 .. 7, Cfg.adcp[c] = i, w = SampleWord(c) PROVE w[1] = z[1]
  BY <1>1, <1>3, Origins DEF Wired, Boards
<1>4. ASSUME NEW a \in Boards, Cfg.boards[a].signal = i,
             w \in BoardWords(a, Cfg.boards[a].copied)
      PROVE  w[1] = z[1]
  BY <1>1, <1>2, <1>4, Origins DEF Wired, Boards
<1> QED BY <1>3, <1>4, Origins

(* A signal handed to the C28 has one writer, on every model: one channel  *)
(* of the ADC, whatever the order of the scan and of the interrupt that    *)
(* rewrites ADCP_RxTable, or one board on the bus.                         *)
THEOREM OneWriterOfSignals == Spec => OneWriter
<1> DEFINE Kept == \A i \in Signals :
                      net[i] # Zero /\ net'[i] # Zero =>
                          \/ net[i][1] = net'[i][1]
                          \/ Foreign \in {net[i][1], net'[i][1]}
<1>1. ASSUME DataInv, DataInv', UNCHANGED model PROVE Kept
  <2> SUFFICES ASSUME NEW i \in Signals, net[i][1] # Foreign, net'[i][1] # Foreign
               PROVE  net[i][1] = net'[i][1]
    OBVIOUS
  <2>1. \A w \in NoWord : w[1] = Foreign
    BY DEF NoWord, Zero, ForeignWord, Foreign
  <2>2. net[i] \in SignalWords(i)
    BY <1>1, <2>1 DEF DataInv, SignalsShown
  <2>3. net'[i] \in SignalWords(i)
    <3>1. NoWord' = NoWord
      BY DEF NoWord, Zero, ForeignWord
    <3>2. SignalWords(i)' = SignalWords(i)
      BY <1>1, SameWords
    <3> QED BY <1>1, <2>1, <3>1, <3>2 DEF DataInv, SignalsShown
  <2> QED BY <1>1, <2>2, <2>3, OneOrigin DEF DataInv, TInv, TypeOK
<1>2. DataInv /\ [Next]_vars => UNCHANGED model
  BY DEF vars, Next, TaskCheck, TaskAdcp, TaskCan, TaskRtc, TaskItlk, TaskLed,
     adcp_get_samples, can_error_handler, can_check, TestFlag, LoadFlag, StoreFlag,
     send_reset_iib_message, Interrupts, can_int_handler, isr_adcp, Environment,
     BoardSends, ForeignSends, Receive, Transmitted, BusError, isr_global_timer,
     RequestReset, InterlockState
<1>3. DataInv /\ DataInv' /\ [Next]_vars => [Kept]_net
  BY <1>1, <1>2
<1> QED BY <1>3, InitData, StepData, PTL DEF Spec, OneWriter

----------------------------------------------------------------------------
(* What the servers show.                                                  *)

\* The variables BoardsShown speaks of are fields of boards that are there.
LEMMA SourcesShown ==
    ASSUME model \in Models, NEW s \in Servers, NEW x \in VarsOf[model][s]
    PROVE  x \in BoardSources(Cfg.boards)
<1> DEFINE table == SystemConfig[model].server
           own == {k \in DOMAIN table : table[k].op = "create" /\ table[k].server = s}
           sources == UNION {{table[k].sources[j] : j \in DOMAIN table[k].sources} : k \in own}
           S == SourcesWith(Cfg.boards)
<1>1. model \in AllModels
  BY SystemAssumption
<1>2. VarsOf[model][s] = {src \in sources : src[1] \in {"iib", "net"}}
  BY <1>1 DEF VarsOf
<1>3. table \in Seq(CallsWith(S))
  BY <1>1, SourcedModels DEF Sourced, Cfg
<1>4. PICK k \in own : \E j \in DOMAIN table[k].sources : x = table[k].sources[j]
  BY <1>2
<1>5. table[k] \in CallsWith(S)
  <2> HIDE DEF table
  <2> QED BY <1>3, <1>4
<1>6. table[k].sources \in Seq(S)
  <2> HIDE DEF table, S
  <2> QED BY <1>5 DEF CallsWith
<1>7. x \in S
  <2> HIDE DEF table, S
  <2> QED BY <1>4, <1>6
<1>8. x[1] \in {"iib", "net"}
  BY <1>2
<1>9. x \notin OtherSources
  BY <1>8 DEF OtherSources
<1> QED BY <1>7, <1>9 DEF SourcesWith

LEMMA WordsApart ==
    ASSUME NEW a, NEW b, NEW f, NEW g, NEW w, w \in BoardWords(a, f), w \in BoardWords(b, g)
    PROVE  a = b /\ f = g /\ w[1] = a
BY DEF BoardWords

LEMMA WordOf ==
    ASSUME DataInv, NEW x \in BoardSources(Cfg.boards), Shown(x)[1] # Foreign
    PROVE  \/ \E a \in Boards : \E f \in FieldsOf(Cfg.boards[a]) :
                 x = Iib(a, f) /\ Shown(x) \in BoardWords(a, f)
           \/ \E i \in Signals : x = Net(i) /\ Shown(x) \in SignalWords(i)
<1>0. \A w \in NoWord : w[1] = Foreign
  BY DEF NoWord, Zero, ForeignWord, Foreign
<1>1. CASE \E a \in Boards : \E f \in FieldsOf(Cfg.boards[a]) : x = Iib(a, f)
  <2>1. PICK a \in Boards : \E f \in FieldsOf(Cfg.boards[a]) : x = Iib(a, f)
    BY <1>1
  <2>2. PICK f \in FieldsOf(Cfg.boards[a]) : x = Iib(a, f)
    BY <2>1
  <2>3. Shown(x) = iib[a][f]
    BY <2>2 DEF Shown, Iib
  <2>4. iib[a][f] \in NoWord \cup BoardWords(a, f)
    BY DEF DataInv, FieldsShown
  <2> QED BY <1>0, <2>2, <2>3, <2>4
<1>2. CASE \E i \in Signals : x = Net(i)
  <2>1. PICK i \in Signals : x = Net(i)
    BY <1>2
  <2>2. Shown(x) = net[i]
    BY <2>1 DEF Shown, Net
  <2> QED BY <1>0, <2>1, <2>2 DEF DataInv, SignalsShown
<1> QED BY <1>1, <1>2 DEF BoardSources, Boards, FieldsOf, FieldNames, Signals

\* Only a board's copied field shares its word with a signal.
LEMMA SharedWord ==
    ASSUME DataInv, NEW a \in Boards, NEW f, NEW i \in Signals,
           NEW w, w \in BoardWords(a, f), w \in SignalWords(i)
    PROVE  f = Cfg.boards[a].copied /\ i = Cfg.boards[a].signal
<1>1. Wired(Cfg) /\ model \in Models
  BY ModelWired DEF DataInv, TInv, TypeOK
<1>2. w[1] = a /\ a \in 1 .. 8
  BY <1>1, WordsApart DEF Wired, Boards
<1>3. ~ \E c \in 0 .. 7 : w = SampleWord(c)
  BY <1>2 DEF SampleWord
<1>4. PICK b \in Boards : Cfg.boards[b].signal = i /\ w \in BoardWords(b, Cfg.boards[b].copied)
  BY <1>1, <1>3, Origins
<1> QED BY <1>4, WordsApart

LEMMA SameSignal ==
    ASSUME DataInv, NEW i \in Signals, NEW j \in Signals,
           NEW w, w \in SignalWords(i), w \in SignalWords(j)
    PROVE  i = j
<1>1. Wired(Cfg) /\ model \in Models
  BY ModelWired DEF DataInv, TInv, TypeOK
<1>2. CASE \E b \in Boards : w \in BoardWords(b, Cfg.boards[b].copied)
  BY <1>2, SharedWord
<1>3. ASSUME NEW c \in 0 .. 7, w = SampleWord(c), Cfg.adcp[c] = i PROVE i = j
  <2>1. CASE \E d \in 0 .. 7 : Cfg.adcp[d] = j /\ w = SampleWord(d)
    BY <1>3, <2>1 DEF SampleWord
  <2>2. CASE \E b \in Boards : w \in BoardWords(b, Cfg.boards[b].copied)
    BY <1>2, <2>2
  <2> QED BY <1>1, <2>1, <2>2, Origins
<1> QED BY <1>1, <1>2, <1>3, Origins

(* What a BSMP server shows of a board is what that board sent, one half   *)
(* of a message in one field, on every model and for every order of the    *)
(* messages, of identifiers of no board and of the samples of the ADC.     *)
THEOREM BoardsShownRight == Spec => []BoardsShown
<1>1. DataInv => BoardsShown
  <2> SUFFICES ASSUME DataInv, NEW s \in Servers,
                      NEW x \in VarsOf[model][s], Shown(x)[1] # Foreign
               PROVE  /\ x[1] = "iib" => Shown(x)[1] = x[2]
                      /\ \A y \in VarsOf[model][s] :
                            /\ Shown(y)[1] # Foreign
                            /\ x # y /\ Shown(x) = Shown(y)
                            => Copies(x, y)
    BY DEF BoardsShown
  <2>0. model \in Models
    BY DEF DataInv, TInv, TypeOK
  <2>1. x \in BoardSources(Cfg.boards)
    BY <2>0, SourcesShown
  <2>2. x[1] = "iib" => Shown(x)[1] = x[2]
    <3>1. \A a, f : \A w \in BoardWords(a, f) : w[1] = a
      BY DEF BoardWords
    <3> QED BY <2>1, <3>1, WordOf DEF Iib, Net
  <2>3. ASSUME NEW y \in VarsOf[model][s], Shown(y)[1] # Foreign, x # y,
               Shown(x) = Shown(y)
        PROVE  Copies(x, y)
    <3>1. y \in BoardSources(Cfg.boards)
      BY <2>0, SourcesShown
    <3>2. ASSUME NEW a \in Boards, NEW f, x = Iib(a, f), Shown(x) \in BoardWords(a, f)
          PROVE  Copies(x, y)
      <4>1. ASSUME NEW b \in Boards, NEW g, y = Iib(b, g), Shown(y) \in BoardWords(b, g)
            PROVE  FALSE
        BY <2>3, <3>2, <4>1, WordsApart
      <4>2. PICK i \in Signals : y = Net(i) /\ Shown(y) \in SignalWords(i)
        BY <2>3, <3>1, <4>1, WordOf
      <4>3. f = Cfg.boards[a].copied /\ i = Cfg.boards[a].signal
        BY <2>3, <3>2, <4>2, SharedWord
      <4> QED BY <3>2, <4>2, <4>3 DEF Copies
    <3>3. ASSUME NEW i \in Signals, x = Net(i), Shown(x) \in SignalWords(i)
          PROVE  Copies(x, y)
      <4>1. ASSUME NEW j \in Signals, y = Net(j), Shown(y) \in SignalWords(j)
            PROVE  FALSE
        BY <2>3, <3>3, <4>1, SameSignal
      <4>2. PICK b \in Boards : \E g : y = Iib(b, g) /\ Shown(y) \in BoardWords(b, g)
        BY <2>3, <3>1, <4>1, WordOf
      <4>3. PICK g : y = Iib(b, g) /\ Shown(y) \in BoardWords(b, g)
        BY <4>2
      <4>4. g = Cfg.boards[b].copied /\ i = Cfg.boards[b].signal
        BY <2>3, <3>3, <4>3, SharedWord
      <4> QED BY <3>3, <4>3, <4>4 DEF Copies
    <3> QED BY <2>1, <3>2, <3>3, WordOf
  <2> QED BY <2>2, <2>3
<1> QED BY <1>1, InitData, StepData, PTL DEF Spec
=============================================================================
