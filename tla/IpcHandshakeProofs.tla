------------------------- MODULE IpcHandshakeProofs -------------------------
(***************************************************************************)
(* Proofs about IpcHandshake, for every number of power supplies, every    *)
(* poll limit and every set of BSMP functions of the shape of CmdType.     *)
(***************************************************************************)
EXTENDS IpcHandshake, TLAPS

----------------------------------------------------------------------------
(* The functions the module itself calls are functions of the table.       *)

\* The three functions that the specification names are well formed.
LEMMA NamedCmds ==
    /\ NoCall \in CmdType
    /\ bsmp_set_command_interface \in CmdType
    /\ bsmp_lock_udc \in CmdType
<1> USE DEF Plain, CmdType, FuncIds, Msgs, Fields, StatusFields, FromInput
<1>1. NoCall \in CmdType
    BY DEF NoCall, bsmp_turn_off, Turn_Off, Off
<1>2. bsmp_set_command_interface \in CmdType
    BY DEF bsmp_set_command_interface, Set_Command_Interface
<1>3. bsmp_lock_udc \in CmdType
    BY DEF bsmp_lock_udc, WithPassword, Lock_UDC
<1> QED
    BY <1>1, <1>2, <1>3

\* low_priority_msg_to_reg yields the strobe bit and code bits only.
LEMMA RegBits ==
    \A m \in Msgs : /\ low_priority_msg_to_reg(m) \subseteq LowBits
                    /\ 0 \in low_priority_msg_to_reg(m)
BY DEF low_priority_msg_to_reg, LowBits, IPC_MTOC_LOWPRIORITY_MSG, Bits

\* The bits a function works with: its message, or the synchronisation pulse.
LEMMA CmdReg ==
    \A cm \in CmdType :
        /\ Reg(cm) \subseteq FlagBits
        /\ cm.kind = "low" => Reg(cm) = low_priority_msg_to_reg(cm.msg)
        /\ cm.kind = "sync" => Reg(cm) \cap LowBits = {}
<1> SUFFICES ASSUME NEW cm \in CmdType
             PROVE  /\ Reg(cm) \subseteq FlagBits
                    /\ cm.kind = "low" => Reg(cm) = low_priority_msg_to_reg(cm.msg)
                    /\ cm.kind = "sync" => Reg(cm) \cap LowBits = {}
    OBVIOUS
<1>1. cm.msg \in Msgs /\ cm.kind \in {"low", "sync"}
    BY DEF CmdType
<1>2. LowBits \subseteq FlagBits /\ 1 \in FlagBits /\ 1 \notin LowBits
    BY DEF LowBits, FlagBits, IPC_MTOC_LOWPRIORITY_MSG
<1> QED
    BY <1>1, <1>2, RegBits DEF Reg, SYNC_PULSE

----------------------------------------------------------------------------
(* Type correctness.                                                       *)

\* 0 is a power supply and a value.
LEMMA Zeros == /\ 0 \in PS /\ 0 \in Vals /\ Zero \in [Fields -> Vals]
               /\ 0 .. 8 \subseteq Vals
BY NAssumption DEF PS, Vals, Zero

\* init_ipc establishes the types.
LEMMA InitType == Init => TypeOK
<1> SUFFICES ASSUME Init PROVE TypeOK
    OBVIOUS
<1>1. InitMemory \in Memory
  <2>1. BootInterface \in Vals
      BY DataAssumption DEF Vals, Remote, Local
  <2> QED
      BY <2>1, Zeros DEF InitMemory, Memory
<1> QED
    BY <1>1, Zeros, NamedCmds
    DEF Init, TypeOK, Ctx, Locations, AckCodes, Kinds, Tasks, NoAnswer, Off

\* The part of TypeOK about the locals of the contexts.
LocalsOK == /\ pc \in [Ctx -> Locations]
            /\ cmd \in [Ctx -> CmdType]
            /\ val \in [Ctx -> Vals]
            /\ want \in [Ctx -> PS]
            /\ mode \in [Ctx -> {"single", "bcast", "task"}]
            /\ arg \in [Ctx -> PS]
            /\ dst \in [Ctx -> PS]
            /\ word \in [Ctx -> [Fields -> Vals]]
            /\ tmp \in [Ctx -> Nat]
            /\ polls \in [Ctx -> Nat]
            /\ ack \in [Ctx -> AckCodes]

\* Starting a call keeps the types of the locals.
LEMMA BeginType ==
    ASSUME TypeOK, NEW c \in Ctx, NEW cm \in CmdType, NEW v \in Vals,
           NEW p \in PS, NEW m \in {"single", "bcast", "task"},
           NEW loc \in Locations, Begin(c, cm, v, p, m, loc)
    PROVE  LocalsOK'
BY DEF TypeOK, Begin, AckCodes, NoAnswer, LocalsOK

\* A call is started or a task taken: the types are kept.
LEMMA StartType ==
    TypeOK /\ (Packet \/ MainTask) => TypeOK'
<1> USE DEF dsp, arm, Ctx
<1>0. Inputs \subseteq Vals /\ Remote \in Vals
    BY Zeros DEF Vals, Remote
<1>1. ASSUME TypeOK, NEW p \in PS, NEW cm \in RemoteCmds, NEW v \in Inputs,
             rs485_process_data(p, cm, v)
      PROVE  TypeOK'
  <2>1. cm \in CmdType /\ v \in Vals
      BY <1>0, CmdsAssumption
  <2>2. Begin("isr", cm, v, p, "single", "iface")
      BY <1>1 DEF rs485_process_data
  <2>3. LocalsOK'
      BY <1>1, <2>1, <2>2, BeginType DEF Locations
  <2>4. /\ g_current_ps_id' \in PS /\ frames' \in Nat
        /\ UNCHANGED <<ulTimeout, tasks, pot, flg, msg_id, mtoc, itlkReg, dsp, pend>>
      BY <1>1, DataAssumption DEF rs485_process_data, TypeOK
  <2> QED
      BY <1>1, <2>3, <2>4 DEF TypeOK, LocalsOK
<1>2. ASSUME TypeOK, NEW cm \in RemoteCmds, NEW v \in Inputs, rs485_broadcast(cm, v)
      PROVE  TypeOK'
  <2>1. cm \in CmdType /\ v \in Vals
      BY <1>0, CmdsAssumption
  <2>2. Begin("isr", cm, v, 0, "bcast", "iface")
      BY <1>2 DEF rs485_broadcast
  <2>3. LocalsOK'
      BY <1>2, <2>1, <2>2, Zeros, BeginType DEF Locations
  <2>4. /\ g_current_ps_id' \in PS /\ frames' \in Nat
        /\ UNCHANGED <<ulTimeout, tasks, pot, flg, msg_id, mtoc, itlkReg, dsp, pend>>
      BY <1>2, Zeros, DataAssumption DEF rs485_broadcast, TypeOK
  <2> QED
      BY <1>2, <2>3, <2>4 DEF TypeOK, LocalsOK
<1>3. ASSUME TypeOK, NEW p \in PS, NEW cm \in LocalCmds, NEW v \in Inputs,
             ihm_process_data(p, cm, v)
      PROVE  TypeOK'
  <2>1. cm \in CmdType /\ v \in Vals
      BY <1>0, CmdsAssumption
  <2>2. Begin("main", cm, v, p, "single", "iface")
      BY <1>3 DEF ihm_process_data
  <2>3. LocalsOK'
      BY <1>3, <2>1, <2>2, BeginType DEF Locations
  <2>4. /\ g_current_ps_id' \in PS /\ frames' \in Nat
        /\ UNCHANGED <<ulTimeout, tasks, pot, flg, msg_id, mtoc, itlkReg, dsp, pend>>
      BY <1>3, DataAssumption DEF ihm_process_data, TypeOK
  <2> QED
      BY <1>3, <2>3, <2>4 DEF TypeOK, LocalsOK
<1>4. ASSUME TypeOK, TaskClearItlkAlarm PROVE TypeOK'
    BY <1>4 DEF TaskClearItlkAlarm, TaskDue, TypeOK, locals
<1>5. ASSUME TypeOK, TaskResetCommandInterface PROVE TypeOK'
  <2>1. Begin("main", bsmp_set_command_interface, Remote, 0, "task", "sweep")
      BY <1>5 DEF TaskResetCommandInterface
  <2>2. LocalsOK'
      BY <1>0, <1>5, <2>1, Zeros, NamedCmds, BeginType DEF Locations
  <2> QED
      BY <1>5, <2>2 DEF TaskResetCommandInterface, TaskDue, TypeOK, LocalsOK
<1>6. ASSUME TypeOK, TaskLockUdc PROVE TypeOK'
  <2>1. CASE NUM_PS_MODULES > 0
    <3>1. Begin("main", bsmp_lock_udc, 0, 0, "task", "enter")
        BY <1>6, <2>1 DEF TaskLockUdc
    <3>2. LocalsOK'
        BY <1>6, <3>1, Zeros, NamedCmds, BeginType DEF Locations
    <3> QED
        BY <1>6, <3>2 DEF TaskLockUdc, TaskDue, TypeOK, LocalsOK
  <2>2. CASE ~(NUM_PS_MODULES > 0)
      BY <1>6, <2>2 DEF TaskLockUdc, TaskDue, TypeOK, locals
  <2> QED
      BY <2>1, <2>2
<1> QED
    BY <1>1, <1>2, <1>3, <1>4, <1>5, <1>6 DEF Packet, MainTask

\* The writes before the busy test stay inside the type of the shared memory.
LEMMA PreWriteType ==
    ASSUME TypeOK, NEW cm \in CmdType, NEW v \in Vals, NEW p \in PS
    PROVE  PreWrite(cm, v, p) \in Memory
<1>1. mtoc \in [PS -> [Fields -> Vals]] /\ 0 \in PS
    BY Zeros DEF TypeOK, Memory
<1>2. Payload(cm, v) \in Vals
    BY Zeros DEF Payload, CmdType
<1>3. /\ "scope_status" \in Fields /\ "sync_mode" \in Fields
      /\ "coeffs" \in Fields
    BY DEF Fields
<1>4. CASE cm.pre = "scope"
    BY <1>1, <1>2, <1>3, <1>4 DEF PreWrite, Memory
<1>5. CASE cm.pre = "wfmref"
    BY <1>1, <1>3, <1>5 DEF PreWrite, Memory
<1>6. CASE cm.pre \in {"sync", "wfmref_sync"}
    BY <1>1, <1>3, <1>6 DEF PreWrite, Memory
<1>7. CASE cm.pre = "coeffs"
    BY <1>1, <1>3, <1>7 DEF PreWrite, Memory
<1>8. CASE cm.pre \in {"none", "itlk"}
    BY <1>1, <1>8 DEF PreWrite, Memory
<1> QED
    BY <1>4, <1>5, <1>6, <1>7, <1>8 DEF CmdType

\* A step of a BSMP function keeps the types.
LEMMA StepType ==
    ASSUME TypeOK, NEW c \in Ctx, Step(c) PROVE TypeOK'
<1> USE DEF dsp, arm, Go, Answer
<1>1. CASE BSMPprocess(c)
    BY <1>1 DEF BSMPprocess, TypeOK, Locations, AckCodes
<1>2. CASE Enter(c)
  <2>1. mtoc' \in Memory
    <3>1. mtoc' = mtoc \/ mtoc' = PreWrite(cmd[c], val[c], g_current_ps_id)
        BY <1>2 DEF Enter
    <3>2. /\ cmd[c] \in CmdType /\ val[c] \in Vals
          /\ g_current_ps_id \in PS /\ mtoc \in Memory
        BY DEF TypeOK
    <3> QED
        BY <3>1, <3>2, PreWriteType
  <2>2. itlkReg' \in [Kinds -> [PS -> Vals]]
      BY <1>2, Zeros DEF Enter, TypeOK
  <2>3. /\ pc' \in [Ctx -> Locations] /\ ack' \in [Ctx -> AckCodes]
        /\ ulTimeout' \in Nat
    <3>1. \/ pc' = [pc EXCEPT ![c] = "check"] /\ ack' = ack
          \/ /\ pc' = [pc EXCEPT ![c] = "ret"]
             /\ \/ ack' = [ack EXCEPT ![c] = Invalid_Command]
                \/ ack' = [ack EXCEPT ![c] = PS_Locked]
        BY <1>2 DEF Enter
    <3>2. ulTimeout' = 0 \/ ulTimeout' = ulTimeout
        BY <1>2 DEF Enter, ClearTimeout
    <3>3. pc' \in [Ctx -> Locations]
        BY <3>1 DEF TypeOK, Locations
    <3>4. Invalid_Command \in AckCodes /\ PS_Locked \in AckCodes
        BY DEF AckCodes
    <3>5. ack' \in [Ctx -> AckCodes]
        BY <3>1, <3>4 DEF TypeOK
    <3> QED
        BY <3>2, <3>3, <3>5 DEF TypeOK
  <2>4. UNCHANGED <<cmd, val, want, mode, arg, dst, word, tmp, polls,
                    g_current_ps_id, tasks, pot, frames, flg, msg_id, dsp, pend>>
      BY <1>2 DEF Enter
  <2> QED
      BY <2>1, <2>2, <2>3, <2>4 DEF TypeOK
<1>3. CASE CheckBusy(c)
    BY <1>3 DEF CheckBusy, ipc_mtoc_busy, TypeOK, Locations, AckCodes, Tasks
<1>4. CASE LoadStatus(c)
    BY <1>4, Zeros DEF LoadStatus, TypeOK, Locations, Memory
<1>5. CASE StorePayload(c)
  <2>1. mtoc' \in Memory
    <3>1. Payload(cmd[c], val[c]) \in Vals
        BY Zeros DEF Payload, TypeOK, CmdType
    <3>2. word[c] \in [Fields -> Vals]
        BY DEF TypeOK
    <3> QED
        BY <1>5, <3>1, <3>2 DEF StorePayload, PayloadWrite, TypeOK, Memory, Fields
  <2> QED
      BY <1>5, <2>1, Zeros DEF StorePayload, TypeOK, Locations
<1>6. CASE LoadArg(c)
    BY <1>6, Zeros DEF LoadArg, TypeOK, Locations
<1>7. CASE send_ipc_msg(c)
    BY <1>7 DEF send_ipc_msg, TypeOK, Locations
<1>8. CASE WriteMsgId(c)
    BY <1>8 DEF WriteMsgId, TypeOK, Locations
<1>9. CASE send_ipc_lowpriority_msg(c)
  <2>1. Message(c) \in MessageType
      BY Zeros DEF Message, MessageType, TypeOK, CmdType
  <2>2. flg' \subseteq FlagBits
      BY <1>9, CmdReg DEF send_ipc_lowpriority_msg, TypeOK
  <2> QED
      BY <1>9, <2>1, <2>2, Zeros DEF send_ipc_lowpriority_msg, TypeOK, Locations
<1>10. CASE PollFlag(c)
    BY <1>10 DEF PollFlag, TypeOK, Locations
<1>11. CASE PollLimit(c)
    BY <1>11 DEF PollLimit, TypeOK, Locations
<1>12. CASE ReadCounter(c)
    BY <1>12 DEF ReadCounter, TypeOK, Locations
<1>13. CASE IncrementCounter(c)
    BY <1>13 DEF IncrementCounter, TypeOK, Locations
<1>14. CASE Judge(c)
  <2>1. mtoc' \in Memory /\ pot' \in Vals
      BY <1>14, Zeros, ZenonT(60) DEF Judge, TypeOK, Memory, Fields
  <2> QED
      BY <1>14, <2>1 DEF Judge, TypeOK, Locations, AckCodes
<1>15. CASE Return(c)
  <2>1. CASE NextTurn(c)
    <3>1. want[c] + 1 \in PS \/ ~(want[c] + 1 < N)
        BY NAssumption DEF TypeOK, PS
    <3>2. NUM_PS_MODULES <= N /\ want[c] \in Nat
        BY NAssumption DEF TypeOK, PS
    <3>3. PICK m \in {"bcast", "task"}, loc \in {"iface", "enter"} :
              /\ Begin(c, cmd[c], val[c], want[c] + 1, m, loc)
              /\ want[c] + 1 \in PS
              /\ g_current_ps_id' \in PS
        BY <2>1, <3>1, <3>2, NAssumption DEF NextTurn, TypeOK
    <3>4. cmd[c] \in CmdType /\ val[c] \in Vals
        BY DEF TypeOK
    <3>5. LocalsOK'
        BY <3>3, <3>4, BeginType DEF Locations
    <3> QED
        BY <1>15, <3>3, <3>5 DEF Return, TypeOK, LocalsOK
  <2>2. CASE Finish(c)
      BY <1>15, <2>2, Zeros, NamedCmds
      DEF Return, Finish, TypeOK, Locations, AckCodes
  <2> QED
      BY <1>15, <2>1, <2>2 DEF Return
<1>16. CASE SweepLoad(c)
    BY <1>16 DEF SweepLoad, TypeOK, Locations, Memory
<1>17. CASE SweepStore(c)
  <2>1. mtoc' \in Memory
    <3>1. Remote \in Vals /\ want[c] \in PS /\ word[c] \in [Fields -> Vals]
        BY Zeros DEF Vals, Remote, TypeOK
    <3> QED
        BY <1>17, <3>1 DEF SweepStore, TypeOK, Memory
  <2>2. want' \in [Ctx -> PS]
    <3>1. want[c] + 1 \in PS \/ ~(want[c] + 1 < N)
        BY NAssumption DEF TypeOK, PS
    <3> QED
        BY <1>17, <3>1, Zeros DEF SweepStore, TypeOK
  <2>3. pc' \in [Ctx -> Locations]
      BY <1>17 DEF SweepStore, AfterSweep, TypeOK, Locations
  <2>4. word' \in [Ctx -> [Fields -> Vals]]
      BY <1>17, Zeros DEF SweepStore, TypeOK
  <2>5. UNCHANGED <<cmd, val, mode, arg, dst, tmp, polls, ack, arm, flg, msg_id,
                    itlkReg, dsp, pend>>
      BY <1>17 DEF SweepStore
  <2> QED
      BY <2>1, <2>2, <2>3, <2>4, <2>5 DEF TypeOK
<1> QED
    BY <1>1, <1>2, <1>3, <1>4, <1>5, <1>6, <1>7, <1>8, <1>9, <1>10, <1>11,
       <1>12, <1>13, <1>14, <1>15, <1>16, <1>17 DEF Step

\* Interrupts that run no function, and the C28, keep the types.
LEMMA EnvType ==
    ASSUME TypeOK, Timer \/ Can \/ C28 PROVE TypeOK'
<1> USE DEF dsp, arm, locals
<1>1. CASE Timer
    BY <1>1 DEF Timer, isr_global_timer, TypeOK
<1>2. CASE Can
  <2>1. Itlks \subseteq Vals
      BY DEF Vals
  <2>2. PICK k \in Kinds, p \in PS, i \in Itlks : set_interlock(k, p, i)
      BY <1>2 DEF Can
  <2>3. itlkReg' \in [Kinds -> [PS -> Vals]]
      BY <2>1, <2>2 DEF set_interlock, TypeOK
  <2>4. flg' \subseteq FlagBits /\ msg_id' \in PS
    <3>1. ItlkFlag(k) \in FlagBits
        BY DEF ItlkFlag, HARD_INTERLOCK, SOFT_INTERLOCK, FlagBits
    <3> QED
        BY <2>2, <3>1 DEF set_interlock, TypeOK
  <2> QED
      BY <2>2, <2>3, <2>4 DEF set_interlock, TypeOK
<1>3. CASE C28Take
    BY <1>3 DEF C28Take, TypeOK, FlagBits
<1>4. CASE C28Execute
  <2>1. latch' \in [full : BOOLEAN, bits : SUBSET LowBits, id : PS]
      BY <1>4, Zeros DEF C28Execute
  <2>2. ASSUME NEW m \in Msgs PROVE \A q \in PS : Updated(m, latch.id, q) \in [Fields -> Vals]
      BY Zeros DEF Updated, TypeOK, Memory, Off
  <2>3. ctom' \in Memory
      BY <1>4, <2>2 DEF C28Execute, TypeOK, Memory
  <2>4. ctomItlk' \in [Kinds -> [PS -> SUBSET Vals]]
    <3>1. \A k \in Kinds :
            [ctomItlk[k] EXCEPT ![latch.id] = {}] \in [PS -> SUBSET Vals]
        BY DEF TypeOK
    <3>2. \/ ctomItlk' = ctomItlk
          \/ ctomItlk' = [k \in Kinds |-> [ctomItlk[k] EXCEPT ![latch.id] = {}]]
        BY <1>4 DEF C28Execute
    <3>3. ctomItlk \in [Kinds -> [PS -> SUBSET Vals]]
        BY DEF TypeOK
    <3> QED
        BY <3>1, <3>2, <3>3
  <2> QED
      BY <1>4, <2>1, <2>3, <2>4 DEF C28Execute, TypeOK
<1>5. CASE C28TakeSync
    BY <1>5 DEF C28TakeSync, TypeOK
<1>6. ASSUME NEW k \in Kinds, C28TakeItlk(k) PROVE TypeOK'
  <2>1. ctomItlk' \in [Kinds -> [PS -> SUBSET Vals]]
      BY <1>6 DEF C28TakeItlk, TypeOK
  <2>2. ctom' \in Memory
      BY <1>6, Zeros DEF C28TakeItlk, TypeOK, Memory, Interlock, Fields,
                         StatusFields
  <2> QED
      BY <1>6, <2>1, <2>2 DEF C28TakeItlk, TypeOK
<1> QED
    BY <1>1, <1>2, <1>3, <1>4, <1>5, <1>6 DEF C28

\* Every behaviour of the command path keeps all types; no index of a message,
\* a payload or a status array leaves 0 .. NUM_MAX_PS_MODULES - 1.
THEOREM TypeCorrect == Spec => []TypeOK
<1>1. TypeOK /\ [Next]_vars => TypeOK'
  <2> SUFFICES ASSUME TypeOK, [Next]_vars PROVE TypeOK'
      OBVIOUS
  <2>1. CASE UNCHANGED vars
      BY <2>1 DEF vars, TypeOK
  <2>2. CASE Next
      BY <2>2, StartType, StepType, EnvType DEF Next
  <2> QED
      BY <2>1, <2>2
<1> QED
    BY <1>1, InitType, PTL DEF Spec

----------------------------------------------------------------------------
(* The mailbox.                                                            *)

Safe == /\ MailboxInv /\ IsrMessageIntact /\ CodeIntact
        /\ CounterInv /\ OkMeansTaken /\ TimeoutMeansPolled

\* Which flag bits carry a low priority message.
LEMMA Lows == /\ 0 \in LowBits /\ 1 \notin LowBits
              /\ 2 \notin LowBits /\ 3 \notin LowBits
BY DEF LowBits, IPC_MTOC_LOWPRIORITY_MSG

\* Initially the mailbox is empty and no call is under way.
LEMMA InitSafe == Init => Safe
BY DEF Init, Safe, MailboxInv, IsrMessageIntact, CodeIntact, CounterInv,
       OkMeansTaken, TimeoutMeansPolled, Polling, Sending, Ctx, NoAnswer, Ok,
       DSP_Timeout

\* A packet or a task starts a call before the busy test of a function.
LEMMA StartSafe ==
    ASSUME TypeOK, Safe, Packet \/ MainTask PROVE Safe'
<1> USE DEF Safe, MailboxInv, IsrMessageIntact, CodeIntact, CounterInv,
            OkMeansTaken, TimeoutMeansPolled, Polling, Sending, Ctx, dsp, arm
<1>1. ASSUME NEW p \in PS, NEW cm \in RemoteCmds, NEW v \in Inputs,
             rs485_process_data(p, cm, v)
      PROVE  Safe'
    BY <1>1 DEF rs485_process_data, Begin, TypeOK
<1>2. ASSUME NEW cm \in RemoteCmds, NEW v \in Inputs, rs485_broadcast(cm, v)
      PROVE  Safe'
    BY <1>2 DEF rs485_broadcast, Begin, TypeOK
<1>3. ASSUME NEW p \in PS, NEW cm \in LocalCmds, NEW v \in Inputs,
             ihm_process_data(p, cm, v)
      PROVE  Safe'
    BY <1>3 DEF ihm_process_data, Begin, TypeOK
<1>4. ASSUME TaskClearItlkAlarm PROVE Safe'
    BY <1>4 DEF TaskClearItlkAlarm, TaskDue, locals
<1>5. ASSUME TaskResetCommandInterface PROVE Safe'
    BY <1>5 DEF TaskResetCommandInterface, TaskDue, locals, Begin, TypeOK
<1>6. ASSUME TaskLockUdc PROVE Safe'
    BY <1>6 DEF TaskLockUdc, TaskDue, locals, Begin, TypeOK
<1> QED
    BY <1>1, <1>2, <1>3, <1>4, <1>5, <1>6 DEF Packet, MainTask

\* A step of a BSMP function, in either context.
LEMMA StepSafe ==
    ASSUME TypeOK, Safe, NEW c \in Ctx, Step(c) PROVE Safe'
<1> USE DEF Safe, MailboxInv, IsrMessageIntact, CodeIntact, CounterInv,
            OkMeansTaken, TimeoutMeansPolled, Polling, Sending, Ctx, dsp, arm, Go, Runs, Answer
<1>0. TIMEOUT_DSP_IPC_ACK \in Nat \ {0}
    BY TimeoutAssumption
<1>1. CASE BSMPprocess(c)
    BY <1>1 DEF BSMPprocess, TypeOK, Ok, PS_is_Local,
                Invalid_Command, DSP_Timeout
<1>2. CASE Enter(c)
  <2>1. \/ /\ pc' = [pc EXCEPT ![c] = "check"] /\ ack' = ack
           /\ cmd[c].reset # "never" => ulTimeout' = 0
        \/ /\ pc' = [pc EXCEPT ![c] = "ret"]
           /\ \/ ack' = [ack EXCEPT ![c] = Invalid_Command]
              \/ ack' = [ack EXCEPT ![c] = PS_Locked]
    <3>1. cmd[c].reset \in {"first", "gated", "never"}
        BY DEF TypeOK, CmdType
    <3> QED
        BY <1>2, <3>1 DEF Enter, ClearTimeout
  <2>2. UNCHANGED <<cmd, want, mode, arg, tmp, polls, g_current_ps_id, flg, msg_id,
                    pend>>
      BY <1>2 DEF Enter
  <2>3. pc[c] = "enter" /\ (c = "main" => pc["isr"] = "idle")
      BY <1>2 DEF Enter
  <2> QED
      BY <1>0, <2>1, <2>2, <2>3 DEF TypeOK, Ok, Invalid_Command, PS_Locked,
                                       DSP_Timeout
<1>3. CASE CheckBusy(c)
  <2>1. \/ /\ pc' = [pc EXCEPT ![c] = "load"] /\ ack' = ack
           /\ flg \cap Reg(cmd[c]) = {}
        \/ /\ pc' = [pc EXCEPT ![c] = "ret"]
           /\ \/ ack' = [ack EXCEPT ![c] = DSP_Busy]
              \/ ack' = [ack EXCEPT ![c] = Resource_Busy]
      BY <1>3 DEF CheckBusy, ipc_mtoc_busy
  <2>2. UNCHANGED <<cmd, want, mode, arg, tmp, polls, ulTimeout, g_current_ps_id, flg, msg_id,
                    pend>>
      BY <1>3 DEF CheckBusy
  <2>3. pc[c] = "check" /\ (c = "main" => pc["isr"] = "idle")
      BY <1>3 DEF CheckBusy
  <2>4. flg \cap Reg(cmd[c]) = {} /\ cmd[c].kind = "low" => pend = {}
      BY CmdReg, RegBits DEF TypeOK, CmdType, IPC_MTOC_LOWPRIORITY_MSG
  <2> QED
      BY <2>1, <2>2, <2>3, <2>4 DEF TypeOK, Ok, DSP_Busy, Resource_Busy,
                                       DSP_Timeout
<1>4. CASE LoadStatus(c)
    BY <1>0, <1>4 DEF LoadStatus, TypeOK
<1>5. CASE StorePayload(c)
    BY <1>0, <1>5 DEF StorePayload, TypeOK
<1>6. CASE LoadArg(c)
    BY <1>0, <1>6 DEF LoadArg, TypeOK
<1>7. CASE send_ipc_msg(c)
  <2>1. \/ pc' = [pc EXCEPT ![c] = "id"]
        \/ pc' = [pc EXCEPT ![c] = "wait"]
      BY <1>7 DEF send_ipc_msg
  <2>2. cmd[c].kind = "sync" /\ pc[c] = "probe"
      BY <1>7 DEF send_ipc_msg
  <2> QED
      BY <1>7, <2>1, <2>2 DEF send_ipc_msg, TypeOK
<1>8. CASE WriteMsgId(c)
    BY <1>0, <1>8 DEF WriteMsgId, TypeOK
<1>9. CASE send_ipc_lowpriority_msg(c)
  <2>1. /\ pc[c] = "set" /\ (c = "main" => pc["isr"] = "idle")
        /\ pc' = [pc EXCEPT ![c] = "wait"]
        /\ flg' = flg \cup Reg(cmd[c])
        /\ UNCHANGED <<cmd, want, mode, tmp, polls, ack, ulTimeout, g_current_ps_id,
                       msg_id>>
        /\ arg' = [arg EXCEPT ![c] = 0]
      BY <1>9 DEF send_ipc_lowpriority_msg
  <2>2. CASE cmd[c].kind = "sync"
    <3>1. flg' \cap LowBits = flg \cap LowBits /\ pend' = pend
        BY <1>9, <2>1, <2>2, CmdReg DEF send_ipc_lowpriority_msg, TypeOK
    <3>2. 0 \in flg => 0 \in flg'
        BY <2>1
    <3> QED
        BY <2>1, <2>2, <3>1, <3>2 DEF TypeOK, IPC_MTOC_LOWPRIORITY_MSG
  <2>3. CASE cmd[c].kind = "low"
    <3>1. /\ pend' = pend \cup {Message(c)}
          /\ Reg(cmd[c]) = low_priority_msg_to_reg(cmd[c].msg)
          /\ Reg(cmd[c]) \subseteq LowBits /\ 0 \in Reg(cmd[c])
        BY <1>9, <2>3, CmdReg, RegBits
        DEF send_ipc_lowpriority_msg, TypeOK, CmdType
    <3>2. 0 \in flg' /\ pend' # {}
        BY <2>1, <3>1
    <3>3. pend = {} => flg' \cap LowBits = low_priority_msg_to_reg(cmd[c].msg)
        BY <2>1, <3>1
    <3>4. /\ Message(c).ctx = c /\ Message(c).msg = cmd[c].msg
          /\ Message(c).id = arg[c]
          /\ Message(c).want = IF cmd[c].toZero THEN 0 ELSE want[c]
        BY DEF Message
    <3>5. CASE c = "isr"
      <4>1. pend = {} /\ pend' = {Message(c)}
          BY <2>1, <2>3, <3>1, <3>5
      <4> QED
          BY <2>1, <2>3, <3>2, <3>3, <3>4, <3>5, <4>1
          DEF TypeOK, IPC_MTOC_LOWPRIORITY_MSG
    <3>6. CASE c = "main"
      <4>1. \A q \in pend : q.ctx = "isr"
          BY <2>1, <2>3, <3>6
      <4>2. (\A q \in pend' : q.ctx # "isr") => pend = {}
          BY <3>1, <4>1
      <4> QED
          BY <2>1, <2>3, <3>1, <3>2, <3>3, <3>4, <3>6, <4>2
          DEF TypeOK, IPC_MTOC_LOWPRIORITY_MSG
    <3> QED
        BY <3>5, <3>6
  <2> QED
      BY <2>2, <2>3 DEF TypeOK, CmdType
<1>10. CASE PollFlag(c)
  <2>1. \/ pc' = [pc EXCEPT ![c] = "limit"]
        \/ pc' = [pc EXCEPT ![c] = "judge"] /\ flg \cap Reg(cmd[c]) = {}
      BY <1>10 DEF PollFlag
  <2>2. flg \cap Reg(cmd[c]) = {} /\ cmd[c].kind = "low" => pend = {}
      BY CmdReg, RegBits DEF TypeOK, CmdType, IPC_MTOC_LOWPRIORITY_MSG
  <2> QED
      BY <1>10, <2>1, <2>2 DEF PollFlag, TypeOK
<1>11. CASE PollLimit(c)
    BY <1>0, <1>11 DEF PollLimit, TypeOK
<1>12. CASE ReadCounter(c)
    BY <1>0, <1>12 DEF ReadCounter, TypeOK
<1>13. CASE IncrementCounter(c)
    BY <1>0, <1>13 DEF IncrementCounter, TypeOK
<1>14. CASE Judge(c)
    BY <1>0, <1>14 DEF Judge, TypeOK, Ok, DSP_Timeout
<1>15. CASE Return(c)
  <2>1. CASE NextTurn(c)
      BY <1>15, <2>1 DEF Return, NextTurn, Begin, TypeOK
  <2>2. CASE Finish(c)
      BY <1>15, <2>2 DEF Return, Finish, TypeOK
  <2> QED
      BY <1>15, <2>1, <2>2 DEF Return
<1>16. CASE SweepLoad(c)
    BY <1>16 DEF SweepLoad, TypeOK
<1>17. CASE SweepStore(c)
  <2>1. c = "main" /\ pc["isr"] = "idle"
      BY <1>17 DEF SweepStore
  <2>2. \/ pc' = [pc EXCEPT ![c] = "sweep"]
        \/ pc' = [pc EXCEPT ![c] = "enter"]
        \/ pc' = [pc EXCEPT ![c] = "ret"]
      BY <1>17 DEF SweepStore, AfterSweep
  <2>3. /\ UNCHANGED <<cmd, mode, arg, tmp, polls, ack, ulTimeout,
                       g_current_ps_id, flg, msg_id, pend>>
        /\ want'["isr"] = want["isr"]
      BY <1>17, <2>1 DEF SweepStore, TypeOK
  <2> QED
      BY <2>1, <2>2, <2>3 DEF TypeOK
<1> QED
    BY <1>1, <1>2, <1>3, <1>4, <1>5, <1>6, <1>7, <1>8, <1>9, <1>10, <1>11,
       <1>12, <1>13, <1>14, <1>15, <1>16, <1>17 DEF Step

\* The other interrupts and the C28.
LEMMA EnvSafe ==
    ASSUME TypeOK, Safe, Timer \/ Can \/ C28 PROVE Safe'
<1> USE DEF Safe, MailboxInv, IsrMessageIntact, CodeIntact, CounterInv,
            OkMeansTaken, TimeoutMeansPolled, Polling, Sending, Ctx, dsp, arm, locals,
            IPC_MTOC_LOWPRIORITY_MSG
<1>1. CASE Timer
    BY <1>1 DEF Timer, isr_global_timer
<1>2. CASE Can
  <2>1. PICK k \in Kinds, p \in PS, i \in Itlks : set_interlock(k, p, i)
      BY <1>2 DEF Can
  <2>2. ItlkFlag(k) \notin LowBits
      BY Lows DEF ItlkFlag, HARD_INTERLOCK, SOFT_INTERLOCK
  <2>3. CASE flg = {}
    <3>1. flg' \cap LowBits = {} /\ pend = {}
        BY <2>1, <2>2, <2>3 DEF set_interlock
    <3> QED
        BY <2>1, <3>1 DEF set_interlock
  <2>4. CASE flg # {}
      BY <2>1, <2>4 DEF set_interlock
  <2> QED
      BY <2>3, <2>4
<1>3. CASE C28Take
    BY <1>3 DEF C28Take
<1>4. CASE C28Execute
    BY <1>4 DEF C28Execute
<1>5. CASE C28TakeSync
  <2>1. flg' \cap LowBits = flg \cap LowBits /\ (0 \in flg => 0 \in flg')
      BY <1>5, Lows DEF C28TakeSync, SYNC_PULSE
  <2> QED
      BY <1>5, <2>1 DEF C28TakeSync
<1>6. ASSUME NEW k \in Kinds, C28TakeItlk(k) PROVE Safe'
  <2>1. ItlkFlag(k) \notin LowBits /\ ItlkFlag(k) # 0
      BY Lows DEF ItlkFlag, HARD_INTERLOCK, SOFT_INTERLOCK
  <2>2. flg' \cap LowBits = flg \cap LowBits /\ (0 \in flg => 0 \in flg')
      BY <1>6, <2>1 DEF C28TakeItlk
  <2> QED
      BY <1>6, <2>2 DEF C28TakeItlk
<1> QED
    BY <1>1, <1>2, <1>3, <1>4, <1>5, <1>6 DEF C28

\* The mailbox invariant holds in every state of every behaviour.
THEOREM MailboxSafe == Spec => []Safe
<1>1. TypeOK /\ Safe /\ [Next]_vars => Safe'
  <2> SUFFICES ASSUME TypeOK, Safe, [Next]_vars PROVE Safe'
      OBVIOUS
  <2>1. CASE UNCHANGED vars
      BY <2>1 DEF vars, Safe, MailboxInv, IsrMessageIntact, CodeIntact,
                  CounterInv, OkMeansTaken, TimeoutMeansPolled, Polling, Sending
  <2>2. CASE Next
      BY <2>2, StartSafe, StepSafe, EnvSafe DEF Next
  <2> QED
      BY <2>1, <2>2
<1> QED
    BY <1>1, InitSafe, TypeCorrect, PTL DEF Spec

\* A remote command's message stays as it was sent while its sender polls.
THEOREM IsrMessageStays == Spec => []IsrMessageIntact
<1>1. Safe => IsrMessageIntact
    BY DEF Safe
<1> QED
    BY <1>1, MailboxSafe, PTL

\* The mailbox shows no code that nobody sent, unless the interrupt gave up on a
\* message that is still pending.
THEOREM CodeStays == Spec => []CodeIntact
<1>1. Safe => CodeIntact
    BY DEF Safe
<1> QED
    BY <1>1, MailboxSafe, PTL

\* Ok to a remote command that clears ulTimeout means that the C28 took it.
THEOREM OkIsTrue == Spec => []OkMeansTaken
<1>1. Safe => OkMeansTaken
    BY DEF Safe
<1> QED
    BY <1>1, MailboxSafe, PTL

\* DSP_Timeout to a remote command that clears ulTimeout means a full wait.
THEOREM TimeoutIsTrue == Spec => []TimeoutMeansPolled
<1>1. Safe => TimeoutMeansPolled
    BY DEF Safe
<1> QED
    BY <1>1, MailboxSafe, PTL


----------------------------------------------------------------------------
(* A pending message when the main loop runs no command.                   *)

\* The fields that some functions write before the busy test.  No message has
\* its payload there.
EarlyFields == {"scope_status", "wfmref", "sync_mode", "coeffs"}

\* What keeps a function away from a message that is not its own: its payload
\* is not in an early field, a pulse has none, the potentiometer is only read by
\* functions that count their polls, and whoever sends for all supplies has stored a
\* payload for all of them.
Discreet(cm) == /\ cm.field \notin EarlyFields
                /\ cm.kind = "sync" => cm.field = "none" /\ cm.after = "none"
                /\ cm.after # "none" => cm.reset # "never"
                /\ cm.msg = Set_SlowRef_All_PS => cm.all

\* The 31 functions of bsmp_lib.c are so, by evaluation of their records.
LEMMA FirmwareDiscreet == \A cm \in AllCommands : Discreet(cm)
<1> USE DEF Discreet, EarlyFields, Plain, Set_SlowRef_All_PS, Turn_On, Turn_Off, Open_Loop,
            Close_Loop, Operating_Mode, Reset_Interlocks, Unlock_UDC, Lock_UDC,
            Cfg_Source_Scope, Cfg_Freq_Scope, Cfg_Duration_Scope, Enable_Scope,
            Disable_Scope, Set_SlowRef, Cfg_WfmRef, Update_WfmRef, Reset_WfmRef, Cfg_SigGen,
            Set_SigGen, Enable_SigGen, Disable_SigGen, Reset_Counters, Set_DSP_Coeffs,
            Set_Command_Interface
<1>1. /\ Discreet(bsmp_turn_on) /\ Discreet(bsmp_turn_off) /\ Discreet(bsmp_open_loop)
      /\ Discreet(bsmp_closed_loop) /\ Discreet(bsmp_select_op_mode)
      /\ Discreet(bsmp_reset_interlocks) /\ Discreet(bsmp_set_command_interface)
    BY DEF bsmp_turn_on, bsmp_turn_off, bsmp_open_loop, bsmp_closed_loop,
           bsmp_select_op_mode, bsmp_reset_interlocks, bsmp_set_command_interface
<1>2. /\ Discreet(bsmp_unlock_udc) /\ Discreet(bsmp_lock_udc)
      /\ Discreet(bsmp_cfg_source_scope) /\ Discreet(bsmp_cfg_freq_scope)
      /\ Discreet(bsmp_cfg_duration_scope) /\ Discreet(bsmp_enable_scope)
      /\ Discreet(bsmp_disable_scope) /\ Discreet(bsmp_sync_pulse)
    BY DEF bsmp_unlock_udc, bsmp_lock_udc, WithPassword, bsmp_cfg_source_scope,
           bsmp_cfg_freq_scope, bsmp_cfg_duration_scope, bsmp_enable_scope,
           bsmp_disable_scope, bsmp_sync_pulse
<1>3. /\ Discreet(bsmp_set_slowref) /\ Discreet(bsmp_set_slowref_readback_mon)
      /\ Discreet(bsmp_set_slowref_readback_ref) /\ Discreet(bsmp_set_slowref_fbp)
      /\ Discreet(bsmp_set_slowref_fbp_readback_mon)
      /\ Discreet(bsmp_set_slowref_fbp_readback_ref)
    BY DEF bsmp_set_slowref, bsmp_set_slowref_readback_mon, bsmp_set_slowref_readback_ref,
           bsmp_set_slowref_fbp, bsmp_set_slowref_fbp_readback_mon,
           bsmp_set_slowref_fbp_readback_ref
<1>4. /\ Discreet(bsmp_reset_counters) /\ Discreet(bsmp_cfg_wfmref)
      /\ Discreet(bsmp_select_wfmref) /\ Discreet(bsmp_reset_wfmref)
    BY DEF bsmp_reset_counters, bsmp_cfg_wfmref, bsmp_select_wfmref, bsmp_reset_wfmref
<1>5. /\ Discreet(bsmp_cfg_siggen) /\ Discreet(bsmp_set_siggen)
      /\ Discreet(bsmp_enable_siggen) /\ Discreet(bsmp_disable_siggen)
      /\ Discreet(bsmp_set_dsp_coeffs) /\ Discreet(bsmp_load_dsp_coeffs_eeprom)
    BY DEF bsmp_cfg_siggen, bsmp_set_siggen, bsmp_enable_siggen, bsmp_disable_siggen,
           bsmp_set_dsp_coeffs, bsmp_load_dsp_coeffs_eeprom
<1> HIDE DEF Discreet
<1> QED
    BY <1>1, <1>2, <1>3, <1>4, <1>5 DEF AllCommands

\* The hosts call functions of the firmware.
Firmware == RemoteCmds \cup LocalCmds \subseteq AllCommands

\* Whoever runs, runs a function of the firmware; no message has an early field;
\* and a pulse past its test of the flag register has found the mailbox empty.
FunctionsInv ==
    /\ \A c \in Ctx : Discreet(cmd[c])
    /\ \A q \in pend : q.field \notin EarlyFields
    /\ cmd["isr"].kind = "sync" /\ pc["isr"] \in {"id", "set"} => pend = {}

\* The functions the specification itself names are functions of the firmware.
LEMMA NamedDiscreet ==
    /\ Discreet(NoCall) /\ Discreet(bsmp_set_command_interface) /\ Discreet(bsmp_lock_udc)
BY FirmwareDiscreet DEF NoCall, AllCommands

\* Initially nobody runs a function.
LEMMA InitFunctions == Init => FunctionsInv
BY NamedDiscreet DEF Init, FunctionsInv, Ctx

\* Functions come from the hosts or from the tasks; a pulse is sent into an empty
\* register only.
LEMMA StepFunctions ==
    ASSUME Firmware, TypeOK, Safe, FunctionsInv, [Next]_vars
    PROVE  FunctionsInv'
<1> USE DEF FunctionsInv, Ctx
<1>0. /\ cmd \in [Ctx -> CmdType] /\ pc \in [Ctx -> Locations]
      /\ \A cm \in RemoteCmds \cup LocalCmds : Discreet(cm)
    BY FirmwareDiscreet DEF TypeOK, Firmware
<1>1. CASE Packet
    BY <1>0, <1>1, Zenon DEF Packet, rs485_process_data, rs485_broadcast, ihm_process_data, Begin
<1>2. CASE MainTask
    BY <1>0, <1>2, NamedDiscreet
    DEF MainTask, TaskClearItlkAlarm, TaskResetCommandInterface, TaskLockUdc, TaskDue, Begin, locals
<1>3. ASSUME NEW c \in Ctx, Step(c) PROVE FunctionsInv'
  <2> USE DEF dsp, arm, Go, Runs, Answer
  <2>1. CASE Return(c)
    <3>1. CASE NextTurn(c)
        BY <1>0, <2>1, <3>1 DEF Return, NextTurn, Begin
    <3>2. CASE Finish(c)
        BY <1>0, <2>1, <3>2, NamedDiscreet DEF Return, Finish
    <3> QED
        BY <2>1, <3>1, <3>2 DEF Return
  <2>2. CASE send_ipc_lowpriority_msg(c)
    <3>1. /\ pc[c] = "set" /\ pc' = [pc EXCEPT ![c] = "wait"] /\ cmd' = cmd
          /\ c = "main" => pc["isr"] = "idle"
          /\ pend' = pend \/ pend' = pend \cup {Message(c)}
        BY <2>2 DEF send_ipc_lowpriority_msg
    <3>2. Message(c).field \notin EarlyFields
        BY DEF Message, Discreet
    <3> QED
        BY <1>0, <3>1, <3>2
  <2>3. CASE send_ipc_msg(c)
    <3>1. /\ pc' = [pc EXCEPT ![c] = IF flg = {} THEN "id" ELSE "wait"]
          /\ cmd' = cmd /\ pend' = pend /\ (c = "main" => pc["isr"] = "idle")
        BY <2>3 DEF send_ipc_msg
    <3>2. flg = {} => pend = {}
        BY DEF Safe, MailboxInv
    <3> QED
        BY <1>0, <3>1, <3>2
  <2>4. CASE LoadArg(c)
      BY <1>0, <2>4 DEF LoadArg
  <2>5. CASE WriteMsgId(c)
      BY <1>0, <2>5 DEF WriteMsgId
  <2>6. CASE \/ BSMPprocess(c) \/ Enter(c) \/ CheckBusy(c) \/ LoadStatus(c) \/ StorePayload(c)
             \/ PollFlag(c) \/ PollLimit(c) \/ ReadCounter(c) \/ IncrementCounter(c) \/ Judge(c)
             \/ SweepLoad(c) \/ SweepStore(c)
    <3>1. /\ cmd' = cmd /\ pend' = pend
          /\ pc' \in [Ctx -> Locations] /\ \A d \in Ctx : d # c => pc'[d] = pc[d]
          /\ pc'[c] \notin {"id", "set"}
      <4>1. /\ cmd' = cmd /\ pend' = pend
            /\ \E loc \in Locations \ {"id", "set"} : pc' = [pc EXCEPT ![c] = loc]
          BY <2>6 DEF BSMPprocess, Enter, CheckBusy, LoadStatus, StorePayload, PollFlag,
             PollLimit, ReadCounter, IncrementCounter, Judge, SweepLoad, SweepStore, AfterSweep,
             Locations
      <4> QED
          BY <1>0, <4>1
    <3> QED
        BY <1>0, <3>1
  <2> QED
      BY <1>3, <2>1, <2>2, <2>3, <2>4, <2>5, <2>6 DEF Step
<1>4. CASE Timer
    BY <1>4 DEF Timer, isr_global_timer, locals
<1>5. CASE Can
    BY <1>5 DEF Can, set_interlock, locals
<1>6. CASE C28
    BY <1>6 DEF C28, C28Take, C28Execute, C28TakeSync, C28TakeItlk, locals, dsp
<1>7. CASE UNCHANGED vars
    BY <1>7 DEF vars
<1> QED
    BY <1>1, <1>2, <1>3, <1>4, <1>5, <1>6, <1>7 DEF Next

\* What PendingUntouched says of one message and one step.
Untouched(q) ==
    /\ flg' \cap LowBits = flg \cap LowBits
    /\ msg_id' = msg_id
    /\ q.field # "none" =>
          \A p \in PS : p = q.id \/ q.msg = Set_SlowRef_All_PS =>
              mtoc'[p][q.field] = mtoc[p][q.field]

\* A write before the busy test stays in the early fields.
LEMMA PreWriteEarly ==
    ASSUME TypeOK, NEW cm \in CmdType, NEW v, NEW p \in PS,
           NEW r \in PS, NEW f \in Fields \ EarlyFields
    PROVE  PreWrite(cm, v, p)[r][f] = mtoc[r][f]
<1>1. mtoc \in [PS -> [Fields -> Vals]] /\ 0 \in PS
    BY Zeros DEF TypeOK, Memory
<1>2. f \notin {"scope_status", "wfmref", "sync_mode", "coeffs"}
    BY DEF EarlyFields
<1>3. CASE cm.pre = "scope"
    BY <1>1, <1>2, <1>3 DEF PreWrite
<1>4. CASE cm.pre = "wfmref"
    BY <1>1, <1>2, <1>4 DEF PreWrite
<1>5. CASE cm.pre \in {"sync", "wfmref_sync"}
    BY <1>1, <1>2, <1>5 DEF PreWrite
<1>6. CASE cm.pre = "coeffs"
    BY <1>1, <1>2, <1>6 DEF PreWrite
<1>7. CASE cm.pre \in {"none", "itlk"}
    BY <1>7 DEF PreWrite
<1> QED
    BY <1>3, <1>4, <1>5, <1>6, <1>7 DEF CmdType

\* One step, the main loop being idle.
LEMMA StepLeavesPending ==
    ASSUME TypeOK, Safe, FunctionsInv, [Next]_vars, pc["main"] = "idle",
           NEW q \in pend \cap pend'
    PROVE  Untouched(q)
<1> USE DEF dsp, arm, Go, Runs, Answer
<1>0. /\ pc \in [Ctx -> Locations] /\ "isr" \in Ctx /\ cmd["isr"] \in CmdType
      /\ q.field # "none" => q.field \in Fields \ EarlyFields
      /\ pend # {} /\ IPC_MTOC_LOWPRIORITY_MSG \in flg
    BY DEF TypeOK, MessageType, FunctionsInv, Ctx, Safe, MailboxInv
<1>1. ASSUME flg' \cap LowBits = flg \cap LowBits, UNCHANGED <<msg_id, mtoc>> PROVE Untouched(q)
    BY <1>1 DEF Untouched
<1>2. CASE Packet
    BY <1>1, <1>2 DEF Packet, rs485_process_data, rs485_broadcast, ihm_process_data
<1>3. CASE MainTask
    BY <1>1, <1>3 DEF MainTask, TaskClearItlkAlarm, TaskResetCommandInterface, TaskLockUdc
<1>4. CASE Timer
    BY <1>1, <1>4 DEF Timer, isr_global_timer
<1>5. CASE Can
    BY <1>0, <1>1, <1>5 DEF Can, set_interlock
<1>6. CASE C28
  <2>1. CASE C28Take
      BY <2>1 DEF C28Take
  <2>2. CASE C28Execute
      BY <1>1, <2>2 DEF C28Execute
  <2>3. CASE C28TakeSync
    <3>1. flg' \cap LowBits = flg \cap LowBits
        BY <2>3, Lows DEF C28TakeSync, SYNC_PULSE
    <3> QED
        BY <1>1, <2>3, <3>1 DEF C28TakeSync
  <2>4. ASSUME NEW k \in Kinds, C28TakeItlk(k) PROVE Untouched(q)
    <3>1. ItlkFlag(k) \notin LowBits
        BY Lows DEF ItlkFlag, HARD_INTERLOCK, SOFT_INTERLOCK
    <3>2. flg' \cap LowBits = flg \cap LowBits
        BY <2>4, <3>1 DEF C28TakeItlk
    <3> QED
        BY <1>1, <2>4, <3>2 DEF C28TakeItlk
  <2> QED
      BY <1>6, <2>1, <2>2, <2>3, <2>4 DEF C28
<1>7. ASSUME NEW c \in Ctx, Step(c) PROVE Untouched(q)
  <2>0. pc[c] # "idle" /\ c = "isr"
    <3>1. pc[c] # "idle"
        BY <1>7 DEF Step, BSMPprocess, Enter, CheckBusy, LoadStatus, StorePayload, LoadArg,
           send_ipc_msg, WriteMsgId, send_ipc_lowpriority_msg, PollFlag, PollLimit, ReadCounter,
           IncrementCounter, Judge, Return, SweepLoad, SweepStore
    <3> QED
        BY <3>1 DEF Ctx
  <2>1. CASE \/ BSMPprocess(c) \/ CheckBusy(c) \/ LoadStatus(c) \/ LoadArg(c) \/ send_ipc_msg(c)
             \/ PollFlag(c) \/ PollLimit(c) \/ ReadCounter(c) \/ IncrementCounter(c) \/ Return(c)
             \/ SweepLoad(c)
      BY <1>1, <2>1 DEF BSMPprocess, CheckBusy, LoadStatus, LoadArg, send_ipc_msg, PollFlag,
         PollLimit, ReadCounter, IncrementCounter, Return, SweepLoad
  <2>2. CASE Enter(c)
    <3>1. /\ mtoc' = mtoc \/ mtoc' = PreWrite(cmd["isr"], val["isr"], g_current_ps_id)
          /\ UNCHANGED <<flg, msg_id>>
        BY <2>0, <2>2 DEF Enter
    <3>2. g_current_ps_id \in PS
        BY DEF TypeOK
    <3>3. ASSUME q.field # "none", NEW p \in PS PROVE mtoc'[p][q.field] = mtoc[p][q.field]
        BY <1>0, <3>1, <3>2, <3>3, PreWriteEarly
    <3> QED
        BY <3>1, <3>3 DEF Untouched
  <2>3. CASE StorePayload(c)
    <3>1. cmd["isr"].kind # "low"
        BY <1>0, <2>0, <2>3 DEF StorePayload, Safe, MailboxInv, Sending
    <3>2. cmd["isr"].field = "none"
        BY <1>0, <3>1 DEF FunctionsInv, Discreet, CmdType
    <3>3. mtoc' = PayloadWrite(cmd["isr"], val["isr"], dst["isr"], word["isr"])
        BY <2>0, <2>3 DEF StorePayload
    <3>4. "none" \notin StatusFields /\ "none" \notin Fields
        BY DEF StatusFields, Fields
    <3>5. ASSUME q.field # "none", NEW p \in PS PROVE mtoc'[p][q.field] = mtoc[p][q.field]
        BY <1>0, <3>2, <3>3, <3>4, <3>5 DEF PayloadWrite
    <3> QED
        BY <2>3, <3>5 DEF StorePayload, Untouched
  <2>4. CASE WriteMsgId(c)
      BY <1>0, <2>0, <2>4
      DEF WriteMsgId, Safe, MailboxInv, Sending, FunctionsInv, CmdType
  <2>5. CASE send_ipc_lowpriority_msg(c)
      BY <1>0, <2>0, <2>5
      DEF send_ipc_lowpriority_msg, Safe, MailboxInv, Sending, FunctionsInv, CmdType
  <2>6. CASE Judge(c)
    <3>1. cmd["isr"].after # "none" => ulTimeout = TIMEOUT_DSP_IPC_ACK
        BY <1>0, <2>0, <2>6 DEF Judge, FunctionsInv, Discreet, Safe, CounterInv, CmdType
    <3>2. UNCHANGED <<flg, msg_id, mtoc>>
        BY <2>0, <2>6, <3>1 DEF Judge
    <3> QED
        BY <1>1, <3>2
  <2>7. CASE SweepStore(c)
      BY <2>0, <2>7 DEF SweepStore, Safe, MailboxInv
  <2> QED
      BY <1>7, <2>1, <2>2, <2>3, <2>4, <2>5, <2>6, <2>7 DEF Step
<1>8. CASE UNCHANGED vars
    BY <1>1, <1>8 DEF vars
<1> QED
    BY <1>2, <1>3, <1>4, <1>5, <1>6, <1>7, <1>8 DEF Next

\* As long as the main loop runs no command, nothing changes a message in the
\* mailbox before the C28 takes it, neither its code nor its supply nor the payload
\* its function stored after the busy test, whatever functions of the firmware the
\* host calls after a DSP_Timeout and whatever interlocks are reported
\* (ipc_mtoc_busy at the head of every function, send_ipc_msg, set_hard_interlock).
THEOREM PendingStays ==
    ASSUME Firmware
    PROVE  Spec /\ [](pc["main"] = "idle") => PendingUntouched
<1>1. TypeOK /\ Safe /\ FunctionsInv /\ [Next]_vars => FunctionsInv'
    BY StepFunctions
<1>2. TypeOK /\ Safe /\ FunctionsInv /\ [Next]_vars /\ pc["main"] = "idle"
        => [\A q \in pend \cap pend' :
              /\ flg' \cap LowBits = flg \cap LowBits
              /\ msg_id' = msg_id
              /\ q.field # "none" =>
                    \A p \in PS : p = q.id \/ q.msg = Set_SlowRef_All_PS =>
                        mtoc'[p][q.field] = mtoc[p][q.field]]_vars
    BY StepLeavesPending DEF Untouched
<1>3. Spec => []FunctionsInv
    BY <1>1, InitFunctions, TypeCorrect, MailboxSafe, PTL DEF Spec
<1> QED
    BY <1>2, <1>3, TypeCorrect, MailboxSafe, PTL DEF Spec, PendingUntouched
----------------------------------------------------------------------------
(* The abstract mailbox.                                                   *)

\* The supply a call of the interrupt sends its message to.
Dest == IF cmd["isr"].toZero THEN 0 ELSE want["isr"]

\* The packet the interrupt executes is one the host sent.
HostCall == pc["isr"] # "idle" => cmd["isr"] \in RemoteCmds /\ val["isr"] \in Inputs

\* ulTimeout counts up to the limit and not beyond, also in the functions that do
\* not clear it, so that a poll loop that ends below the limit has seen the flag
\* down.
LimitKept ==
    /\ ulTimeout <= TIMEOUT_DSP_IPC_ACK
    /\ pc["isr"] = "read" => ulTimeout < TIMEOUT_DSP_IPC_ACK
    /\ pc["isr"] = "inc" => tmp["isr"] < TIMEOUT_DSP_IPC_ACK
    /\ pc["isr"] = "judge" /\ cmd["isr"].kind = "low" =>
          ulTimeout = TIMEOUT_DSP_IPC_ACK \/ pend = {}

\* From the store to the send the payload is in place for everyone it is for.
PayloadInPlace ==
    /\ pc["isr"] = "store" => dst["isr"] = Dest
    /\ pc["isr"] \in {"arg", "id", "set"} /\ cmd["isr"].kind = "low" =>
          \A q \in Receivers(cmd["isr"].field, cmd["isr"].msg, Dest) :
              mtoc[q][cmd["isr"].field] = Payload(cmd["isr"], val["isr"])

\* What the mailbox needs of a main loop that runs no command.
Isolated == /\ HostCall /\ LimitKept /\ PayloadInPlace
            /\ \A q \in pend : pend = {q}

\* Initially there is no call and no message.
LEMMA InitIsolated == Init => Isolated
BY TimeoutAssumption
DEF Init, Isolated, HostCall, LimitKept, PayloadInPlace, Ctx

\* The locals of the interrupt's call that the mailbox and the host see.
CallKept == /\ pc'["isr"] = pc["isr"] /\ cmd'["isr"] = cmd["isr"] /\ val'["isr"] = val["isr"]
            /\ want'["isr"] = want["isr"] /\ ack'["isr"] = ack["isr"]

\* A step that is none of the interrupt's leaves its call, ulTimeout and the shared
\* memory alone, and only the C28 takes a message away.
Apart == /\ CallKept /\ tmp'["isr"] = tmp["isr"] /\ dst'["isr"] = dst["isr"]
         /\ ulTimeout' = ulTimeout /\ mtoc' = mtoc
         /\ pend' = pend \/ C28Take

OtherStep == \/ \E p \in PS, cm \in LocalCmds, v \in Inputs : ihm_process_data(p, cm, v)
             \/ MainTask \/ Timer \/ Can \/ C28 \/ UNCHANGED vars

\* Display packets, tasks, the other interrupts and the C28, one by one.
LEMMA OthersApart == TypeOK /\ pc["main"] = "idle" /\ OtherStep => Apart
<1> SUFFICES ASSUME TypeOK, pc["main"] = "idle", OtherStep PROVE Apart
    OBVIOUS
<1> USE DEF Apart, CallKept
<1>0. /\ pc \in [Ctx -> Locations] /\ cmd \in [Ctx -> CmdType] /\ val \in [Ctx -> Vals]
      /\ want \in [Ctx -> PS] /\ ack \in [Ctx -> AckCodes] /\ tmp \in [Ctx -> Nat]
      /\ dst \in [Ctx -> PS] /\ "isr" \in Ctx /\ "main" \in Ctx /\ "isr" # "main"
    BY DEF TypeOK, Ctx
<1>1. ASSUME NEW p \in PS, NEW cm \in LocalCmds, NEW v \in Inputs, ihm_process_data(p, cm, v)
      PROVE  Apart
    BY <1>0, <1>1 DEF ihm_process_data, Begin
<1>2. CASE MainTask
    BY <1>0, <1>2
    DEF MainTask, TaskClearItlkAlarm, TaskResetCommandInterface, TaskLockUdc, TaskDue, Begin, locals
<1>3. CASE Timer \/ Can \/ UNCHANGED vars
    BY <1>3 DEF Timer, isr_global_timer, Can, set_interlock, locals, arm, vars
<1>4. CASE C28
    BY <1>4 DEF C28, C28Take, C28Execute, C28TakeSync, C28TakeItlk, locals, arm, dsp
<1> HIDE DEF Apart
<1> QED
    BY <1>1, <1>2, <1>3, <1>4 DEF OtherStep

\* A step of a context is one of the interrupt's, unless the main loop runs.
LEMMA OnlyIsr ==
    ASSUME pc["main"] = "idle", NEW c \in Ctx, Step(c) PROVE c = "isr" /\ pc["isr"] # "idle"
<1>1. pc[c] # "idle"
    BY DEF Step, BSMPprocess, Enter, CheckBusy, LoadStatus, StorePayload, LoadArg, Go,
       send_ipc_msg, WriteMsgId, send_ipc_lowpriority_msg, PollFlag, PollLimit, ReadCounter,
       IncrementCounter, Judge, Return, SweepLoad, SweepStore
<1> QED
    BY <1>1 DEF Ctx

\* The store of a payload puts it where its message will say it is.
LEMMA StoredInPlace ==
    ASSUME TypeOK, FunctionsInv, PayloadInPlace, StorePayload("isr")
    PROVE  \A q \in Receivers(cmd["isr"].field, cmd["isr"].msg, Dest) :
               mtoc'[q][cmd["isr"].field] = Payload(cmd["isr"], val["isr"])
<1> DEFINE cm == cmd["isr"]
<1>1. /\ "isr" \in Ctx /\ cm \in CmdType /\ want["isr"] \in PS /\ 0 \in PS
    BY Zeros DEF TypeOK, Ctx
<1>2. Discreet(cm) /\ Dest \in PS
    BY <1>1 DEF FunctionsInv, Dest
<1>3. dst["isr"] = Dest /\ mtoc' = PayloadWrite(cm, val["isr"], dst["isr"], word["isr"])
    BY DEF StorePayload, PayloadInPlace, Go
<1>4. ASSUME NEW q \in Receivers(cm.field, cm.msg, Dest)
      PROVE  mtoc'[q][cm.field] = Payload(cm, val["isr"])
  <2>1. cm.field # "none" /\ q \in PS /\ (q = Dest \/ cm.msg = Set_SlowRef_All_PS)
      BY <1>2, <1>4 DEF Receivers
  <2>2. cm.field \in Fields /\ (q = Dest \/ cm.all)
      BY <1>1, <1>2, <2>1 DEF CmdType, Discreet
  <2> QED
      BY <1>3, <2>1, <2>2 DEF PayloadWrite
<1> QED
    BY <1>4

\* Calls that come and go, with the main loop at rest, leave the mailbox isolated.
LEMMA PacketIsolated ==
    ASSUME TypeOK, Safe, Isolated,
           \/ \E p \in PS, cm \in RemoteCmds, v \in Inputs : rs485_process_data(p, cm, v)
           \/ \E cm \in RemoteCmds, v \in Inputs : rs485_broadcast(cm, v)
    PROVE  Isolated'
<1>1. /\ cmd \in [Ctx -> CmdType] /\ val \in [Ctx -> Vals] /\ pc \in [Ctx -> Locations]
      /\ "isr" \in Ctx
    BY DEF TypeOK, Ctx
<1>2. /\ cmd'["isr"] \in RemoteCmds /\ val'["isr"] \in Inputs /\ pc'["isr"] = "iface"
      /\ ulTimeout' = ulTimeout /\ pend' = pend
    BY <1>1 DEF rs485_process_data, rs485_broadcast, Begin
<1> QED
    BY <1>2 DEF Isolated, HostCall, LimitKept, PayloadInPlace

\* Steps of others keep the invariant.
LEMMA OtherIsolated ==
    ASSUME TypeOK, Isolated, Apart
    PROVE  Isolated'
<1>1. /\ pc'["isr"] = pc["isr"] /\ cmd'["isr"] = cmd["isr"] /\ val'["isr"] = val["isr"]
      /\ want'["isr"] = want["isr"] /\ tmp'["isr"] = tmp["isr"] /\ dst'["isr"] = dst["isr"]
      /\ ulTimeout' = ulTimeout /\ mtoc' = mtoc
    BY DEF Apart, CallKept
<1>2. pend' = pend \/ pend' = {}
    BY DEF Apart, C28Take
<1>3. Dest' = Dest
    BY <1>1 DEF Dest
<1>4. HostCall'
    BY <1>1 DEF Isolated, HostCall
<1>5. LimitKept'
    BY <1>1, <1>2 DEF Isolated, LimitKept
<1>6. PayloadInPlace'
    BY <1>1, <1>3 DEF Isolated, PayloadInPlace
<1> QED
    BY <1>2, <1>4, <1>5, <1>6 DEF Isolated

\* So does every step of the interrupt.
LEMMA StepIsolated ==
    ASSUME TypeOK, Safe, FunctionsInv, Isolated, Step("isr")
    PROVE  Isolated'
<1> USE DEF Go, Runs, Answer
<1>0. /\ pc \in [Ctx -> Locations] /\ cmd \in [Ctx -> CmdType] /\ val \in [Ctx -> Vals]
      /\ want \in [Ctx -> PS] /\ tmp \in [Ctx -> Nat] /\ dst \in [Ctx -> PS] /\ "isr" \in Ctx
      /\ TIMEOUT_DSP_IPC_ACK \in Nat \ {0} /\ ulTimeout \in Nat
    BY TimeoutAssumption DEF TypeOK, Ctx
<1>1. ASSUME cmd' = cmd, val' = val, want' = want, pend' = pend, pc["isr"] # "idle"
      PROVE  HostCall' /\ Dest' = Dest /\ \A q \in pend' : pend' = {q}
    BY <1>1 DEF Isolated, HostCall, Dest
<1>2. ASSUME pc'["isr"] \notin {"store", "arg", "id", "set"} PROVE PayloadInPlace'
    BY <1>2 DEF PayloadInPlace
<1>3. ASSUME pc'["isr"] \notin {"read", "inc", "judge"}, ulTimeout' \in {0, ulTimeout} PROVE LimitKept'
    BY <1>0, <1>3 DEF Isolated, LimitKept
<1>4. CASE BSMPprocess("isr") \/ Enter("isr") \/ CheckBusy("isr")
  <2>1. /\ cmd' = cmd /\ val' = val /\ want' = want /\ pend' = pend /\ pc["isr"] # "idle"
        /\ pc'["isr"] \in {"enter", "check", "load", "ret"}
      BY <1>0, <1>4 DEF BSMPprocess, Enter, CheckBusy
  <2>2. ulTimeout' \in {0, ulTimeout}
      BY <1>4 DEF BSMPprocess, Enter, CheckBusy, arm, ClearTimeout
  <2> QED
      BY <1>1, <1>2, <1>3, <2>1, <2>2 DEF Isolated
<1>5. CASE LoadStatus("isr")
  <2>1. /\ cmd' = cmd /\ val' = val /\ want' = want /\ pend' = pend /\ pc["isr"] # "idle"
        /\ pc'["isr"] = "store" /\ ulTimeout' = ulTimeout
        /\ dst'["isr"] = IF cmd["isr"].toZero THEN 0 ELSE g_current_ps_id
      BY <1>0, <1>5 DEF LoadStatus, arm
  <2>2. g_current_ps_id = want["isr"]
      BY <2>1 DEF Safe, MailboxInv
  <2>3. PayloadInPlace'
      BY <1>1, <2>1, <2>2 DEF PayloadInPlace, Dest
  <2> QED
      BY <1>1, <1>3, <2>1, <2>3 DEF Isolated
<1>6. CASE StorePayload("isr")
  <2>1. /\ cmd' = cmd /\ val' = val /\ want' = want /\ pend' = pend /\ pc["isr"] # "idle"
        /\ pc'["isr"] = "arg" /\ ulTimeout' = ulTimeout
      BY <1>0, <1>6 DEF StorePayload, arm
  <2>2. \A q \in Receivers(cmd["isr"].field, cmd["isr"].msg, Dest) :
            mtoc'[q][cmd["isr"].field] = Payload(cmd["isr"], val["isr"])
      BY <1>6, StoredInPlace DEF Isolated
  <2>3. PayloadInPlace'
      BY <1>1, <2>1, <2>2 DEF PayloadInPlace
  <2> QED
      BY <1>1, <1>3, <2>1, <2>3 DEF Isolated
<1>7. CASE LoadArg("isr") \/ WriteMsgId("isr")
  <2>1. /\ cmd' = cmd /\ val' = val /\ want' = want /\ pend' = pend /\ mtoc' = mtoc
        /\ pc["isr"] \in {"arg", "id"} /\ pc'["isr"] \in {"probe", "id", "set"}
        /\ ulTimeout' = ulTimeout
      BY <1>0, <1>7 DEF LoadArg, WriteMsgId, arm
  <2>2. PayloadInPlace'
      BY <1>1, <2>1 DEF PayloadInPlace, Isolated
  <2> QED
      BY <1>1, <1>3, <2>1, <2>2 DEF Isolated
<1>8. CASE send_ipc_msg("isr")
  <2>1. /\ cmd' = cmd /\ val' = val /\ want' = want /\ pend' = pend /\ pc["isr"] = "probe"
        /\ pc'["isr"] \in {"id", "wait"} /\ ulTimeout' = ulTimeout
      BY <1>0, <1>8 DEF send_ipc_msg, arm
  <2>2. cmd["isr"].kind = "sync"
      BY <2>1 DEF Safe, MailboxInv, Ctx
  <2>3. PayloadInPlace'
      BY <2>1, <2>2 DEF PayloadInPlace
  <2> QED
      BY <1>1, <1>3, <2>1, <2>3 DEF Isolated
<1>9. CASE send_ipc_lowpriority_msg("isr")
  <2>1. /\ cmd' = cmd /\ val' = val /\ pc["isr"] = "set" /\ pc'["isr"] = "wait"
        /\ ulTimeout' = ulTimeout
        /\ pend' = IF cmd["isr"].kind = "low" THEN pend \cup {Message("isr")} ELSE pend
      BY <1>0, <1>9 DEF send_ipc_lowpriority_msg, arm
  <2>2. cmd["isr"].kind = "low" => pend = {}
      BY <2>1 DEF Safe, MailboxInv, Sending
  <2>3. \A q \in pend' : pend' = {q}
      BY <2>1, <2>2 DEF Isolated
  <2>4. HostCall'
      BY <2>1 DEF Isolated, HostCall
  <2> QED
      BY <1>2, <1>3, <2>1, <2>3, <2>4 DEF Isolated
<1>10. CASE PollFlag("isr")
  <2>1. /\ cmd' = cmd /\ val' = val /\ want' = want /\ pend' = pend /\ pc["isr"] = "wait"
        /\ pc'["isr"] = IF flg \cap Reg(cmd["isr"]) # {} THEN "limit" ELSE "judge"
        /\ ulTimeout' = ulTimeout
      BY <1>0, <1>10 DEF PollFlag, arm
  <2>2. flg \cap Reg(cmd["isr"]) = {} /\ cmd["isr"].kind = "low" => pend = {}
      BY <1>0, CmdReg, RegBits DEF CmdType, IPC_MTOC_LOWPRIORITY_MSG, Safe, MailboxInv
  <2>3. LimitKept'
      BY <2>1, <2>2 DEF Isolated, LimitKept
  <2> QED
      BY <1>1, <1>2, <2>1, <2>3 DEF Isolated
<1>11. CASE PollLimit("isr")
  <2>1. /\ cmd' = cmd /\ val' = val /\ want' = want /\ pend' = pend /\ pc["isr"] = "limit"
        /\ pc'["isr"] = IF ulTimeout < TIMEOUT_DSP_IPC_ACK THEN "read" ELSE "judge"
        /\ ulTimeout' = ulTimeout
      BY <1>0, <1>11 DEF PollLimit, arm
  <2>2. LimitKept'
      BY <1>0, <2>1 DEF Isolated, LimitKept
  <2> QED
      BY <1>1, <1>2, <2>1, <2>2 DEF Isolated
<1>12. CASE ReadCounter("isr")
  <2>1. /\ cmd' = cmd /\ val' = val /\ want' = want /\ pend' = pend /\ pc["isr"] = "read"
        /\ pc'["isr"] = "inc" /\ ulTimeout' = ulTimeout /\ tmp'["isr"] = ulTimeout
      BY <1>0, <1>12 DEF ReadCounter, arm
  <2>2. LimitKept'
      BY <2>1 DEF Isolated, LimitKept
  <2> QED
      BY <1>1, <1>2, <2>1, <2>2 DEF Isolated
<1>13. CASE IncrementCounter("isr")
  <2>1. /\ cmd' = cmd /\ val' = val /\ want' = want /\ pend' = pend /\ pc["isr"] = "inc"
        /\ pc'["isr"] = "wait" /\ ulTimeout' = tmp["isr"] + 1
      BY <1>0, <1>13 DEF IncrementCounter
  <2>2. tmp["isr"] \in Nat /\ tmp["isr"] < TIMEOUT_DSP_IPC_ACK
      BY <1>0, <2>1 DEF Isolated, LimitKept
  <2>3. LimitKept'
      BY <1>0, <2>1, <2>2 DEF LimitKept
  <2> QED
      BY <1>1, <1>2, <2>1, <2>3 DEF Isolated
<1>14. CASE Judge("isr")
  <2>1. /\ cmd' = cmd /\ val' = val /\ want' = want /\ pend' = pend /\ pc["isr"] = "judge"
        /\ pc'["isr"] = "ret" /\ ulTimeout' = ulTimeout
      BY <1>0, <1>14 DEF Judge
  <2> QED
      BY <1>1, <1>2, <1>3, <2>1 DEF Isolated
<1>15. CASE Return("isr")
  <2>1. /\ pend' = pend /\ ulTimeout' = ulTimeout /\ pc["isr"] = "ret"
        /\ mode["isr"] # "task"
      BY <1>15 DEF Return, Safe, MailboxInv
  <2>2. \/ cmd'["isr"] = cmd["isr"] /\ val'["isr"] = val["isr"] /\ pc'["isr"] = "iface"
        \/ pc'["isr"] = "idle"
      BY <1>0, <1>15, <2>1 DEF Return, NextTurn, Finish, Begin
  <2>3. HostCall'
      BY <2>1, <2>2 DEF Isolated, HostCall
  <2> QED
      BY <1>2, <1>3, <2>1, <2>2, <2>3 DEF Isolated
<1>16. ~SweepLoad("isr") /\ ~SweepStore("isr")
    BY DEF SweepLoad, SweepStore, Safe, MailboxInv
<1> QED
    BY <1>4, <1>5, <1>6, <1>7, <1>8, <1>9, <1>10, <1>11, <1>12, <1>13, <1>14, <1>15, <1>16 DEF Step

\* One step of the system, the main loop running no command.
LEMMA IsolatedStep ==
    ASSUME TypeOK, Safe, FunctionsInv, Isolated, pc["main"] = "idle", [Next]_vars
    PROVE  Isolated'
<1>1. ASSUME NEW c \in Ctx, Step(c) PROVE Isolated'
    BY <1>1, OnlyIsr, StepIsolated
<1>2. ASSUME OtherStep PROVE Isolated'
    BY <1>2, OthersApart, OtherIsolated
<1> QED
    BY <1>1, <1>2, PacketIsolated DEF Next, Packet, OtherStep

\* The message of the interrupt's call.
Req == Request(cmd["isr"], val["isr"], want["isr"])

\* What the host sees of a call, by where the interrupt is in it.
LEMMA CallSeen ==
    /\ pc["isr"] = "idle" => RemoteCall = M!NoCall
    /\ pc["isr"] = "ret" => RemoteCall = M!Answered(Req, ack["isr"])
    /\ Polling("isr") => RemoteCall = M!Sent(Req)
    /\ pc["isr"] \notin {"idle", "ret"} /\ ~Polling("isr") => RemoteCall = M!Asked(Req)
BY DEF RemoteCall, Req, Polling, M!NoCall, M!Answered, M!Sent, M!Asked

\* The same of the next state.
LEMMA CallSeenNext ==
    /\ pc'["isr"] = "idle" => RemoteCall' = M!NoCall
    /\ pc'["isr"] = "ret" => RemoteCall' = M!Answered(Req', ack'["isr"])
    /\ Polling("isr")' => RemoteCall' = M!Sent(Req')
    /\ pc'["isr"] \notin {"idle", "ret"} /\ ~Polling("isr")' => RemoteCall' = M!Asked(Req')
BY DEF RemoteCall, Req, Polling, M!NoCall, M!Answered, M!Sent, M!Asked

\* A function's message is one of the host's; a low priority one is not nothing.
LEMMA ReqOf ==
    ASSUME NEW cm \in RemoteCmds, NEW v \in Inputs, NEW p \in PS
    PROVE  /\ Request(cm, v, p) \in {Request(c, u, q) : c \in RemoteCmds, u \in Inputs, q \in PS}
           /\ cm.kind = "sync" => Request(cm, v, p) = NoMessage
           /\ cm.kind = "low" => Request(cm, v, p) # NoMessage
<1>1. cm.kind = "sync" => Request(cm, v, p) = NoMessage
    BY DEF Request
<1>2. ASSUME cm.kind = "low" PROVE Request(cm, v, p) # NoMessage
  <2>1. cm.msg \in Msgs
      BY CmdsAssumption DEF CmdType
  <2>2. Request(cm, v, p).reg = low_priority_msg_to_reg(cm.msg)
      BY <1>2 DEF Request
  <2>3. 0 \in Request(cm, v, p).reg /\ 0 \notin NoMessage.reg
      BY <2>1, <2>2, RegBits DEF NoMessage
  <2> QED
      BY <2>3
<1> QED
    BY <1>1, <1>2

\* As long as nobody takes it and nobody sends, what the C28 would read stays.
LEMMA BoxStays ==
    ASSUME TypeOK, Safe, FunctionsInv, Isolated, pc["main"] = "idle", [Next]_vars, pend' = pend
    PROVE  InBox' = InBox
<1>1. CASE pend = {}
    BY <1>1 DEF InBox
<1>2. CASE pend # {}
  <2> DEFINE q == CHOOSE q \in pend : TRUE
             Holding(f) == Receivers(f, q.msg, q.id)
  <2>1. q \in pend \cap pend'
      BY <1>2
  <2>2. Untouched(q)
      BY <2>1, StepLeavesPending
  <2>3. q.id \in PS /\ q.msg \in Msgs
      BY <2>1 DEF TypeOK, MessageType
  <2> HIDE DEF q
  <2>4. ASSUME NEW p \in Receivers(q.field, q.msg, q.id) PROVE mtoc'[p][q.field] = mtoc[p][q.field]
      BY <2>2, <2>3, <2>4 DEF Untouched, Receivers
  <2>5. [p \in Receivers(q.field, q.msg, q.id) |-> mtoc'[p][q.field]]
           = [p \in Receivers(q.field, q.msg, q.id) |-> mtoc[p][q.field]]
      BY <2>4
  <2>6. flg' \cap LowBits = flg \cap LowBits /\ msg_id' = msg_id
      BY <2>2 DEF Untouched
  <2>7. InBox = [reg |-> flg \cap LowBits, id |-> msg_id,
                 data |-> [p \in Receivers(q.field, q.msg, q.id) |-> mtoc[p][q.field]]]
      BY <1>2 DEF InBox, q
  <2>8. InBox' = [reg |-> flg' \cap LowBits, id |-> msg_id',
                  data |-> [p \in Receivers(q.field, q.msg, q.id) |-> mtoc'[p][q.field]]]
      BY <1>2 DEF InBox, q
  <2> QED
      BY <2>5, <2>6, <2>7, <2>8
<1> QED
    BY <1>1, <1>2

\* The send of a low priority message puts the whole message into an empty mailbox.
LEMMA SendPuts ==
    ASSUME TypeOK, Safe, FunctionsInv, Isolated, send_ipc_lowpriority_msg("isr"),
           cmd["isr"].kind = "low"
    PROVE  pend = {} /\ pend' # {} /\ InBox' = Req
<1> DEFINE cm == cmd["isr"]
           mes == Message("isr")
           reads == [p \in Receivers(mes.field, mes.msg, mes.id) |-> mtoc[p][mes.field]]
<1>1. /\ pc["isr"] = "set" /\ flg' = flg \cup Reg(cm) /\ pend' = pend \cup {mes}
      /\ msg_id' = msg_id /\ mtoc' = mtoc
    BY DEF send_ipc_lowpriority_msg, Go
<1>2. pend = {} /\ flg \cap LowBits = {} /\ msg_id = Dest /\ arg["isr"] = Dest
    BY <1>1 DEF Safe, MailboxInv, Sending, Dest
<1>3. cm \in CmdType /\ cm.msg \in Msgs
    BY DEF TypeOK, Ctx, CmdType
<1>4. Reg(cm) = low_priority_msg_to_reg(cm.msg) /\ Reg(cm) \subseteq LowBits
    BY <1>3, CmdReg, RegBits
<1>5. flg' \cap LowBits = low_priority_msg_to_reg(cm.msg)
    BY <1>1, <1>2, <1>4
<1>6. mes.msg = cm.msg /\ mes.id = Dest /\ mes.field = cm.field
    BY <1>2 DEF Message
<1>7. \A p \in Receivers(cm.field, cm.msg, Dest) : mtoc[p][cm.field] = Payload(cm, val["isr"])
    BY <1>1 DEF Isolated, PayloadInPlace
<1>8. reads = [p \in Receivers(cm.field, cm.msg, Dest) |-> Payload(cm, val["isr"])]
    BY <1>6, <1>7
<1>9. pend' = {mes} /\ (CHOOSE q \in pend' : TRUE) = mes
    BY <1>1, <1>2
<1> HIDE DEF mes
<1>10. InBox' = [reg |-> flg' \cap LowBits, id |-> msg_id', data |-> reads]
    BY <1>1, <1>9 DEF InBox
<1>11. Req = [reg |-> low_priority_msg_to_reg(cm.msg), id |-> Dest,
              data |-> [p \in Receivers(cm.field, cm.msg, Dest) |-> Payload(cm, val["isr"])]]
    BY DEF Req, Request, Dest
<1> HIDE DEF reads, cm
<1> QED
    BY <1>1, <1>2, <1>5, <1>8, <1>9, <1>10, <1>11

\* One step of the mailbox, or none.
MailStep == [M!Next]_<<RemoteCall, InBox>>

\* The steps between the packet and the answer that move no message.
LEMMA CallGoesOn ==
    ASSUME InBox' = InBox, cmd'["isr"] = cmd["isr"], val'["isr"] = val["isr"],
           want'["isr"] = want["isr"], pc["isr"] \notin {"idle", "ret"},
           pc'["isr"] \notin {"idle", "ret"}, Polling("isr")' <=> Polling("isr")
    PROVE  MailStep
<1>1. Req' = Req
    BY DEF Req
<1>2. RemoteCall' = RemoteCall
    BY <1>1, CallSeen, CallSeenNext
<1> QED
    BY <1>2 DEF MailStep

\* A call that ends with a truthful answer.
LEMMA CallAnswers ==
    ASSUME InBox' = InBox, cmd'["isr"] = cmd["isr"], val'["isr"] = val["isr"],
           want'["isr"] = want["isr"], pc["isr"] \notin {"idle", "ret"}, pc'["isr"] = "ret",
           ack'["isr"] \in AckCodes,
           \/ Req = NoMessage
           \/ Polling("isr") /\ ack'["isr"] = Ok /\ InBox = NoMessage
           \/ Polling("isr") /\ ack'["isr"] = DSP_Timeout
           \/ ~Polling("isr") /\ ack'["isr"] \notin {Ok, DSP_Timeout}
    PROVE  MailStep
<1> DEFINE a == ack'["isr"]
<1>1. Req' = Req
    BY DEF Req
<1>2. RemoteCall' = M!Answered(Req, a)
    BY <1>1, CallSeenNext
<1>3. \/ RemoteCall = M!Asked(Req) /\ ~Polling("isr")
      \/ RemoteCall = M!Sent(Req) /\ Polling("isr")
    BY CallSeen
<1>4. RemoteCall.req = Req /\ RemoteCall.stage \in {"asked", "sent"}
      /\ (Polling("isr") => RemoteCall.stage = "sent")
      /\ (~Polling("isr") => RemoteCall.stage = "asked")
    BY <1>3 DEF M!Asked, M!Sent
<1>5. M!Truthful(a)
    BY <1>4 DEF M!Truthful
<1>6. M!Answer
    BY <1>2, <1>4, <1>5 DEF M!Answer
<1> QED
    BY <1>6 DEF MailStep, M!Next

\* A new call, from the line or the next turn of a broadcast.
LEMMA CallBegins ==
    ASSUME TypeOK, InBox' = InBox, pc["isr"] \in {"idle", "ret"}, pc'["isr"] = "iface",
           cmd'["isr"] \in RemoteCmds, val'["isr"] \in Inputs, want'["isr"] \in PS
    PROVE  MailStep
<1>1. Req' = Request(cmd'["isr"], val'["isr"], want'["isr"])
    BY DEF Req
<1>2. Req' \in {Request(c, u, q) : c \in RemoteCmds, u \in Inputs, q \in PS}
    BY <1>1, ReqOf
<1>3. RemoteCall' = M!Asked(Req')
    BY CallSeenNext DEF Polling
<1>4. RemoteCall.stage \in {"none", "answered"}
    BY CallSeen DEF M!NoCall, M!Answered
<1>5. M!Ask
    BY <1>2, <1>3, <1>4 DEF M!Ask
<1> QED
    BY <1>5 DEF MailStep, M!Next

\* What the interrupt does is a step of the mailbox.
LEMMA StepMails ==
    ASSUME TypeOK, Safe, FunctionsInv, Isolated, pc["main"] = "idle", Step("isr")
    PROVE  MailStep
<1> USE DEF Go, Runs, Answer
<1>0. /\ pc \in [Ctx -> Locations] /\ cmd \in [Ctx -> CmdType] /\ val \in [Ctx -> Vals]
      /\ want \in [Ctx -> PS] /\ ack \in [Ctx -> AckCodes] /\ "isr" \in Ctx
      /\ cmd["isr"] \in CmdType /\ want["isr"] \in PS /\ pc["isr"] # "idle"
      /\ cmd["isr"].kind \in {"low", "sync"}
  <2>1. /\ pc \in [Ctx -> Locations] /\ cmd \in [Ctx -> CmdType] /\ val \in [Ctx -> Vals]
        /\ want \in [Ctx -> PS] /\ ack \in [Ctx -> AckCodes] /\ "isr" \in Ctx /\ "main" \in Ctx
      BY DEF TypeOK, Ctx
  <2> QED
      BY <2>1, OnlyIsr DEF CmdType
<1>1. [Next]_vars
    BY <1>0 DEF Next
<1>2. pend' = pend => InBox' = InBox
    BY <1>1, BoxStays
<1>3. /\ cmd["isr"].kind = "sync" => Req = NoMessage
      /\ cmd["isr"].kind = "low" => Req # NoMessage
    BY <1>0, ReqOf DEF Isolated, HostCall, Req
<1>4. CASE BSMPprocess("isr") \/ Enter("isr") \/ CheckBusy("isr")
  <2>1. /\ cmd' = cmd /\ val' = val /\ want' = want /\ pend' = pend
        /\ pc["isr"] \in {"iface", "enter", "check"}
        /\ \/ pc'["isr"] \in {"enter", "check", "load"}
           \/ /\ pc'["isr"] = "ret"
              /\ ack'["isr"] \in {PS_is_Local, Invalid_Command, PS_Locked, DSP_Busy, Resource_Busy}
      BY <1>0, <1>4 DEF BSMPprocess, Enter, CheckBusy
  <2>2. ~Polling("isr")
      BY <2>1 DEF Polling
  <2>3. CASE pc'["isr"] \in {"enter", "check", "load"}
      BY <1>2, <2>1, <2>2, <2>3, CallGoesOn DEF Polling
  <2>4. CASE /\ pc'["isr"] = "ret"
             /\ ack'["isr"] \in {PS_is_Local, Invalid_Command, PS_Locked, DSP_Busy, Resource_Busy}
    <3>1. ack'["isr"] \in AckCodes /\ ack'["isr"] \notin {Ok, DSP_Timeout}
        BY <2>4 DEF AckCodes, Ok, PS_is_Local, PS_Locked, DSP_Timeout, DSP_Busy, Resource_Busy,
                    Invalid_Command
    <3> QED
        BY <1>2, <2>1, <2>2, <2>4, <3>1, CallAnswers
  <2> QED
      BY <2>1, <2>3, <2>4
<1>5. CASE \/ LoadStatus("isr") \/ StorePayload("isr") \/ LoadArg("isr") \/ send_ipc_msg("isr")
           \/ WriteMsgId("isr")
  <2>1. /\ cmd' = cmd /\ val' = val /\ want' = want /\ pend' = pend
        /\ \/ /\ pc["isr"] \in {"load", "store", "arg", "id"}
              /\ pc'["isr"] \in {"store", "arg", "probe", "id", "set"}
           \/ pc["isr"] = "probe" /\ pc'["isr"] \in {"id", "wait"}
      BY <1>0, <1>5 DEF LoadStatus, StorePayload, LoadArg, send_ipc_msg, WriteMsgId
  <2>2. pc["isr"] = "probe" => cmd["isr"].kind = "sync"
      BY <1>0 DEF Safe, MailboxInv
  <2>3. ~Polling("isr") /\ ~Polling("isr")'
      BY <2>1, <2>2 DEF Polling
  <2> QED
      BY <1>2, <2>1, <2>3, CallGoesOn
<1>6. CASE send_ipc_lowpriority_msg("isr")
  <2>1. /\ cmd' = cmd /\ val' = val /\ want' = want /\ pc["isr"] = "set" /\ pc'["isr"] = "wait"
        /\ cmd["isr"].kind = "sync" => pend' = pend
      BY <1>0, <1>6 DEF send_ipc_lowpriority_msg
  <2>2. Req' = Req
      BY <2>1 DEF Req
  <2>3. CASE cmd["isr"].kind = "sync"
      BY <1>2, <2>1, <2>3, CallGoesOn DEF Polling
  <2>4. CASE cmd["isr"].kind = "low"
    <3>1. pend = {} /\ InBox' = Req
        BY <1>6, <2>4, SendPuts
    <3>2. InBox = NoMessage
        BY <3>1 DEF InBox
    <3>3. RemoteCall = M!Asked(Req)
        BY <2>1, CallSeen DEF Polling
    <3>4. Polling("isr")'
        BY <2>1, <2>4 DEF Polling
    <3>5. RemoteCall' = M!Sent(Req)
        BY <2>2, <3>4, CallSeenNext
    <3>6. RemoteCall.stage = "asked" /\ RemoteCall.req = Req
        BY <3>3 DEF M!Asked
    <3>7. M!Put
        BY <1>3, <2>4, <3>1, <3>2, <3>5, <3>6 DEF M!Put
    <3> QED
        BY <3>7 DEF MailStep, M!Next
  <2> QED
      BY <1>0, <2>3, <2>4
<1>7. CASE PollFlag("isr") \/ PollLimit("isr") \/ ReadCounter("isr") \/ IncrementCounter("isr")
  <2>1. /\ cmd' = cmd /\ val' = val /\ want' = want /\ pend' = pend
        /\ pc["isr"] \in {"wait", "limit", "read", "inc"}
        /\ pc'["isr"] \in {"wait", "limit", "read", "inc", "judge"}
      BY <1>0, <1>7 DEF PollFlag, PollLimit, ReadCounter, IncrementCounter
  <2>2. Polling("isr")' <=> Polling("isr")
      BY <2>1 DEF Polling
  <2> QED
      BY <1>2, <2>1, <2>2, CallGoesOn
<1>8. CASE Judge("isr")
  <2>1. /\ cmd' = cmd /\ val' = val /\ want' = want /\ pend' = pend
        /\ pc["isr"] = "judge" /\ pc'["isr"] = "ret"
        /\ ack'["isr"] = IF ulTimeout # TIMEOUT_DSP_IPC_ACK THEN Ok ELSE DSP_Timeout
      BY <1>0, <1>8 DEF Judge
  <2>2. ack'["isr"] \in AckCodes
      BY <2>1 DEF AckCodes
  <2>3. cmd["isr"].kind = "low" => Polling("isr")
      BY <2>1 DEF Polling
  <2>4. cmd["isr"].kind = "low" /\ ack'["isr"] = Ok => InBox = NoMessage
    <3>1. cmd["isr"].kind = "low" /\ ack'["isr"] = Ok => pend = {}
        BY <2>1 DEF Isolated, LimitKept, Ok, DSP_Timeout
    <3> QED
        BY <3>1 DEF InBox
  <2> QED
      BY <1>0, <1>2, <1>3, <2>1, <2>2, <2>3, <2>4, CallAnswers
<1>9. CASE Return("isr")
  <2>1. pc["isr"] = "ret" /\ pend' = pend /\ mode["isr"] # "task"
      BY <1>9 DEF Return, Safe, MailboxInv
  <2>2. CASE NextTurn("isr")
    <3>1. /\ cmd'["isr"] = cmd["isr"] /\ val'["isr"] = val["isr"] /\ pc'["isr"] = "iface"
          /\ want'["isr"] = want["isr"] + 1 /\ want["isr"] + 1 < N
        BY <1>0, <2>1, <2>2 DEF NextTurn, Begin
    <3>2. want'["isr"] \in PS
        BY <1>0, <3>1, NAssumption DEF PS
    <3>3. cmd["isr"] \in RemoteCmds /\ val["isr"] \in Inputs
        BY <1>0 DEF Isolated, HostCall
    <3> QED
        BY <1>2, <2>1, <3>1, <3>2, <3>3, CallBegins
  <2>3. CASE Finish("isr")
    <3>1. pc'["isr"] = "idle"
        BY <1>0, <2>3 DEF Finish
    <3>2. RemoteCall.stage = "answered" /\ RemoteCall' = M!NoCall
        BY <2>1, <3>1, CallSeen, CallSeenNext DEF M!Answered
    <3>3. M!Deliver
        BY <1>2, <2>1, <3>2 DEF M!Deliver
    <3> QED
        BY <3>3 DEF MailStep, M!Next
  <2> QED
      BY <1>9, <2>2, <2>3 DEF Return
<1>10. ~SweepLoad("isr") /\ ~SweepStore("isr")
    BY DEF SweepLoad, SweepStore, Safe, MailboxInv
<1> QED
    BY <1>4, <1>5, <1>6, <1>7, <1>8, <1>9, <1>10 DEF Step

\* A packet begins a call.
LEMMA PacketMails ==
    ASSUME TypeOK, Safe, FunctionsInv, Isolated, pc["main"] = "idle", [Next]_vars,
           \/ \E p \in PS, cm \in RemoteCmds, v \in Inputs : rs485_process_data(p, cm, v)
           \/ \E cm \in RemoteCmds, v \in Inputs : rs485_broadcast(cm, v)
    PROVE  MailStep
<1>1. /\ cmd \in [Ctx -> CmdType] /\ val \in [Ctx -> Vals] /\ pc \in [Ctx -> Locations]
      /\ want \in [Ctx -> PS] /\ "isr" \in Ctx /\ 0 \in PS
    BY Zeros DEF TypeOK, Ctx
<1>2. /\ cmd'["isr"] \in RemoteCmds /\ val'["isr"] \in Inputs /\ want'["isr"] \in PS
      /\ pc["isr"] = "idle" /\ pc'["isr"] = "iface" /\ pend' = pend
    BY <1>1 DEF rs485_process_data, rs485_broadcast, Begin
<1> QED
    BY <1>2, BoxStays, CallBegins

\* The C28 takes a message; nothing else the rest of the system does is seen.
LEMMA OtherMails ==
    ASSUME TypeOK, Safe, FunctionsInv, Isolated, pc["main"] = "idle", [Next]_vars, Apart
    PROVE  MailStep
<1>1. RemoteCall' = RemoteCall
  <2>1. Req' = Req /\ (Polling("isr")' <=> Polling("isr"))
      BY DEF Apart, CallKept, Req, Polling
  <2>2. pc'["isr"] = pc["isr"] /\ ack'["isr"] = ack["isr"]
      BY DEF Apart, CallKept
  <2> QED
      BY <2>1, <2>2, CallSeen, CallSeenNext
<1>2. CASE pend' = pend
  <2>1. InBox' = InBox
      BY <1>2, BoxStays
  <2> QED
      BY <1>1, <2>1 DEF MailStep
<1>3. CASE C28Take
  <2>1. pend # {} /\ pend' = {} /\ IPC_MTOC_LOWPRIORITY_MSG \in flg
    <3>1. IPC_MTOC_LOWPRIORITY_MSG \in LowBits
        BY DEF LowBits
    <3> QED
        BY <1>3, <3>1 DEF C28Take, Safe, MailboxInv
  <2>2. InBox' = NoMessage
      BY <2>1 DEF InBox
  <2>3. InBox # NoMessage
    <3>1. 0 \in InBox.reg
        BY <2>1, Lows DEF InBox, IPC_MTOC_LOWPRIORITY_MSG
    <3>2. 0 \notin NoMessage.reg
        BY DEF NoMessage
    <3> QED
        BY <3>1, <3>2
  <2>4. M!Take
      BY <1>1, <2>2, <2>3 DEF M!Take
  <2> QED
      BY <2>4 DEF MailStep, M!Next
<1> QED
    BY <1>2, <1>3 DEF Apart

\* Every step of the system is a step of the mailbox or none.
LEMMA NextMails ==
    ASSUME TypeOK, Safe, FunctionsInv, Isolated, pc["main"] = "idle", [Next]_vars
    PROVE  MailStep
<1>1. ASSUME NEW c \in Ctx, Step(c) PROVE MailStep
    BY <1>1, OnlyIsr, StepMails
<1>2. ASSUME OtherStep PROVE MailStep
    BY <1>2, OthersApart, OtherMails
<1> QED
    BY <1>1, <1>2, PacketMails DEF Next, Packet, OtherStep

\* As long as the main loop runs no command, every function of the firmware gives the
\* service of Mailbox: its message enters an empty mailbox whole or not at all, is
\* there unchanged until the C28 takes it, and the answer says which of the two it
\* was, for every number of supplies and every poll limit, with broadcasts,
\* interlocks and any number of calls after a DSP_Timeout.
THEOREM MailboxImplemented ==
    ASSUME Firmware
    PROVE  Spec /\ [](pc["main"] = "idle") => ImplementsMailbox
<1>1. TypeOK /\ Safe /\ FunctionsInv /\ [Next]_vars => FunctionsInv'
    BY StepFunctions
<1>2. TypeOK /\ Safe /\ FunctionsInv /\ Isolated /\ pc["main"] = "idle" /\ [Next]_vars
        => Isolated'
    BY IsolatedStep
<1>3. TypeOK /\ Safe /\ FunctionsInv /\ Isolated /\ pc["main"] = "idle" /\ [Next]_vars
        => [M!Next]_<<RemoteCall, InBox>>
    BY NextMails DEF MailStep
<1>4. Init => M!Init
  <2>1. Init => pc["isr"] = "idle" /\ InBox = NoMessage
      BY DEF Init, InBox, Ctx
  <2> QED
      BY <2>1, CallSeen DEF M!Init
<1>5. Spec => []FunctionsInv
    BY <1>1, InitFunctions, TypeCorrect, MailboxSafe, PTL DEF Spec
<1>6. Spec /\ [](pc["main"] = "idle") => []Isolated
    BY <1>2, <1>5, InitIsolated, TypeCorrect, MailboxSafe, PTL DEF Spec
<1> QED
    BY <1>3, <1>4, <1>5, <1>6, TypeCorrect, MailboxSafe, PTL
    DEF Spec, ImplementsMailbox, M!Service
----------------------------------------------------------------------------
(* How long the interrupt takes.                                           *)

\* The limit is tested right before the counter is read, and nobody else counts
\* while the interrupt is active; its turns are those of a packet.
PollInv == /\ pc["isr"] = "read" => ulTimeout < TIMEOUT_DSP_IPC_ACK
           /\ pc["isr"] = "inc" => tmp["isr"] = ulTimeout /\ ulTimeout < TIMEOUT_DSP_IPC_ACK

\* Nobody runs at the start.
LEMMA InitPolls == Init => PollInv
BY DEF Init, PollInv, Ctx

\* Nobody but the C28 moves while the interrupt is active.
LEMMA OthersWait ==
    ASSUME TypeOK, [Next]_vars, pc["isr"] # "idle", ~Step("isr")
    PROVE  UNCHANGED <<pc, mode, want, tmp, ulTimeout>>
<1>1. CASE Packet \/ MainTask \/ Timer \/ Can
    BY <1>1 DEF Packet, rs485_process_data, rs485_broadcast, ihm_process_data, MainTask,
       TaskClearItlkAlarm, TaskResetCommandInterface, TaskLockUdc, TaskDue, Timer,
       isr_global_timer, Can, set_interlock
<1>2. CASE Step("main")
    BY <1>2 DEF Step, BSMPprocess, Enter, CheckBusy, LoadStatus, StorePayload, LoadArg, Go, Runs,
       send_ipc_msg, WriteMsgId, send_ipc_lowpriority_msg, PollFlag, PollLimit, ReadCounter,
       IncrementCounter, Judge, Return, SweepLoad, SweepStore
<1>3. CASE C28
    BY <1>3 DEF C28, C28Take, C28Execute, C28TakeSync, C28TakeItlk, locals, arm, dsp
<1>4. CASE UNCHANGED vars
    BY <1>4 DEF vars
<1> QED
    BY <1>1, <1>2, <1>3, <1>4 DEF Next, Ctx

\* While the interrupt is idle, whoever runs leaves it so or begins a call.
LEMMA IdleMoves ==
    ASSUME TypeOK, [Next]_vars, pc["isr"] = "idle"
    PROVE  pc'["isr"] \in {"idle", "iface"}
<1>0. pc \in [Ctx -> Locations] /\ "isr" \in Ctx /\ "main" \in Ctx
    BY DEF TypeOK, Ctx
<1>1. CASE Packet \/ MainTask \/ Timer \/ Can
    BY <1>0, <1>1 DEF Packet, rs485_process_data, rs485_broadcast, ihm_process_data, MainTask,
       TaskClearItlkAlarm, TaskResetCommandInterface, TaskLockUdc, TaskDue, Timer, Begin,
       isr_global_timer, Can, set_interlock, locals
<1>2. ASSUME NEW c \in Ctx, Step(c) PROVE pc'["isr"] = "idle"
  <2>1. pc[c] # "idle"
      BY <1>2 DEF Step, BSMPprocess, Enter, CheckBusy, LoadStatus, StorePayload, LoadArg, Go,
         send_ipc_msg, WriteMsgId, send_ipc_lowpriority_msg, PollFlag, PollLimit, ReadCounter,
         IncrementCounter, Judge, Return, SweepLoad, SweepStore
  <2>2. c = "main"
      BY <2>1 DEF Ctx
  <2>3. \A l : [pc EXCEPT !["main"] = l]["isr"] = "idle"
      BY <1>0
  <2>4. \E l : pc' = [pc EXCEPT !["main"] = l]
      BY <1>2, <2>2 DEF Step, BSMPprocess, Enter, CheckBusy, LoadStatus, StorePayload, LoadArg, Go,
         send_ipc_msg, WriteMsgId, send_ipc_lowpriority_msg, PollFlag, PollLimit, ReadCounter,
         IncrementCounter, Judge, Return, NextTurn, Finish, Begin, SweepLoad, SweepStore
  <2> QED
      BY <2>3, <2>4
<1>3. CASE C28 \/ UNCHANGED vars
    BY <1>3 DEF C28, C28Take, C28Execute, C28TakeSync, C28TakeItlk, locals, vars
<1> QED
    BY <1>1, <1>2, <1>3 DEF Next

\* What is left never exceeds one packet's share.
LEMMA WorkBound ==
    TypeOK => /\ PollsLeft \in 0 .. TIMEOUT_DSP_IPC_ACK
              /\ StepsLeft \in 0 .. TurnSteps /\ TurnsLeft \in 0 .. N - 1
              /\ Work <= N * TurnSteps
<1> SUFFICES ASSUME TypeOK
             PROVE  /\ PollsLeft \in 0 .. TIMEOUT_DSP_IPC_ACK
                    /\ StepsLeft \in 0 .. TurnSteps /\ TurnsLeft \in 0 .. N - 1
                    /\ Work <= N * TurnSteps
    OBVIOUS
<1>1. /\ TIMEOUT_DSP_IPC_ACK \in Nat /\ N \in Nat \ {0} /\ ulTimeout \in Nat
      /\ want["isr"] \in 0 .. N - 1
    BY NAssumption, TimeoutAssumption DEF TypeOK, Ctx, PS
<1>2. PollsLeft \in 0 .. TIMEOUT_DSP_IPC_ACK
    BY <1>1 DEF PollsLeft
<1>3. TurnSteps \in Nat
    BY <1>1 DEF TurnSteps
<1>4. StepsLeft \in 0 .. TurnSteps
  <2>1. \/ StepsLeft \in {TurnSteps, TurnSteps - 1, 2, 1, 0}
        \/ \E k \in 1 .. 11 : StepsLeft = 4 * PollsLeft + k
    <3> DEFINE b == 4 * PollsLeft
    <3>1. StepsLeft \in {TurnSteps, TurnSteps - 1, 2, 1, 0, b + 11, b + 10, b + 9, b + 8,
                         b + 7, b + 6, b + 5, b + 4, b + 3, b + 2, b + 1}
        BY ZenonT(60) DEF StepsLeft
    <3> HIDE DEF b
    <3>2. \/ StepsLeft \in {TurnSteps, TurnSteps - 1, 2, 1, 0}
          \/ \E k \in 1 .. 11 : StepsLeft = b + k
        BY <3>1
    <3> QED
        BY <3>2 DEF b
  <2> HIDE DEF StepsLeft
  <2> QED
      BY <1>1, <1>2, <2>1 DEF TurnSteps
<1>5. TurnsLeft \in 0 .. N - 1
    BY <1>1 DEF TurnsLeft
<1>6. ASSUME NEW steps \in Nat, NEW turns \in 0 .. N - 1, NEW left \in 0 .. steps
      PROVE  left + steps * turns <= N * steps
  <2>1. PICK rest \in Nat : N = turns + 1 + rest
    <3>1. N - 1 - turns \in Nat /\ N = turns + 1 + (N - 1 - turns)
        BY <1>1
    <3> QED
        BY <3>1
  <2>2. steps * rest \in Nat /\ steps * turns \in Nat
      OBVIOUS
  <2>3. N * steps = steps * turns + steps + steps * rest
      BY <2>1
  <2> QED
      BY <2>2, <2>3
<1>7. Work <= N * TurnSteps
    BY <1>3, <1>4, <1>5, <1>6 DEF Work
<1> QED
    BY <1>2, <1>4, <1>5, <1>7

\* The same for the state after a step.
LEMMA WorkBoundNext ==
    ASSUME TypeOK'
    PROVE  /\ PollsLeft' \in 0 .. TIMEOUT_DSP_IPC_ACK
           /\ StepsLeft' \in 0 .. TurnSteps /\ Work' <= N * TurnSteps
<1>1. (TypeOK => /\ PollsLeft \in 0 .. TIMEOUT_DSP_IPC_ACK
                 /\ StepsLeft \in 0 .. TurnSteps /\ Work <= N * TurnSteps)'
    BY WorkBound, PTL
<1> QED
    BY <1>1 DEF TurnSteps

\* One step of a turn.
LEMMA TurnLowers ==
    ASSUME TypeOK, TypeOK', mode' = mode, want' = want, StepsLeft' < StepsLeft
    PROVE  Work' < Work
<1>1. TurnsLeft' = TurnsLeft
    BY DEF TurnsLeft
<1>2. TurnsLeft \in 0 .. N - 1 /\ TurnSteps \in Nat /\ N \in Nat
    BY WorkBound, NAssumption, TimeoutAssumption DEF TurnSteps
<1>3. TurnSteps * TurnsLeft \in Nat
    BY <1>2
<1>4. StepsLeft \in Nat /\ StepsLeft' \in Nat
    BY <1>2, WorkBound, WorkBoundNext
<1>5. Work' = StepsLeft' + TurnSteps * TurnsLeft
    BY <1>1 DEF Work, TurnSteps
<1> HIDE DEF Work
<1>6. Work = StepsLeft + TurnSteps * TurnsLeft
    BY DEF Work
<1> QED
    BY <1>3, <1>4, <1>5, <1>6

\* The interrupt's own steps.
LEMMA StepLowers ==
    ASSUME TypeOK, TypeOK', Safe, PollInv, Step("isr")
    PROVE  Work' < Work /\ PollInv' /\ pc' # pc
<1> USE DEF Go, Runs, Answer
<1>0. /\ pc \in [Ctx -> Locations] /\ tmp \in [Ctx -> Nat] /\ "isr" \in Ctx
      /\ TIMEOUT_DSP_IPC_ACK \in Nat \ {0} /\ ulTimeout \in Nat
      /\ PollsLeft \in 0 .. TIMEOUT_DSP_IPC_ACK
    BY TimeoutAssumption, WorkBound DEF TypeOK, Ctx
<1>1. CASE BSMPprocess("isr") \/ Enter("isr") \/ CheckBusy("isr")
  <2>1. /\ mode' = mode /\ want' = want
        /\ \/ pc["isr"] = "iface" /\ pc'["isr"] \in {"enter", "ret"}
           \/ pc["isr"] = "enter" /\ pc'["isr"] \in {"check", "ret"}
           \/ pc["isr"] = "check" /\ pc'["isr"] \in {"load", "ret"} /\ ulTimeout' = ulTimeout
        /\ ulTimeout' \in {0, ulTimeout}
      BY <1>0, <1>1 DEF BSMPprocess, Enter, CheckBusy, arm, ClearTimeout
  <2>2. /\ PollsLeft' \in 0 .. TIMEOUT_DSP_IPC_ACK
        /\ pc["isr"] = "check" => PollsLeft' = PollsLeft
    <3>1. pc["isr"] = "check" => ulTimeout' = ulTimeout
        BY <2>1
    <3>2. ulTimeout' = ulTimeout => PollsLeft' = PollsLeft
        BY DEF PollsLeft
    <3> QED
        BY <3>1, <3>2, WorkBoundNext
  <2>3. StepsLeft' < StepsLeft
      BY <1>0, <2>1, <2>2 DEF StepsLeft, TurnSteps
  <2> QED
      BY <2>1, <2>3, TurnLowers DEF PollInv
<1>2. CASE \/ LoadStatus("isr") \/ StorePayload("isr") \/ LoadArg("isr") \/ send_ipc_msg("isr")
           \/ WriteMsgId("isr") \/ send_ipc_lowpriority_msg("isr") \/ PollFlag("isr") \/ Judge("isr")
  <2>1. /\ mode' = mode /\ want' = want /\ ulTimeout' = ulTimeout
        /\ \/ pc["isr"] = "load" /\ pc'["isr"] = "store"
           \/ pc["isr"] = "store" /\ pc'["isr"] = "arg"
           \/ pc["isr"] = "arg" /\ pc'["isr"] \in {"probe", "id"}
           \/ pc["isr"] = "probe" /\ pc'["isr"] \in {"id", "wait"}
           \/ pc["isr"] = "id" /\ pc'["isr"] = "set"
           \/ pc["isr"] = "set" /\ pc'["isr"] = "wait"
           \/ pc["isr"] = "wait" /\ pc'["isr"] \in {"limit", "judge"}
           \/ pc["isr"] = "judge" /\ pc'["isr"] = "ret"
      BY <1>0, <1>2 DEF LoadStatus, StorePayload, LoadArg, send_ipc_msg, WriteMsgId,
         send_ipc_lowpriority_msg, PollFlag, Judge, arm
  <2>2. PollsLeft' = PollsLeft
      BY <2>1 DEF PollsLeft
  <2>3. StepsLeft' < StepsLeft
      BY <1>0, <2>1, <2>2 DEF StepsLeft
  <2> QED
      BY <2>1, <2>3, TurnLowers DEF PollInv
<1>3. CASE PollLimit("isr") \/ ReadCounter("isr")
  <2>1. /\ mode' = mode /\ want' = want /\ ulTimeout' = ulTimeout
        /\ \/ /\ pc["isr"] = "limit"
              /\ pc'["isr"] = IF ulTimeout < TIMEOUT_DSP_IPC_ACK THEN "read" ELSE "judge"
           \/ /\ pc["isr"] = "read" /\ pc'["isr"] = "inc" /\ tmp'["isr"] = ulTimeout
      BY <1>0, <1>3 DEF PollLimit, ReadCounter, arm
  <2>2. PollsLeft' = PollsLeft
      BY <2>1 DEF PollsLeft
  <2>3. StepsLeft' < StepsLeft
      BY <1>0, <2>1, <2>2 DEF StepsLeft
  <2>4. PollInv'
      BY <1>0, <2>1 DEF PollInv
  <2> QED
      BY <2>1, <2>3, <2>4, TurnLowers
<1>4. CASE IncrementCounter("isr")
  <2>1. /\ mode' = mode /\ want' = want /\ pc["isr"] = "inc" /\ pc'["isr"] = "wait"
        /\ ulTimeout' = ulTimeout + 1 /\ ulTimeout < TIMEOUT_DSP_IPC_ACK
      BY <1>0, <1>4 DEF IncrementCounter, PollInv
  <2>2. PollsLeft' = PollsLeft - 1
      BY <1>0, <2>1 DEF PollsLeft
  <2>3. StepsLeft' < StepsLeft
      BY <1>0, <2>1, <2>2 DEF StepsLeft
  <2> QED
      BY <2>1, <2>3, TurnLowers DEF PollInv
<1>5. CASE Return("isr")
  <2>1. pc["isr"] = "ret" /\ mode["isr"] # "task" /\ ulTimeout' = ulTimeout
      BY <1>5 DEF Return, Safe, MailboxInv
  <2>2. /\ mode \in [Ctx -> {"single", "bcast", "task"}] /\ want \in [Ctx -> PS]
        /\ N \in Nat \ {0} /\ TurnSteps \in Nat
      BY NAssumption, TimeoutAssumption DEF TypeOK, TurnSteps
  <2>3. Work = 1 + TurnSteps * TurnsLeft /\ TurnsLeft \in 0 .. N - 1
      BY <2>1, WorkBound DEF Work, StepsLeft
  <2>4. TurnSteps' = TurnSteps
      BY DEF TurnSteps
  <2>5. CASE NextTurn("isr")
    <3>1. /\ mode["isr"] = "bcast" /\ mode'["isr"] = "bcast" /\ pc'["isr"] = "iface"
          /\ want'["isr"] = want["isr"] + 1
        BY <1>0, <2>1, <2>2, <2>5 DEF NextTurn, Begin
    <3>2. TurnsLeft' = TurnsLeft - 1
      <4>1. want["isr"] \in 0 .. N - 1
          BY <1>0, <2>2 DEF PS
      <4>2. TurnsLeft = N - 1 - want["isr"] /\ TurnsLeft' = N - 1 - want'["isr"]
          BY <3>1 DEF TurnsLeft
      <4> QED
          BY <2>2, <3>1, <4>1, <4>2
    <3>3. StepsLeft' = TurnSteps
        BY <2>4, <3>1 DEF StepsLeft
    <3>4. Work' = TurnSteps + TurnSteps * (TurnsLeft - 1)
        BY <2>4, <3>2, <3>3 DEF Work
    <3>5. TurnSteps + TurnSteps * (TurnsLeft - 1) = TurnSteps * TurnsLeft
        BY <2>2, <2>3
    <3>6. TurnSteps * TurnsLeft \in Nat
        BY <2>2, <2>3
    <3>7. Work' < Work
        BY <2>3, <3>4, <3>5, <3>6
    <3> QED
        BY <2>1, <3>1, <3>7 DEF PollInv
  <2>6. CASE Finish("isr")
    <3>1. mode'["isr"] = "single" /\ pc'["isr"] = "idle"
        BY <1>0, <2>2, <2>6 DEF Finish
    <3>2. Work' = 0 + TurnSteps * 0
        BY <2>4, <3>1 DEF Work, StepsLeft, TurnsLeft
    <3>3. TurnSteps * TurnsLeft \in Nat
        BY <2>2, <2>3
    <3>4. Work' < Work
        BY <2>2, <2>3, <3>2, <3>3
    <3> QED
        BY <2>1, <3>1, <3>4 DEF PollInv
  <2> QED
      BY <1>5, <2>5, <2>6 DEF Return
<1>6. ~SweepLoad("isr") /\ ~SweepStore("isr")
    BY DEF SweepLoad, SweepStore, Safe, MailboxInv
<1> QED
    BY <1>1, <1>2, <1>3, <1>4, <1>5, <1>6 DEF Step

\* Every step keeps PollInv: the interrupt's own by StepLowers, the others by
\* leaving its locals and ulTimeout alone.
LEMMA PollsCounted ==
    ASSUME TypeOK, TypeOK', Safe, PollInv, [Next]_vars
    PROVE  PollInv'
<1>1. CASE Step("isr")
    BY <1>1, StepLowers
<1>2. CASE pc["isr"] = "idle"
    BY <1>2, IdleMoves DEF PollInv
<1>3. CASE pc["isr"] # "idle" /\ ~Step("isr")
    BY <1>3, OthersWait DEF PollInv
<1> QED
    BY <1>1, <1>2, <1>3

\* For every number of supplies and every poll limit a packet costs the interrupt at
\* most N * TurnSteps accesses, whatever the C28 and the call it has preempted do; so
\* the wait for the other core, in which nothing else on the ARM runs, ends by itself.
THEOREM InterruptBounded == Spec => IsrBounded
<1>1. TypeOK /\ TypeOK' /\ Safe /\ PollInv /\ [Next]_vars => PollInv'
    BY PollsCounted
<1>2. TypeOK /\ TypeOK' /\ Safe /\ PollInv /\ [Next]_vars
        => [IF pc["isr"] = "idle" THEN Work' <= N * TurnSteps
            ELSE IF pc' = pc THEN Work' = Work
            ELSE Work' < Work]_vars
  <2> SUFFICES ASSUME TypeOK, TypeOK', Safe, PollInv, [Next]_vars
               PROVE  IF pc["isr"] = "idle" THEN Work' <= N * TurnSteps
                      ELSE IF pc' = pc THEN Work' = Work
                      ELSE Work' < Work
      OBVIOUS
  <2>1. Work' <= N * TurnSteps
      BY WorkBoundNext
  <2>2. CASE Step("isr")
      BY <2>1, <2>2, StepLowers
  <2>3. CASE pc["isr"] # "idle" /\ ~Step("isr")
    <3>1. UNCHANGED <<pc, mode, want, tmp, ulTimeout>>
        BY <2>3, OthersWait
    <3>2. Work' = Work
        BY <3>1 DEF Work, StepsLeft, TurnSteps, TurnsLeft, PollsLeft
    <3> QED
        BY <2>3, <3>1, <3>2
  <2> QED
      BY <2>1, <2>2, <2>3
<1> QED
    BY <1>1, <1>2, InitPolls, TypeCorrect, MailboxSafe, PTL DEF Spec, IsrBounded
=============================================================================
