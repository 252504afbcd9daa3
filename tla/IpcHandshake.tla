---------------------------- MODULE IpcHandshake ----------------------------
(***************************************************************************)
(* The command path of the ARM core down to the mailbox of the C28 core.   *)
(*                                                                         *)
(* Two execution contexts of the ARM run the BSMP functions:               *)
(*   "isr"   isr_rs485, which executes a received packet inside the        *)
(*           interrupt (priority 0), once or, for a broadcast, once per    *)
(*           power supply;                                                 *)
(*   "main"  TaskCheck in the endless loop of main(): the packets of the   *)
(*           local display (IHM) and the timed tasks that hand control     *)
(*           back to the remote interface and lock the supplies again.     *)
(* The interrupt preempts the main loop between any two accesses to        *)
(* shared memory and runs to completion; the C28 runs in parallel with     *)
(* both.  The CAN interrupt has the priority of the RS-485 one, so the two *)
(* never interrupt each other.                                             *)
(*                                                                         *)
(* Both contexts share ulTimeout, g_current_ps_id, the payload g_ipc_mtoc  *)
(* and the one mailbox, MSG_ID_MTOC and the MTOCIPC flag register.         *)
(***************************************************************************)
EXTENDS BsmpCommands, FiniteSets

CONSTANTS
    N,                   \* NUM_MAX_PS_MODULES
    NUM_PS_MODULES,      \* the supplies the timed tasks visit
    TIMEOUT_DSP_IPC_ACK, \* polls before DSP_Timeout
    Inputs,              \* values a packet may carry
    RemoteCmds,          \* functions the RS-485 host calls
    LocalCmds,           \* functions the display calls
    Itlks,               \* interlock numbers the CAN messages may carry
    ItlkModules,         \* modules whose registers every reset clears
    BootInterface,       \* the parameter Command_Interface
    IsDCLink,            \* TRUE for the model FBP_DCLink
    MaxFrames,           \* bound on the packets a host sends...
    FrameCost            \* ... which FrameCost = 0 lifts

PS == 0 .. N - 1
Vals == 0 .. 8 \cup Inputs \cup Itlks

ASSUME NAssumption ==
    /\ N \in Nat \ {0}
    /\ NUM_PS_MODULES \in 0 .. N
ASSUME TimeoutAssumption == TIMEOUT_DSP_IPC_ACK \in Nat \ {0}
ASSUME CmdsAssumption ==
    /\ RemoteCmds \subseteq CmdType
    /\ LocalCmds \subseteq CmdType
ASSUME DataAssumption ==
    /\ Inputs \subseteq Nat
    /\ Itlks \subseteq Nat
    /\ ItlkModules \subseteq PS
    /\ BootInterface \in {Remote, Local}
    /\ IsDCLink \in BOOLEAN
    /\ MaxFrames \in Nat
    /\ FrameCost \in {0, 1}

VARIABLES
    \* The two contexts.
    pc,        \* where each is in the skeleton
    cmd,       \* the function it executes
    val,       \* the packet's input
    want,      \* the power supply the caller means
    mode,      \* "single", "bcast" or "task"
    arg,       \* the msg_id argument of the send
    dst, word, \* the half word of ps_status a bit field store works on
    tmp,       \* the register of ulTimeout++
    polls,     \* increments done by the call (history)
    ack,       \* the answer
    \* Shared by the contexts.
    ulTimeout, g_current_ps_id, tasks, pot, frames,
    \* Shared by the cores.
    flg, msg_id, mtoc, itlkReg, ctom, ctomItlk,
    \* The C28, and the messages it has not taken yet (history).
    latch, pend

locals == <<pc, cmd, val, want, mode, arg, dst, word, tmp, polls, ack>>
arm == <<ulTimeout, g_current_ps_id, tasks, pot, frames>>
dsp == <<ctom, ctomItlk, latch>>
vars == <<pc, cmd, val, want, mode, arg, dst, word, tmp, polls, ack,
          ulTimeout, g_current_ps_id, tasks, pot, frames,
          flg, msg_id, mtoc, itlkReg, ctom, ctomItlk, latch, pend>>

Ctx == {"isr", "main"}
Kinds == {"hard", "soft"}
Tasks == {"CLEAR_ITLK_ALARM", "RESET_COMMAND_INTERFACE", "LOCK_UDC"}
ItlkFlag(k) == IF k = "hard" THEN HARD_INTERLOCK ELSE SOFT_INTERLOCK
Memory == [PS -> [Fields -> Vals]]

\* Mutant of Runs: the RS-485 interrupt left at a priority that does not keep
\* the main loop waiting.
RunsAnyway(c) == TRUE

\* The interrupt is never suspended by the main loop.
Runs(c) == c = "main" => pc["isr"] = "idle"

\* Context c leaves location a for b.
Go(c, a, b) == Runs(c) /\ pc[c] = a /\ pc' = [pc EXCEPT ![c] = b]

\* The call of c ends with answer a; "ret" decides what comes next.
Answer(c, a) == ack' = [ack EXCEPT ![c] = a]

\* Dead locals are set back to zero.
Zero == [f \in Fields |-> 0]
NoCall == bsmp_turn_off

\* init_ipc, and the status the C28 reports once it has read it.
InitMemory == [p \in PS |-> [Zero EXCEPT !["interface"] = BootInterface]]

Init ==
    /\ pc = [c \in Ctx |-> "idle"]
    /\ cmd = [c \in Ctx |-> NoCall]
    /\ val = [c \in Ctx |-> 0]
    /\ want = [c \in Ctx |-> 0]
    /\ mode = [c \in Ctx |-> "single"]
    /\ arg = [c \in Ctx |-> 0]
    /\ dst = [c \in Ctx |-> 0]
    /\ word = [c \in Ctx |-> Zero]
    /\ tmp = [c \in Ctx |-> 0]
    /\ polls = [c \in Ctx |-> 0]
    /\ ack = [c \in Ctx |-> NoAnswer]
    /\ ulTimeout = 0 /\ g_current_ps_id = 0 /\ tasks = {}
    /\ pot = 0 /\ frames = 0
    /\ flg = {} /\ msg_id = 0
    /\ mtoc = InitMemory
    /\ itlkReg = [k \in Kinds |-> [p \in PS |-> 0]]
    /\ ctom = InitMemory
    /\ ctomItlk = [k \in Kinds |-> [p \in PS |-> {}]]
    /\ latch = [full |-> FALSE, bits |-> {}, id |-> 0]
    /\ pend = {}

----------------------------------------------------------------------------
(* Calls.                                                                  *)

\* A context starts a call for power supply p at location loc.
Begin(c, cm, v, p, m, loc) ==
    /\ pc' = [pc EXCEPT ![c] = loc]
    /\ cmd' = [cmd EXCEPT ![c] = cm]
    /\ val' = [val EXCEPT ![c] = v]
    /\ want' = [want EXCEPT ![c] = p]
    /\ mode' = [mode EXCEPT ![c] = m]
    /\ polls' = [polls EXCEPT ![c] = 0]
    /\ ack' = [ack EXCEPT ![c] = NoAnswer]
    /\ UNCHANGED <<arg, dst, word, tmp>>

\* rs485_process_data: a valid packet for one address.
rs485_process_data(p, cm, v) ==
    /\ pc["isr"] = "idle" /\ frames + FrameCost <= MaxFrames
    /\ frames' = frames + FrameCost
    /\ g_current_ps_id' = p
    /\ Begin("isr", cm, v, p, "single", "iface")
    /\ UNCHANGED <<ulTimeout, tasks, pot, flg, msg_id, mtoc, itlkReg, dsp, pend>>

\* rs485_process_data: a valid packet for BCAST_ADDRESS; the loop's first turn.
rs485_broadcast(cm, v) ==
    /\ pc["isr"] = "idle" /\ frames + FrameCost <= MaxFrames
    /\ frames' = frames + FrameCost
    /\ g_current_ps_id' = 0
    /\ Begin("isr", cm, v, 0, "bcast", "iface")
    /\ UNCHANGED <<ulTimeout, tasks, pot, flg, msg_id, mtoc, itlkReg, dsp, pend>>

\* ihm_process_data: TaskCheck serves it before the tasks below.
ihm_process_data(p, cm, v) ==
    /\ pc["isr"] = "idle" /\ pc["main"] = "idle"
    /\ frames + FrameCost <= MaxFrames
    /\ frames' = frames + FrameCost
    /\ g_current_ps_id' = p
    /\ Begin("main", cm, v, p, "single", "iface")
    /\ UNCHANGED <<ulTimeout, tasks, pot, flg, msg_id, mtoc, itlkReg, dsp, pend>>

\* The tests of TaskCheck are an else-if chain: the earlier flags are down.
TaskDue(t, earlier) ==
    /\ pc["isr"] = "idle" /\ pc["main"] = "idle"
    /\ t \in tasks /\ tasks \cap earlier = {}
    /\ tasks' = tasks \ {t}

\* ITLK_ALARM_RESET: the CAN reset messages to the interlock boards.
TaskClearItlkAlarm ==
    /\ TaskDue("CLEAR_ITLK_ALARM", {})
    /\ UNCHANGED <<locals, ulTimeout, g_current_ps_id, pot, frames, flg,
                   msg_id, mtoc, itlkReg, dsp, pend>>

\* RESET_COMMAND_INTERFACE_REQUEST: all interfaces to Remote, then function
\* 6 of every server.  The loop does not set g_current_ps_id.
TaskResetCommandInterface ==
    /\ TaskDue("RESET_COMMAND_INTERFACE", {"CLEAR_ITLK_ALARM"})
    /\ Begin("main", bsmp_set_command_interface, Remote, 0, "task", "sweep")
    /\ UNCHANGED <<ulTimeout, g_current_ps_id, pot, frames, flg, msg_id, mtoc,
                   itlkReg, dsp, pend>>

\* ps_status.bit.interface = Remote, one supply after the other: a store to a
\* bit field first loads the half word it is in.
SweepLoad(c) ==
    /\ Go(c, "sweep", "swept")
    /\ word' = [word EXCEPT ![c] = mtoc[want[c]]]
    /\ UNCHANGED <<cmd, val, want, mode, arg, dst, tmp, polls, ack, arm, flg,
                   msg_id, mtoc, itlkReg, dsp, pend>>

\* Mutant of AfterSweep: the C28 is not told.
AfterSweepNothing == "ret"

AfterSweep == IF NUM_PS_MODULES > 0 THEN "enter" ELSE "ret"

SweepStore(c) ==
    LET more == want[c] + 1 < N
    IN
    /\ Go(c, "swept", IF more THEN "sweep" ELSE AfterSweep)
    /\ mtoc' = [mtoc EXCEPT ![want[c]] = [f \in Fields |->
                    IF f = "interface" THEN Remote
                    ELSE IF f \in StatusFields THEN word[c][f] ELSE @[f]]]
    /\ want' = [want EXCEPT ![c] = IF more THEN @ + 1 ELSE 0]
    /\ word' = [word EXCEPT ![c] = Zero]
    /\ UNCHANGED <<cmd, val, mode, arg, dst, tmp, polls, ack, arm, flg, msg_id,
                   itlkReg, dsp, pend>>

\* Mutant of TaskLockUdc: the call goes through the interface test of a display
\* packet.
TaskLockUdcAsDisplay ==
    /\ TaskDue("LOCK_UDC", {"CLEAR_ITLK_ALARM", "RESET_COMMAND_INTERFACE"})
    /\ Begin("main", bsmp_lock_udc, 0, 0, "task", "iface")
    /\ UNCHANGED <<ulTimeout, g_current_ps_id, pot, frames, flg, msg_id,
                   mtoc, itlkReg, dsp, pend>>

\* LOCK_UDC_REQUEST: function 9 of every server, with the right password.
TaskLockUdc ==
    /\ TaskDue("LOCK_UDC", {"CLEAR_ITLK_ALARM", "RESET_COMMAND_INTERFACE"})
    /\ IF NUM_PS_MODULES > 0
       THEN Begin("main", bsmp_lock_udc, 0, 0, "task", "enter")
       ELSE UNCHANGED locals
    /\ UNCHANGED <<ulTimeout, g_current_ps_id, pot, frames, flg, msg_id,
                   mtoc, itlkReg, dsp, pend>>

\* BSMPprocess: commands are refused unless they come over the interface the
\* C28 reports for g_current_ps_id; function 6 is always let through.
InterfaceAllows(c) ==
    \/ ctom[g_current_ps_id]["interface"] = (IF c = "isr" THEN Remote ELSE Local)
    \/ cmd[c].func = 6

BSMPprocess(c) ==
    /\ IF InterfaceAllows(c)
       THEN Go(c, "iface", "enter") /\ UNCHANGED ack
       ELSE /\ Go(c, "iface", "ret")
            /\ Answer(c, IF c = "isr" THEN PS_is_Local ELSE Invalid_Command)
    /\ UNCHANGED <<cmd, val, want, mode, arg, dst, word, tmp, polls, arm, flg,
                   msg_id, mtoc, itlkReg, dsp, pend>>

----------------------------------------------------------------------------
(* The skeleton of a BSMP function.                                        *)

GateOpen(cm, p) ==
    CASE cm.gate = "none" -> TRUE
      [] cm.gate = "offOrUnlocked" -> \/ ctom[p]["state"] = Off
                                      \/ ctom[p]["unlocked"] = 1
      [] cm.gate = "unlocked" -> ctom[p]["unlocked"] = 1

\* The value a function writes.
Payload(cm, v) == IF cm.value = FromInput THEN v ELSE cm.value

\* The shared memory after the writes that precede the busy test.  The "TODO:
\* fix this temporary solution" copies the sync_mode of supply 0 to the others.
PreWrite(cm, v, p) ==
    CASE cm.pre = "scope" -> [mtoc EXCEPT ![0]["scope_status"] = Payload(cm, v)]
      [] cm.pre = "wfmref" ->
            [mtoc EXCEPT ![p] = [f \in Fields |->
                IF f \in {"wfmref", "sync_mode"} THEN v ELSE @[f]]]
      [] cm.pre \in {"sync", "wfmref_sync"} ->
            [q \in PS |-> [f \in Fields |->
                IF f = "sync_mode" THEN mtoc[0][f]
                ELSE IF f = "wfmref" /\ q = p /\ cm.pre = "wfmref_sync" THEN v
                ELSE mtoc[q][f]]]
      [] cm.pre = "coeffs" -> [mtoc EXCEPT ![0]["coeffs"] = v]
      [] OTHER -> mtoc

\* Mutant of ClearTimeout: ulTimeout keeps what the previous call left.
KeepTimeout(cm, open) == ulTimeout

\* ulTimeout = 0, where the function has it.
ClearTimeout(cm, open) ==
    IF cm.reset = "first" \/ (cm.reset = "gated" /\ open) THEN 0 ELSE ulTimeout

\* From the function's entry to its busy test.
Enter(c) ==
    \E valid \in (IF cmd[c].fallible /\ mode[c] # "task" THEN BOOLEAN ELSE {TRUE}) :
    LET cm == cmd[c]
        p == g_current_ps_id
        open == GateOpen(cm, p)
    IN
    /\ IF open /\ valid
       THEN Go(c, "enter", "check") /\ UNCHANGED ack
       ELSE /\ Go(c, "enter", "ret")
            /\ Answer(c, IF open THEN Invalid_Command ELSE PS_Locked)
    /\ ulTimeout' = ClearTimeout(cm, open)
    /\ mtoc' = IF open /\ valid THEN PreWrite(cm, val[c], p) ELSE mtoc
    /\ itlkReg' = IF cm.pre = "itlk"
                  THEN [k \in Kinds |-> [q \in PS |->
                          IF q \in {p} \cup ItlkModules THEN 0 ELSE itlkReg[k][q]]]
                  ELSE itlkReg
    /\ UNCHANGED <<cmd, val, want, mode, arg, dst, word, tmp, polls,
                   g_current_ps_id, tasks, pot, frames, flg, msg_id, dsp, pend>>

\* The test of cfg_wfmref and select_wfmref also compares two pointers the C28
\* moves; playing is their outcome.
ResourceBusy(cm, p, playing) ==
    CASE cm.busyIf = "playing" -> ctom[p]["state"] \in {RmpWfm, MigWfm} /\ playing
      [] cm.busyIf = "siggen" -> ctom[p]["siggen_enable"] = 1
      [] OTHER -> FALSE

\* Mutant of ipc_mtoc_busy: only the same message counts as pending.
ipc_mtoc_busy_same(reg) == reg \subseteq flg

\* The strobe is common to all low priority messages: any of them is found.
ipc_mtoc_busy(reg) == flg \cap reg # {}

\* The busy test and the resource test.
CheckBusy(c) ==
    /\ IF ipc_mtoc_busy(Reg(cmd[c]))
       THEN Go(c, "check", "ret") /\ Answer(c, DSP_Busy) /\ UNCHANGED tasks
       ELSE \E playing \in BOOLEAN :
            IF ResourceBusy(cmd[c], g_current_ps_id, playing)
            THEN Go(c, "check", "ret") /\ Answer(c, Resource_Busy)
                 /\ UNCHANGED tasks
            ELSE /\ Go(c, "check", "load") /\ UNCHANGED ack
                 /\ tasks' = IF cmd[c].alarm
                             THEN tasks \cup {"CLEAR_ITLK_ALARM"} ELSE tasks
    /\ UNCHANGED <<cmd, val, want, mode, arg, dst, word, tmp, polls,
                   ulTimeout, g_current_ps_id, pot, frames, flg, msg_id,
                   mtoc, itlkReg, dsp, pend>>

\* A store to a bit field first loads the half word it is in.
LoadStatus(c) ==
    /\ Go(c, "load", "store")
    /\ dst' = [dst EXCEPT ![c] = IF cmd[c].toZero THEN 0 ELSE g_current_ps_id]
    /\ word' = [word EXCEPT ![c] = mtoc[g_current_ps_id]]
    /\ UNCHANGED <<cmd, val, want, mode, arg, tmp, polls, ack, arm, flg, msg_id,
                   mtoc, itlkReg, dsp, pend>>

\* Mutant of PayloadWrite: the loop over all supplies ends after the first.
PayloadWriteOne(cm, v, p, w) ==
    [q \in PS |-> [f \in Fields |->
        IF f = cm.field /\ q = p THEN Payload(cm, v)
        ELSE IF f \in StatusFields /\ cm.field \in StatusFields /\ q = p THEN w[f]
        ELSE mtoc[q][f]]]

\* The shared memory after the payload is stored.
PayloadWrite(cm, v, p, w) ==
    [q \in PS |-> [f \in Fields |->
        IF f = cm.field /\ (q = p \/ cm.all) THEN Payload(cm, v)
        ELSE IF f \in StatusFields /\ cm.field \in StatusFields /\ q = p THEN w[f]
        ELSE mtoc[q][f]]]

StorePayload(c) ==
    /\ Go(c, "store", "arg")
    /\ mtoc' = PayloadWrite(cmd[c], val[c], dst[c], word[c])
    /\ dst' = [dst EXCEPT ![c] = 0]
    /\ word' = [word EXCEPT ![c] = Zero]
    /\ UNCHANGED <<cmd, val, want, mode, arg, tmp, polls, ack, arm, flg,
                   msg_id, itlkReg, dsp, pend>>

\* The arguments of the send are evaluated.
LoadArg(c) ==
    /\ Go(c, "arg", IF cmd[c].kind = "sync" THEN "probe" ELSE "id")
    /\ arg' = [arg EXCEPT ![c] = IF cmd[c].toZero THEN 0 ELSE g_current_ps_id]
    /\ UNCHANGED <<cmd, val, want, mode, dst, word, tmp, polls, ack, arm, flg,
                   msg_id, mtoc, itlkReg, dsp, pend>>

\* send_ipc_msg sends nothing unless the whole flag register is clear.
send_ipc_msg(c) ==
    /\ Go(c, "probe", IF flg = {} THEN "id" ELSE "wait")
    /\ UNCHANGED <<cmd, val, want, mode, arg, dst, word, tmp, polls, ack, arm, flg,
                   msg_id, mtoc, itlkReg, dsp, pend>>

\* Mutant of WriteMsgId: takes over the idle test of send_ipc_msg.
WriteMsgIdIfIdle(c) ==
    /\ Go(c, "id", "set")
    /\ msg_id' = IF flg = {} THEN arg[c] ELSE msg_id
    /\ UNCHANGED <<cmd, val, want, mode, arg, dst, word, tmp, polls, ack, arm, flg,
                   mtoc, itlkReg, dsp, pend>>

\* MSG_ID_MTOC = msg_id
WriteMsgId(c) ==
    /\ Go(c, "id", "set")
    /\ msg_id' = arg[c]
    /\ UNCHANGED <<cmd, val, want, mode, arg, dst, word, tmp, polls, ack, arm, flg,
                   mtoc, itlkReg, dsp, pend>>

\* What the sender means: the function's message, for the supply its caller named.
Message(c) == [ctx |-> c, msg |-> cmd[c].msg, id |-> arg[c],
               want |-> IF cmd[c].toZero THEN 0 ELSE want[c],
               field |-> cmd[c].field]

\* MTOCIPCSET |= ...: the register reads as zero, a write sets bits, and those
\* already set stay.
send_ipc_lowpriority_msg(c) ==
    /\ Go(c, "set", "wait")
    /\ flg' = flg \cup Reg(cmd[c])
    /\ pend' = IF cmd[c].kind = "low" THEN pend \cup {Message(c)} ELSE pend
    /\ arg' = [arg EXCEPT ![c] = 0]
    /\ UNCHANGED <<cmd, val, want, mode, dst, word, tmp, polls, ack, arm,
                   msg_id, mtoc, itlkReg, dsp>>

\* while ((MTOCIPCFLG & reg) && ...
PollFlag(c) ==
    /\ Go(c, "wait", IF flg \cap Reg(cmd[c]) # {} THEN "limit" ELSE "judge")
    /\ UNCHANGED <<cmd, val, want, mode, arg, dst, word, tmp, polls, ack, arm, flg,
                   msg_id, mtoc, itlkReg, dsp, pend>>

\* Mutant of PollLimit: one poll too many, which the test for equality misses.
PollLimitInclusive(c) ==
    /\ Go(c, "limit", IF ulTimeout <= TIMEOUT_DSP_IPC_ACK THEN "read" ELSE "judge")
    /\ UNCHANGED <<cmd, val, want, mode, arg, dst, word, tmp, polls, ack, arm, flg,
                   msg_id, mtoc, itlkReg, dsp, pend>>

\* ... && (ulTimeout < TIMEOUT_DSP_IPC_ACK))
PollLimit(c) ==
    /\ Go(c, "limit", IF ulTimeout < TIMEOUT_DSP_IPC_ACK THEN "read" ELSE "judge")
    /\ UNCHANGED <<cmd, val, want, mode, arg, dst, word, tmp, polls, ack, arm, flg,
                   msg_id, mtoc, itlkReg, dsp, pend>>

\* ulTimeout++ loads...
ReadCounter(c) ==
    /\ Go(c, "read", "inc")
    /\ tmp' = [tmp EXCEPT ![c] = ulTimeout]
    /\ UNCHANGED <<cmd, val, want, mode, arg, dst, word, polls, ack, arm, flg,
                   msg_id, mtoc, itlkReg, dsp, pend>>

\* Mutant of IncrementCounter: an empty loop body.
IncrementNothing(c) ==
    /\ Go(c, "inc", "wait")
    /\ tmp' = [tmp EXCEPT ![c] = 0]
    /\ UNCHANGED <<cmd, val, want, mode, arg, dst, word, polls, ack, arm, flg,
                   msg_id, mtoc, itlkReg, dsp, pend>>

\* ... and stores.
IncrementCounter(c) ==
    /\ Go(c, "inc", "wait")
    /\ ulTimeout' = tmp[c] + 1
    /\ polls' = [polls EXCEPT ![c] = @ + 1]
    /\ tmp' = [tmp EXCEPT ![c] = 0]
    /\ UNCHANGED <<cmd, val, want, mode, arg, dst, word, ack,
                   g_current_ps_id, tasks, pot, frames, flg, msg_id, mtoc,
                   itlkReg, dsp, pend>>

\* The test after the loop and what follows an acknowledge: on FBP_DCLink the
\* digital potentiometer gives the set-point or takes the reference.
Judge(c) ==
    LET done == ulTimeout # TIMEOUT_DSP_IPC_ACK
    IN
    /\ Go(c, "judge", "ret")
    /\ Answer(c, IF done THEN Ok ELSE DSP_Timeout)
    /\ mtoc' = IF done /\ IsDCLink /\ cmd[c].after = "readPot"
               THEN [mtoc EXCEPT ![0]["setpoint"] = pot] ELSE mtoc
    /\ pot' = IF done /\ IsDCLink /\ cmd[c].after = "writePot"
              THEN ctom[0]["setpoint"] ELSE pot
    /\ UNCHANGED <<cmd, val, want, mode, arg, dst, word, tmp, polls, ulTimeout,
                   g_current_ps_id, tasks, frames, flg, msg_id, itlkReg, dsp, pend>>

\* Mutant of NextTurn: one power supply too many.
NextTurnInclusive(c) ==
    /\ mode[c] = "bcast" /\ want[c] + 1 <= N
    /\ g_current_ps_id' = want[c] + 1
    /\ Begin(c, cmd[c], val[c], want[c] + 1, "bcast", "iface")

\* Mutant of NextTurn: g_current_ps_id is set before the loop only.
NextTurnStale(c) ==
    /\ mode[c] = "bcast" /\ want[c] + 1 < N
    /\ g_current_ps_id' = g_current_ps_id
    /\ Begin(c, cmd[c], val[c], want[c] + 1, "bcast", "iface")

\* The next turn of a broadcast sets g_current_ps_id; that of a task does not.
NextTurn(c) ==
    \/ /\ mode[c] = "bcast" /\ want[c] + 1 < N
       /\ g_current_ps_id' = want[c] + 1
       /\ Begin(c, cmd[c], val[c], want[c] + 1, "bcast", "iface")
    \/ /\ mode[c] = "task" /\ want[c] + 1 < NUM_PS_MODULES
       /\ g_current_ps_id' = g_current_ps_id
       /\ Begin(c, cmd[c], val[c], want[c] + 1, "task", "enter")

LastTurn(c) == \/ mode[c] = "single"
               \/ mode[c] = "bcast" /\ want[c] + 1 >= N
               \/ mode[c] = "task" /\ want[c] + 1 >= NUM_PS_MODULES

\* The packet or task is done; the dead locals are forgotten.
Finish(c) ==
    /\ pc' = [pc EXCEPT ![c] = "idle"]
    /\ cmd' = [cmd EXCEPT ![c] = NoCall]
    /\ val' = [val EXCEPT ![c] = 0]
    /\ want' = [want EXCEPT ![c] = 0]
    /\ mode' = [mode EXCEPT ![c] = "single"]
    /\ arg' = [arg EXCEPT ![c] = 0]
    /\ dst' = [dst EXCEPT ![c] = 0]
    /\ word' = [word EXCEPT ![c] = Zero]
    /\ tmp' = [tmp EXCEPT ![c] = 0]
    /\ polls' = [polls EXCEPT ![c] = 0]
    /\ ack' = [ack EXCEPT ![c] = NoAnswer]
    /\ UNCHANGED g_current_ps_id

Return(c) ==
    /\ Runs(c) /\ pc[c] = "ret"
    /\ NextTurn(c) \/ (LastTurn(c) /\ Finish(c))
    /\ UNCHANGED <<ulTimeout, tasks, pot, frames, flg, msg_id, mtoc, itlkReg,
                   dsp, pend>>

----------------------------------------------------------------------------
(* Interrupts that do not run BSMP functions.                              *)

\* set_hard_interlock and set_soft_interlock, called by the CAN interrupt:
\* ARM code cannot interleave, and the C28 reads nothing until the flag is up.
set_interlock(k, p, i) ==
    /\ pc["isr"] = "idle"
    /\ i \notin ctomItlk[k][p]
    /\ itlkReg' = [itlkReg EXCEPT ![k][p] = i]
    /\ IF flg = {}
       THEN msg_id' = p /\ flg' = {ItlkFlag(k)}
       ELSE UNCHANGED <<msg_id, flg>>
    /\ UNCHANGED <<locals, arm, mtoc, dsp, pend>>

\* isr_global_timer, when a counter of milliseconds spent in the local
\* interface, or unlocked, runs out.
isr_global_timer(t) ==
    /\ pc["isr"] = "idle"
    /\ \/ /\ t = "RESET_COMMAND_INTERFACE"
          /\ \E p \in PS : ctom[p]["interface"] = Local
       \/ /\ t = "LOCK_UDC"
          /\ \E p \in PS : ctom[p]["unlocked"] = 1
    /\ tasks' = tasks \cup {t}
    /\ UNCHANGED <<locals, ulTimeout, g_current_ps_id, pot, frames, flg, msg_id,
                   mtoc, itlkReg, dsp, pend>>

----------------------------------------------------------------------------
(* The C28 core, from how the ARM code uses it: its interrupt reads the    *)
(* message and MSG_ID_MTOC and acknowledges; the effect on g_ipc_ctom      *)
(* comes later (bsmp_set_slowref waits 10 us for it).                      *)

C28Take ==
    /\ IPC_MTOC_LOWPRIORITY_MSG \in flg /\ ~latch.full
    /\ latch' = [full |-> TRUE, bits |-> flg \cap LowBits, id |-> msg_id]
    /\ flg' = flg \ LowBits
    /\ pend' = {}
    /\ UNCHANGED <<locals, arm, msg_id, mtoc, itlkReg, ctom, ctomItlk>>

\* The fields of g_ipc_mtoc a message makes the C28 copy.
Copied(m) ==
    CASE m \in {Turn_On, Turn_Off, Operating_Mode} -> {"state"}
      [] m \in {Open_Loop, Close_Loop} -> {"openloop"}
      [] m = Set_Command_Interface -> {"interface"}
      [] m \in {Set_SlowRef, Set_SlowRef_All_PS} -> {"setpoint"}
      [] m \in {Cfg_SigGen, Set_SigGen} -> {"siggen"}
      [] OTHER -> {}

\* The C28's view of power supply q after message m for supply p.
Updated(m, p, q) ==
    IF q # p /\ m # Set_SlowRef_All_PS THEN ctom[q]
    ELSE [f \in Fields |->
            IF f \in Copied(m) THEN mtoc[q][f]
            ELSE IF f = "unlocked" /\ m \in {Unlock_UDC, Lock_UDC}
                 THEN (IF m = Unlock_UDC THEN 1 ELSE 0)
            ELSE IF f = "siggen_enable" /\ m \in {Enable_SigGen, Disable_SigGen}
                 THEN (IF m = Enable_SigGen THEN 1 ELSE 0)
            ELSE IF f = "state" /\ m = Reset_Interlocks THEN Off
            ELSE ctom[q][f]]

\* A code that is no message is ignored.
C28Execute ==
    /\ latch.full
    /\ latch' = [full |-> FALSE, bits |-> {}, id |-> 0]
    /\ \/ \E m \in Msgs :
            /\ low_priority_msg_to_reg(m) = latch.bits
            /\ ctom' = [q \in PS |-> Updated(m, latch.id, q)]
            /\ ctomItlk' = IF m # Reset_Interlocks THEN ctomItlk
                           ELSE [k \in Kinds |-> [ctomItlk[k] EXCEPT ![latch.id] = {}]]
       \/ /\ \A m \in Msgs : low_priority_msg_to_reg(m) # latch.bits
          /\ UNCHANGED <<ctom, ctomItlk>>
    /\ UNCHANGED <<locals, arm, flg, msg_id, mtoc, itlkReg, pend>>

C28TakeSync ==
    /\ SYNC_PULSE \in flg
    /\ flg' = flg \ {SYNC_PULSE}
    /\ UNCHANGED <<locals, arm, msg_id, mtoc, itlkReg, dsp, pend>>

C28TakeItlk(k) ==
    /\ ItlkFlag(k) \in flg
    /\ flg' = flg \ {ItlkFlag(k)}
    /\ ctomItlk' = [ctomItlk EXCEPT ![k][msg_id] = @ \cup {itlkReg[k][msg_id]}]
    /\ ctom' = [ctom EXCEPT ![msg_id]["state"] = Interlock]
    /\ UNCHANGED <<locals, arm, msg_id, mtoc, itlkReg, latch, pend>>

----------------------------------------------------------------------------
Step(c) ==
    \/ BSMPprocess(c) \/ Enter(c) \/ CheckBusy(c) \/ LoadStatus(c)
    \/ StorePayload(c) \/ LoadArg(c) \/ send_ipc_msg(c) \/ WriteMsgId(c)
    \/ send_ipc_lowpriority_msg(c) \/ PollFlag(c) \/ PollLimit(c)
    \/ ReadCounter(c) \/ IncrementCounter(c) \/ Judge(c) \/ Return(c)
    \/ SweepLoad(c) \/ SweepStore(c)

MainTask == TaskClearItlkAlarm \/ TaskResetCommandInterface \/ TaskLockUdc

Packet ==
    \/ \E p \in PS, cm \in RemoteCmds, v \in Inputs : rs485_process_data(p, cm, v)
    \/ \E cm \in RemoteCmds, v \in Inputs : rs485_broadcast(cm, v)
    \/ \E p \in PS, cm \in LocalCmds, v \in Inputs : ihm_process_data(p, cm, v)

Timer == \E t \in Tasks : isr_global_timer(t)

Can == \E k \in Kinds, p \in PS, i \in Itlks : set_interlock(k, p, i)

C28 == C28Take \/ C28Execute \/ C28TakeSync \/ \E k \in Kinds : C28TakeItlk(k)

Next == Packet \/ (\E c \in Ctx : Step(c)) \/ MainTask \/ Timer \/ Can \/ C28

Spec == Init /\ [][Next]_vars

\* Code runs on: the processor executes the interrupt, and the main loop
\* whenever no interrupt is active.  Nothing is assumed of the C28.
ArmFairness == /\ WF_vars(Step("isr"))
               /\ WF_vars(Step("main"))
               /\ WF_vars(MainTask)

\* The timer interrupt keeps coming and the C28 keeps serving its mailbox.
SystemFairness == /\ ArmFairness
                  /\ \A t \in Tasks : WF_vars(isr_global_timer(t))
                  /\ WF_vars(C28Take) /\ WF_vars(C28Execute)

ArmSpec == Spec /\ ArmFairness
SystemSpec == Spec /\ SystemFairness

----------------------------------------------------------------------------
(* Properties.                                                             *)

Locations == {"idle", "iface", "enter", "check", "load", "store", "arg",
              "probe", "id", "set", "wait", "limit", "read", "inc", "judge",
              "ret", "sweep", "swept"}

MessageType == [ctx : Ctx, msg : Msgs, id : PS, want : PS,
                field : Fields \cup {"none"}]

\* Every variable keeps its type: in particular g_current_ps_id, msg_id and the
\* message ids stay inside the arrays of NUM_MAX_PS_MODULES entries that the
\* code indexes with them.
TypeOK ==
    /\ pc \in [Ctx -> Locations]
    /\ cmd \in [Ctx -> CmdType]
    /\ val \in [Ctx -> Vals]
    /\ want \in [Ctx -> PS]
    /\ mode \in [Ctx -> {"single", "bcast", "task"}]
    /\ arg \in [Ctx -> PS]
    /\ dst \in [Ctx -> PS]
    /\ word \in [Ctx -> [Fields -> Vals]]
    /\ tmp \in [Ctx -> Nat]
    /\ polls \in [Ctx -> Nat]
    /\ ack \in [Ctx -> AckCodes]
    /\ ulTimeout \in Nat /\ g_current_ps_id \in PS
    /\ tasks \subseteq Tasks
    /\ pot \in Vals /\ frames \in Nat
    /\ flg \subseteq FlagBits /\ msg_id \in PS
    /\ mtoc \in Memory /\ ctom \in Memory
    /\ itlkReg \in [Kinds -> [PS -> Vals]]
    /\ ctomItlk \in [Kinds -> [PS -> SUBSET Vals]]
    /\ latch \in [full : BOOLEAN, bits : SUBSET LowBits, id : PS]
    /\ pend \subseteq MessageType

\* Context c has sent a low priority message and polls for its acknowledge.
Polling(c) == /\ cmd[c].kind = "low"
              /\ pc[c] \in {"wait", "limit", "read", "inc", "judge"}

\* The message of an RS-485 packet stays in the mailbox exactly as it was sent,
\* code and power supply, as long as its sender polls for it, and goes to the
\* supply the packet was addressed to, whatever the main loop was doing when the
\* interrupt came and whatever the CAN interrupt reports meanwhile
\* (send_ipc_lowpriority_msg, send_ipc_msg).
IsrMessageIntact ==
    \A q \in pend :
        q.ctx = "isr" /\ Polling("isr") =>
            /\ flg \cap LowBits = low_priority_msg_to_reg(q.msg)
            /\ msg_id = q.id
            /\ q.id = q.want

\* The flags never hold the union of two message codes, a code nobody sent,
\* except after the interrupt has given up on a message (DSP_Timeout) that is
\* still pending: only then can the main loop, past its own busy test, add a
\* second one.
CodeIntact ==
    (\A q \in pend : q.ctx = "isr" => Polling("isr")) =>
        \A q \in pend : flg \cap LowBits = low_priority_msg_to_reg(q.msg)

\* A remote command that clears ulTimeout and is answered Ok has been taken by
\* the C28, even when it interrupted a main loop call that shares ulTimeout.
OkMeansTaken ==
    pc["isr"] = "ret" /\ ack["isr"] = Ok
    /\ cmd["isr"].kind = "low" /\ cmd["isr"].reset # "never"
    => \A q \in pend : q.ctx # "isr"

\* A remote command that clears ulTimeout and is answered DSP_Timeout has polled
\* TIMEOUT_DSP_IPC_ACK times; a stale counter never cuts the wait short.
TimeoutMeansPolled ==
    pc["isr"] = "ret" /\ ack["isr"] = DSP_Timeout /\ cmd["isr"].reset # "never"
    => polls["isr"] = TIMEOUT_DSP_IPC_ACK

\* Context c is past the busy test and has not yet raised its message's flag.
Sending(c) == /\ cmd[c].kind = "low"
              /\ pc[c] \in {"load", "store", "arg", "id", "set"}

\* What makes the three properties of the mailbox inductive: the strobe bit is
\* up exactly while a message is pending, and a context past its busy test has
\* no message in the mailbox, nor, for the interrupt, has anybody else.
MailboxInv ==
    /\ pend = {} => flg \cap LowBits = {}
    /\ pend # {} => IPC_MTOC_LOWPRIORITY_MSG \in flg
    /\ Sending("isr") => pend = {}
    /\ Sending("main") => \A q \in pend : q.ctx = "isr"
    /\ \A c \in Ctx : pc[c] = "probe" => cmd[c].kind = "sync"
    /\ mode["isr"] # "task" /\ pc["isr"] \notin {"sweep", "swept"}
    /\ pc["isr"] # "idle" => g_current_ps_id = want["isr"]
    /\ pc["isr"] \in {"probe", "id", "set"} =>
            arg["isr"] = IF cmd["isr"].toZero THEN 0 ELSE want["isr"]
    /\ pc["isr"] = "set" => msg_id = arg["isr"]

\* ulTimeout in a call of the interrupt that clears it: it counts the polls.
CounterInv ==
    cmd["isr"].reset # "never" =>
        /\ pc["isr"] \in {"check", "load", "store", "arg", "probe", "id", "set",
                          "wait", "limit", "read", "inc", "judge"}
           => ulTimeout <= TIMEOUT_DSP_IPC_ACK /\ ulTimeout = polls["isr"]
        /\ pc["isr"] = "read" => ulTimeout < TIMEOUT_DSP_IPC_ACK
        /\ pc["isr"] = "inc" =>
              tmp["isr"] < TIMEOUT_DSP_IPC_ACK /\ tmp["isr"] = polls["isr"]
        /\ pc["isr"] \in {"iface", "enter"} => polls["isr"] = 0
        /\ pc["isr"] = "judge" /\ cmd["isr"].kind = "low" =>
              ulTimeout = TIMEOUT_DSP_IPC_ACK \/ pend = {}

\* As long as RS-485 is the only source of commands, the message in the mailbox
\* keeps its code, its supply and its payload in g_ipc_mtoc until the C28 takes
\* it, also after the sender has answered DSP_Timeout and other packets came:
\* every later function backs off with DSP_Busy before it writes.
PendingUntouched ==
    [][\A q \in pend \cap pend' :
          /\ flg' \cap LowBits = flg \cap LowBits
          /\ msg_id' = msg_id
          /\ q.field # "none" =>
                \A p \in PS : p = q.id \/ q.msg = Set_SlowRef_All_PS =>
                    mtoc'[p][q.field] = mtoc[p][q.field]]_vars

\* The polls the limit leaves: none if ulTimeout is already beyond it.
PollsLeft == IF ulTimeout < TIMEOUT_DSP_IPC_ACK THEN TIMEOUT_DSP_IPC_ACK - ulTimeout
             ELSE 0

\* The accesses a turn of the interrupt takes at most, from its beginning...
TurnSteps == 4 * TIMEOUT_DSP_IPC_ACK + 13

\* ... and from where it is; a poll is four of them.
StepsLeft ==
    LET l == pc["isr"]
        polling == 4 * PollsLeft
    IN CASE l = "iface" -> TurnSteps
         [] l = "enter" -> TurnSteps - 1
         [] l = "check" -> polling + 11
         [] l = "load"  -> polling + 10
         [] l = "store" -> polling + 9
         [] l = "arg"   -> polling + 8
         [] l = "probe" -> polling + 7
         [] l = "id"    -> polling + 6
         [] l = "set"   -> polling + 5
         [] l = "wait"  -> polling + 4
         [] l = "limit" -> polling + 3
         [] l = "read"  -> polling + 2
         [] l = "inc"   -> polling + 1
         [] l = "judge" -> 2
         [] l = "ret"   -> 1
         [] OTHER -> 0

\* The turns of a broadcast still to come.
TurnsLeft == IF mode["isr"] = "bcast" THEN N - 1 - want["isr"] ELSE 0

Work == StepsLeft + TurnSteps * TurnsLeft

\* The interrupt, which keeps everything else on the ARM waiting, does a bounded
\* number of accesses per packet, whatever the C28 does and whatever value of
\* ulTimeout a call it has preempted has left it: Work bounds what remains, each
\* of its steps lowers it, and no step of anybody else changes it.
IsrBounded ==
    [][IF pc["isr"] = "idle" THEN Work' <= N * TurnSteps
       ELSE IF pc' = pc THEN Work' = Work
       ELSE Work' < Work]_vars

\* A packet from the RS-485 line is always answered: the interrupt, which keeps
\* everything else on the ARM waiting, ends even if the C28 has stopped.
IsrReturns == pc["isr"] # "idle" ~> pc["isr"] = "idle"

\* A call of the main loop ends as well, although the interrupt may reset the
\* counter its poll loop is bounded by, provided the packets pause at some time.
MainReturns == pc["main"] # "idle" ~> pc["main"] = "idle"

\* A power supply that was unlocked is locked again without anybody asking:
\* counter, task and lock message all get through (isr_global_timer, TaskCheck).
AutoLock ==
    \A p \in 0 .. NUM_PS_MODULES - 1 :
        ctom[p]["unlocked"] = 1 ~> ctom[p]["unlocked"] = 0

\* A power supply left under the local interface comes back to the remote one.
AutoRemote ==
    \A p \in 0 .. NUM_PS_MODULES - 1 :
        ctom[p]["interface"] = Local ~> ctom[p]["interface"] = Remote

\* set_hard_interlock and set_soft_interlock: "First, check whether this
\* interlock has already been set. If not, inform C28 which module and interlock
\* and send interrupt request."
InterlockRequestSent ==
    [][\A k \in Kinds, p \in PS, i \in Itlks :
          set_interlock(k, p, i) => ItlkFlag(k) \in flg' /\ msg_id' = p]_vars

\* The module that was given to the C28 with an interlock request stays in
\* MSG_ID_MTOC until the C28 has taken the request ("inform C28 which module").
InterlockModuleKept ==
    [][\A k \in Kinds :
          ItlkFlag(k) \in flg \cap flg' => msg_id' = msg_id]_vars

\* "Turn on the specified power supply", "Open control loop for the specified
\* power supply": a command of the local display goes to the supply its packet
\* was addressed to.
LocalCommandTarget ==
    [][\A q \in pend' \ pend : q.ctx = "main" => q.id = q.want]_vars

----------------------------------------------------------------------------
(* The refinement mapping: what the host and the C28 see of a command that *)
(* comes over RS-485.                                                      *)

\* The supplies whose payload belongs to a message for supply p.
Receivers(field, msg, p) ==
    IF field = "none" THEN {} ELSE IF msg = Set_SlowRef_All_PS THEN PS ELSE {p}

\* No bit is set in the flag register.
NoMessage == [reg |-> {}]

\* The message of function cm, called with v for supply p.
Request(cm, v, p) ==
    LET id == IF cm.toZero THEN 0 ELSE p
    IN IF cm.kind = "sync" THEN NoMessage
       ELSE [reg |-> low_priority_msg_to_reg(cm.msg), id |-> id,
             data |-> [q \in Receivers(cm.field, cm.msg, id) |-> Payload(cm, v)]]

\* The message the C28 would read now.
InBox ==
    IF pend = {} THEN NoMessage
    ELSE LET q == CHOOSE q \in pend : TRUE
         IN [reg |-> flg \cap LowBits, id |-> msg_id,
             data |-> [p \in Receivers(q.field, q.msg, q.id) |-> mtoc[p][q.field]]]

\* The call of the interrupt.
RemoteCall ==
    LET r == Request(cmd["isr"], val["isr"], want["isr"])
    IN CASE pc["isr"] = "idle" -> [stage |-> "none"]
         [] pc["isr"] = "ret" -> [stage |-> "answered", req |-> r, ans |-> ack["isr"]]
         [] Polling("isr") -> [stage |-> "sent", req |-> r]
         [] OTHER -> [stage |-> "asked", req |-> r]

M == INSTANCE Mailbox WITH
        Requests <- {Request(cm, v, p) : cm \in RemoteCmds, v \in Inputs, p \in PS},
        Nothing <- NoMessage, Answers <- AckCodes, call <- RemoteCall, box <- InBox

\* As long as RS-485 is the only source of commands, the functions, the mailbox
\* registers, g_ipc_mtoc and ulTimeout together give the service of Mailbox: the
\* C28 finds the code, the supply and the payload of one command, whole and
\* unchanged, and no command is answered Ok before its message is taken, refused
\* after it was sent, or given up on without having sent it; also by the functions
\* that do not clear ulTimeout.
ImplementsMailbox == M!Service
=============================================================================
