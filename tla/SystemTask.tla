----------------------------- MODULE SystemTask -----------------------------
(***************************************************************************)
(* The main loop (TaskCheck) and the interrupts that feed it: the CAN bus  *)
(* of the interlock boards (can_bkp.c, the handle_can_data of the power    *)
(* supply models), the monitoring ADC (adcp.c) and the global timer.  The  *)
(* serial ports and the tasks that send IPC messages are in                *)
(* SerialReceiver.tla and IpcHandshake.tla.                                *)
(*                                                                         *)
(* An interrupt handler is one step: no handler here shares data with one  *)
(* of a higher priority.  The main loop is preempted between any two       *)
(* accesses to what a handler also writes, so that the test, the load and  *)
(* the store of g_ui32ErrFlag are steps of their own.                      *)
(***************************************************************************)
EXTENDS PsModels, FiniteSets

CONSTANTS
    Models,        \* the power supply models the unit may be configured for
    CanStatus,     \* what the controller may report: sets of status bits
    Rotations,     \* the channels a scan of the ADC may begin with
    MaxEvents,     \* messages, errors, commands and timer interrupts in all
    MaxFrames,     \* messages of the boards among them
    Reports,       \* the messages a board sends, besides the interlocks
    TicksPerSecond \* the timer's count for the slow tasks (1000)

(* Bits of the CAN status.  The last error code is a field of three bits.  *)
StatusBits == {"BUS_OFF", "EWARN", "EPASS", "RXOK", "TXOK", "L0", "L1", "L2",
               "PDA", "WAKE_UP", "PERR"}

ASSUME SystemAssumption ==
    /\ Models \subseteq AllModels
    /\ CanStatus \subseteq SUBSET StatusBits
    /\ Rotations \subseteq 0 .. 7
    /\ Reports \subseteq 0 .. 7
    /\ MaxEvents \in Nat /\ MaxFrames \in Nat /\ TicksPerSecond \in Nat \ {0}

VARIABLES
    model,      \* PS_Model, read once at boot
    flags,      \* the request flags of system_task.c that are set
    main,       \* where the main loop is
    errFlag,    \* g_ui32ErrFlag
    can,        \* the CAN controller
    rxPtr,      \* rx_message_data.pucMsgData points to message_data
    iib,        \* the fields of the boards, by CAN address
    asked,      \* the hard interlocks asked of the C28
    net,        \* the signals of g_controller_mtoc the ARM writes
    adc,        \* SSI receive FIFO, ADCP_RxTable
    timer,      \* time (ms), LedCtrl, led_itlk, a module in state Interlock
    reported,   \* boards that have sent a non-zero interlock register
    handed,     \* addresses handed to the controller in reset messages
    left        \* events and messages that may still come

canVars == <<errFlag, can, rxPtr, iib, asked, net, reported>>
vars == <<model, flags, main, errFlag, can, rxPtr, iib, asked, net, adc, timer,
          reported, handed, left>>

Cfg == SystemConfig[model]
Boards == DOMAIN Cfg.boards

----------------------------------------------------------------------------
(* Words of data, by where they come from: half of a message of a board,   *)
(* a message with an identifier of no board, a sample of a channel.        *)

Zero == <<0, 0, 0>>
Word(a, v, half) == <<a, v, half>>
ForeignWord(half) == <<0, 1, half>>
SampleWord(c) == <<20 + c, 0, 0>>

Foreign == 0
NoFrame == [from |-> Foreign, var |-> 0, itlk |-> FALSE, here |-> FALSE]
Frame(a, v, itlk) == [from |-> a, var |-> v, itlk |-> itlk, here |-> TRUE]

FieldsOf(b) == {b.messages[k][h] : k \in DOMAIN b.messages, h \in {1, 2}}

Idle == [at |-> "loop", i |-> 0, reg |-> {}]
At(place, i) == [at |-> place, i |-> i, reg |-> {}]

TaskSetNew(tasks) == flags' = flags \cup tasks

Signals == 0 .. 11

Init ==
    /\ model \in Models
    /\ flags = {}
    /\ main = Idle
    /\ errFlag = {}
    /\ can = [off |-> FALSE, status |-> {}, rx |-> NoFrame, tx |-> 0,
              done |-> FALSE]
    /\ rxPtr = FALSE
    /\ iib = [a \in Boards |-> [f \in FieldsOf(Cfg.boards[a]) |-> Zero]]
    /\ asked = {}
    /\ net = [i \in Signals |-> Zero]
    /\ adc = [fifo |-> <<>>, RxTable |-> [k \in 1 .. 8 |-> 0], counter_sampl |-> 0]
    /\ timer = [time |-> 0, LedCtrl |-> FALSE, led_itlk |-> FALSE,
                interlock |-> FALSE]
    /\ reported = {}
    /\ handed = {}
    /\ left = [events |-> MaxEvents, frames |-> MaxFrames]

Spend(frames) ==
    /\ left.events > 0 /\ left.frames >= frames
    /\ left' = [events |-> left.events - 1, frames |-> left.frames - frames]

----------------------------------------------------------------------------
(* The bus (external).                                                     *)

\* A message is received.  The object still holds one the handler has not
\* fetched: it is lost.
Receive(f) ==
    /\ ~can.off
    /\ Spend(1)
    /\ can' = [can EXCEPT !.rx = f, !.status = @ \cup {"RXOK"}]
    /\ UNCHANGED <<model, flags, main, errFlag, rxPtr, iib, asked, net, adc,
                   timer, handed>>

\* The message with the interlocks.
Last(a) == Len(Cfg.boards[a].messages) - 1

BoardSends ==
    \E a \in Boards, itlk \in BOOLEAN :
        \E v \in 0 .. Len(Cfg.boards[a].messages) - 1 :
            /\ v \in Reports \/ v = Last(a)
            /\ itlk => v = Last(a)
            /\ Receive(Frame(a, v, itlk))
            /\ reported' = IF itlk THEN reported \cup {a} ELSE reported

\* A device the model does not expect, on a model that has boards.
ForeignSends ==
    /\ Boards # {}
    /\ Receive(Frame(Foreign, 0, FALSE))
    /\ UNCHANGED reported

\* The reset message of the transmit object is on the bus and acknowledged.
Transmitted ==
    /\ ~can.off /\ can.tx # 0
    /\ can' = [can EXCEPT !.tx = 0, !.done = TRUE, !.status = @ \cup {"TXOK"}]
    /\ UNCHANGED <<model, flags, main, errFlag, rxPtr, iib, asked, net, adc,
                   timer, reported, handed, left>>

\* An error; the controller leaves the bus only when what it sends fails.
BusError ==
    \E s \in CanStatus :
        /\ ~can.off
        /\ "BUS_OFF" \in s => can.tx # 0
        /\ Spend(0)
        /\ can' = [can EXCEPT !.status = @ \cup s, !.off = "BUS_OFF" \in s]
        /\ UNCHANGED <<model, flags, main, errFlag, rxPtr, iib, asked, net, adc,
                       timer, reported, handed>>

----------------------------------------------------------------------------
(* can_int_handler.                                                        *)

\* What handle_can_data does with one message of a known board.
Half(f, h) ==
    IF f.from = Foreign THEN ForeignWord(h)
    ELSE IF f.var = Last(f.from) /\ h = 1 /\ ~f.itlk
         THEN Zero
         ELSE Word(f.from, f.var, h)

\* The first message is read through a null pointer: message_data keeps its
\* initial zeros.
Data(f, h) == IF rxPtr THEN Half(f, h) ELSE Zero

StoreMessageAsOs(a, v, hi, lo) == \* mutant: the case numbers of another board
    LET b == Cfg.boards[a]
        names == b.messages[v + 1]
        word(f) == IF f = names[1] THEN hi ELSE lo
        touched == {names[1], names[2]}
    IN /\ iib' = [iib EXCEPT ![a] =
                    [f \in DOMAIN @ |-> IF f \in touched THEN word(f) ELSE @[f]]]
       /\ net' = IF b.copied \in touched
                 THEN [net EXCEPT ![b.signal] = word(b.copied)] ELSE net
       /\ asked' = IF v = Len(OsMessages) - 1 /\ hi # Zero
                   THEN asked \cup {b.itlk} ELSE asked

StoreMessageFirstHalf(a, v, hi, lo) == \* mutant: the first half for both fields
    LET b == Cfg.boards[a]
        touched == {b.messages[v + 1][1], b.messages[v + 1][2]}
    IN /\ iib' = [iib EXCEPT ![a] =
                    [f \in DOMAIN @ |-> IF f \in touched THEN hi ELSE @[f]]]
       /\ net' = IF b.copied \in touched
                 THEN [net EXCEPT ![b.signal] = hi] ELSE net
       /\ asked' = IF v = Last(a) /\ hi # Zero
                   THEN asked \cup {b.itlk} ELSE asked

StoreMessage(a, v, hi, lo) ==
    LET b == Cfg.boards[a]
        names == b.messages[v + 1]
        word(f) == IF f = names[1] THEN hi ELSE lo
        touched == {names[1], names[2]}
    IN /\ iib' = [iib EXCEPT ![a] =
                    [f \in DOMAIN @ |-> IF f \in touched THEN word(f) ELSE @[f]]]
       /\ net' = IF b.copied \in touched
                 THEN [net EXCEPT ![b.signal] = word(b.copied)] ELSE net
       /\ asked' = IF v = Last(a) /\ hi # Zero
                   THEN asked \cup {b.itlk} ELSE asked

\* With an identifier of no board, a model with one board does nothing; the
\* others leave `module' uninitialised and id_var 0, and store message 0 of
\* some board or outside the boards (memory that is not modelled).
handle_foreign(f) ==
    \/ UNCHANGED <<iib, net, asked>>
    \/ /\ Len(Cfg.boards) > 1
       /\ \E a \in Boards : StoreMessage(a, 0, Data(f, 1), Data(f, 2))

handle_can_data(f) ==
    \/ f.from # Foreign /\ StoreMessage(f.from, f.var, Data(f, 1), Data(f, 2))
    \/ f.from = Foreign /\ handle_foreign(f)

StatusInterrupt ==
    /\ can.status # {}
    /\ errFlag' = errFlag \cup can.status
    /\ can' = [can EXCEPT !.status = {}]
    /\ TaskSetNew({"CAN"})
    /\ UNCHANGED <<rxPtr, iib, asked, net>>

DataInterrupt ==
    /\ can.status = {} /\ can.rx.here
    /\ handle_can_data(can.rx)
    /\ rxPtr' = TRUE
    /\ can' = [can EXCEPT !.rx = NoFrame]
    /\ errFlag' = {}
    /\ UNCHANGED flags

ResetInterrupt ==
    /\ can.status = {} /\ ~can.rx.here /\ can.done
    /\ can' = [can EXCEPT !.done = FALSE]
    /\ errFlag' = {}
    /\ UNCHANGED <<flags, rxPtr, iib, asked, net>>

can_int_handler ==
    /\ StatusInterrupt \/ DataInterrupt \/ ResetInterrupt
    /\ UNCHANGED <<model, main, adc, timer, reported, handed, left>>

----------------------------------------------------------------------------
(* ADC and timer.                                                          *)

\* adcp_read: eight words, the channel in their upper bits.  A FIFO the
\* handler has not emptied keeps what it holds.
adcp_read(first) ==
    IF adc.fifo = <<>>
    THEN [adc EXCEPT !.fifo = [k \in 1 .. 8 |-> (first + k - 1) % 8]]
    ELSE adc

isr_adcp_accumulates == \* mutant: counter_sampl is not set back
    /\ adc.fifo # <<>>
    /\ adc' = [fifo |-> <<>>, RxTable |-> adc.fifo,
               counter_sampl |-> adc.counter_sampl + Len(adc.fifo)]
    /\ TaskSetNew({"ADCP"})
    /\ UNCHANGED <<model, main, canVars, timer, handed, left>>

isr_adcp ==
    /\ adc.fifo # <<>>
    /\ adc' = [fifo |-> <<>>, RxTable |-> adc.fifo, counter_sampl |-> Len(adc.fifo)]
    /\ TaskSetNew({"ADCP"})
    /\ UNCHANGED <<model, main, canVars, timer, handed, left>>

\* The counters for the command interface and the lock are in IpcHandshake.
isr_global_timer ==
    /\ Spend(0)
    /\ \E first \in Rotations : adc' = adcp_read(first)
    /\ IF timer.time + 1 >= TicksPerSecond
       THEN timer' = [timer EXCEPT !.time = 0] /\ TaskSetNew({"RTC", "LED"})
       ELSE timer' = [timer EXCEPT !.time = @ + 1] /\ UNCHANGED flags
    /\ UNCHANGED <<model, main, canVars, handed>>

\* bsmp_reset_interlocks, from the RS-485 interrupt.
RequestReset ==
    /\ Spend(0)
    /\ TaskSetNew({"ITLK"})
    /\ UNCHANGED <<model, main, canVars, adc, timer, handed>>

\* The state of the power supplies changes (external).
InterlockState ==
    /\ timer' = [timer EXCEPT !.interlock = ~@]
    /\ Spend(0)
    /\ UNCHANGED <<model, flags, main, canVars, adc, handed>>

----------------------------------------------------------------------------
(* TaskCheck: the first flag that is set, in this order, is cleared and    *)
(* its work done.                                                          *)

Order == <<"ADCP", "CAN", "RTC", "ITLK", "LED">>

Take(task) ==
    /\ main.at = "loop"
    /\ task \in flags
    /\ \A j, k \in DOMAIN Order : Order[k] = task /\ j < k => Order[j] \notin flags
    /\ flags' = flags \ {task}

TaskAdcp ==
    /\ Take("ADCP")
    /\ main' = At("samples", 0)
    /\ UNCHANGED <<model, canVars, adc, timer, handed, left>>

TaskCan ==
    /\ Take("CAN")
    /\ main' = At("can_check", 0)
    /\ UNCHANGED <<model, canVars, adc, timer, handed, left>>

\* rtc_read_data_hour touches nothing that is modelled.
TaskRtc ==
    /\ Take("RTC")
    /\ UNCHANGED <<model, main, canVars, adc, timer, handed, left>>

TaskItlk ==
    /\ Take("ITLK")
    /\ main' = At("reset", 1)
    /\ UNCHANGED <<model, canVars, adc, timer, handed, left>>

TaskLed ==
    /\ Take("LED")
    /\ timer' = [timer EXCEPT !.LedCtrl = ~@,
                              !.led_itlk = IF timer.LedCtrl THEN FALSE
                                           ELSE @ \/ timer.interlock]
    /\ UNCHANGED <<model, main, canVars, adc, handed, left>>

ResetAddressesFewer == \* mutant: the FAC ACDC counted as one board
    CASE model \in {"FAC_DCDC", "FAC_DCDC_EMA", "FAP", "FAC_ACDC"} -> 1
      [] model \in {"FAC_2S_DCDC"} -> 2
      [] model \in {"FAC_2S_ACDC", "FAC_2P4S_ACDC", "FAP_4P", "FAP_2P2S"} -> 4
      [] model = "FAC_2P4S_DCDC" -> 8
      [] OTHER -> 0

\* The other supplies have no boards to reset.
ResetAddresses ==
    CASE model \in {"FAC_DCDC", "FAC_DCDC_EMA", "FAP"} -> 1
      [] model \in {"FAC_ACDC", "FAC_2S_DCDC"} -> 2
      [] model \in {"FAC_2S_ACDC", "FAC_2P4S_ACDC", "FAP_4P", "FAP_2P2S"} -> 4
      [] model = "FAC_2P4S_DCDC" -> 8
      [] OTHER -> 0

\* CANMessageSet replaces a message that is still waiting for the bus.
send_reset_iib_message ==
    /\ main.at = "reset"
    /\ IF main.i > ResetAddresses
       THEN main' = Idle /\ UNCHANGED <<can, handed>>
       ELSE /\ can' = [can EXCEPT !.tx = main.i]
            /\ handed' = handed \cup {main.i}
            /\ main' = At("reset", main.i + 1)
    /\ UNCHANGED <<model, flags, errFlag, rxPtr, iib, asked, net, adc, timer,
                   reported, left>>

----------------------------------------------------------------------------
(* adcp_get_samples: one word of ADCP_RxTable per step.                    *)

\* The channel decides the signal; the sample is read once.
adc_channel(c, value) ==
    IF Cfg.adcp[c] = Unconnected THEN net
    ELSE [net EXCEPT ![Cfg.adcp[c]] = SampleWord(value)]

adcp_get_samples ==
    /\ main.at = "samples"
    /\ IF main.i < adc.counter_sampl
       THEN LET Sampl == adc.RxTable[main.i + 1]
            IN net' = adc_channel(Sampl, Sampl) /\ main' = At("samples", main.i + 1)
       ELSE UNCHANGED net /\ main' = Idle
    /\ UNCHANGED <<model, flags, errFlag, can, rxPtr, iib, asked, adc, timer,
                   reported, handed, left>>

----------------------------------------------------------------------------
(* can_check and can_error_handler: the masks in the order of the tests.   *)

MasksNoWarning == \* mutant: the warning level has no test
    <<{"BUS_OFF"}, {}, {"EPASS"}, {"RXOK"}, {"TXOK"},
      {"L0", "L1", "L2"}, {}, {"L0"}, {"L1"}, {"L0", "L1"}, {"L2"},
      {"L0", "L2"}, {"L1", "L2"}, {"PDA"}, {"WAKE_UP"}, {"PERR"}>>

Masks == <<{"BUS_OFF"}, {"EWARN"}, {"EPASS"}, {"RXOK"}, {"TXOK"},
           {"L0", "L1", "L2"}, {}, {"L0"}, {"L1"}, {"L0", "L1"}, {"L2"},
           {"L0", "L2"}, {"L1", "L2"}, {"PDA"}, {"WAKE_UP"}, {"PERR"}>>

NumMasks == 16

\* g_bRXFlag1 is never set.
can_check ==
    /\ main.at = "can_check"
    /\ main' = IF errFlag # {} THEN At("test", 1) ELSE Idle
    /\ UNCHANGED <<model, flags, canVars, adc, timer, handed, left>>

TestFlagClearsLate == \* mutant: the request flag is cleared after the work
    /\ main.at = "test"
    /\ main' = IF main.i > NumMasks THEN Idle
               ELSE IF errFlag \cap Masks[main.i] = {} THEN At("test", main.i + 1)
               ELSE At("load", main.i)
    /\ flags' = IF main.i > NumMasks THEN flags \ {"CAN"} ELSE flags
    /\ can' = IF main.i = 1 /\ "BUS_OFF" \in errFlag
              THEN [can EXCEPT !.off = FALSE] ELSE can
    /\ UNCHANGED <<model, errFlag, rxPtr, iib, asked, net, adc, timer,
                   reported, handed, left>>

\* if(g_ui32ErrFlag & MASK): on BUS_OFF the controller is enabled again.
TestFlag ==
    /\ main.at = "test"
    /\ main' = IF main.i > NumMasks THEN Idle
               ELSE IF errFlag \cap Masks[main.i] = {} THEN At("test", main.i + 1)
               ELSE At("load", main.i)
    /\ can' = IF main.i = 1 /\ "BUS_OFF" \in errFlag
              THEN [can EXCEPT !.off = FALSE] ELSE can
    /\ UNCHANGED <<model, flags, errFlag, rxPtr, iib, asked, net, adc, timer,
                   reported, handed, left>>

\* g_ui32ErrFlag &= ~(MASK): a load and a store.
LoadFlag ==
    /\ main.at = "load"
    /\ main' = [At("store", main.i) EXCEPT !.reg = errFlag]
    /\ UNCHANGED <<model, flags, canVars, adc, timer, handed, left>>

StoreFlag ==
    /\ main.at = "store"
    /\ errFlag' = main.reg \ Masks[main.i]
    /\ main' = At("test", main.i + 1)
    /\ UNCHANGED <<model, flags, can, rxPtr, iib, asked, net, adc, timer,
                   reported, handed, left>>

can_error_handler == can_check \/ TestFlag \/ LoadFlag \/ StoreFlag

----------------------------------------------------------------------------

TaskCheck ==
    \/ TaskAdcp \/ TaskCan \/ TaskRtc \/ TaskItlk \/ TaskLed
    \/ adcp_get_samples \/ can_error_handler \/ send_reset_iib_message

Interrupts == can_int_handler \/ isr_adcp

Environment ==
    \/ BoardSends \/ ForeignSends \/ Transmitted \/ BusError
    \/ isr_global_timer \/ RequestReset \/ InterlockState

Next == TaskCheck \/ Interrupts \/ Environment

Spec == Init /\ [][Next]_vars

(* The main loop never stops and a pending interrupt is always served      *)
(* (nothing here masks interrupts after IntMasterEnable).                  *)
Fairness == WF_vars(TaskCheck) /\ WF_vars(can_int_handler) /\ WF_vars(isr_adcp)

FairSpec == Spec /\ Fairness

----------------------------------------------------------------------------
(* Properties.                                                             *)

Places == {"loop", "samples", "reset", "can_check", "test", "load", "store"}

\* The ranges of the state of the loop and of the interrupts: the indices into
\* the table of masks and into ADCP_RxTable among them.
TypeOK ==
    /\ model \in Models
    /\ flags \subseteq {"ADCP", "CAN", "RTC", "ITLK", "LED"}
    /\ main \in [at : Places, i : 0 .. NumMasks + 1, reg : SUBSET StatusBits]
    /\ errFlag \subseteq StatusBits
    /\ DOMAIN can = {"off", "status", "rx", "tx", "done"}
    /\ can.status \subseteq StatusBits
    /\ rxPtr \in BOOLEAN
    /\ adc \in [fifo : Seq(0 .. 7), RxTable : [1 .. 8 -> 0 .. 7],
                counter_sampl : 0 .. 8]

(* A status the interrupt added to g_ui32ErrFlag (can_bkp.c 107-114) is    *)
(* either about to be seen by the running error handler or has its request *)
(* flag set: no status waits with nobody to look at it, whatever the order *)
(* of interrupts, tests, loads and stores.                                 *)
ErrNoticed ==
    errFlag # {} =>
        \/ "CAN" \in flags
        \/ main.at \in {"can_check", "test", "load", "store"}

(* An interlock is asked of the C28 only for a board that did report one:  *)
(* not because a message was stored for another board, nor because of an   *)
(* identifier of no board and the uninitialised `module' it leaves, nor    *)
(* because two boards share an interlock (handle_can_data).                *)
InterlockAttributed ==
    \A a \in Boards : Cfg.boards[a].itlk \in asked => a \in reported

(* A board whose interlock register is not zero has had its interlock      *)
(* asked: there is no path that stores the register without telling the    *)
(* C28 (handle_can_data, case of the interlock message).                   *)
InterlockRaised ==
    \A a \in Boards :
        iib[a]["InterlocksRegister"] # Zero => Cfg.boards[a].itlk \in asked

\* What the variables of a server point to, by model and server.
VarsOf == [m \in AllModels |-> [s \in Servers |->
    LET table == SystemConfig[m].server
        own == {k \in DOMAIN table : table[k].op = "create" /\ table[k].server = s}
        sources == UNION {{table[k].sources[j] : j \in DOMAIN table[k].sources} : k \in own}
    IN {src \in sources : src[1] \in {"iib", "net"}}]]

Shown(src) == IF src[1] = "iib" THEN iib[src[2]][src[3]] ELSE net[src[2]]

\* The copies that a model makes on purpose.
Copies(x, y) ==
    \E a \in Boards : {x, y} = {Iib(a, Cfg.boards[a].copied), Net(Cfg.boards[a].signal)}

(* What a BSMP server shows of a board is what that board sent, each half  *)
(* of each message in one field only: two variables never show the same    *)
(* word, and a field never shows the word of another board, except message *)
(* 0 after an identifier of no board.                                      *)
BoardsShown ==
    \A s \in Servers :
        LET live == {x \in VarsOf[model][s] : Shown(x)[1] # Foreign}
        IN /\ \A x \in live : x[1] = "iib" => Shown(x)[1] = x[2]
           /\ \A x, y \in live : x # y /\ Shown(x) = Shown(y) => Copies(x, y)

(* A signal handed to the C28 has one writer: one channel of the ADC or    *)
(* one board, though the main loop writes some (adc_channel) and the CAN   *)
(* interrupt others, and the interrupt of the ADC may rewrite ADCP_RxTable *)
(* while the main loop reads it.                                           *)
OneWriter ==
    [][\A i \in Signals :
        net[i] # Zero /\ net'[i] # Zero => \/ net[i][1] = net'[i][1]
                                           \/ Foreign \in {net[i][1], net'[i][1]}]_net

(* A command to reset the interlocks ends with a reset message for every   *)
(* board of the model: the addresses of TaskCheck are those of init_iib,   *)
(* and no other task keeps the loop from it for ever.                      *)
ResetReachesBoards == "ITLK" \in flags ~> Boards \subseteq handed

(* Every status is taken off g_ui32ErrFlag in the end: the load and store  *)
(* of the error handler do not put one back for good.                      *)
ErrServed == errFlag # {} ~> errFlag = {}
=============================================================================
