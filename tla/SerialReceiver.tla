--------------------------- MODULE SerialReceiver ---------------------------
(***************************************************************************)
(* How a packet gets from a serial line to BSMPprocess.                    *)
(*                                                                         *)
(* Three receivers share one shape, an interrupt that moves characters     *)
(* from the UART FIFO to recv_buffer and finds the end of a packet from    *)
(* the size field of the header alone:                                     *)
(*   "low"   isr_rs485 below 1 Mbaud: keeps what it has and waits for the  *)
(*           rest, drops the buffer when the size cannot fit;              *)
(*   "high"  isr_rs485 from 1 Mbaud on: the whole packet must be drained   *)
(*           in one interrupt, anything else is dropped;                   *)
(*   "ihm"   isr_ihm: like "low", but the packet is left to TaskCheck in   *)
(*           the main loop, which the interrupt preempts.                  *)
(*                                                                         *)
(* The line damages or loses a bounded number of bytes.                    *)
(***************************************************************************)
EXTENDS Naturals, Sequences, FiniteSets

CONSTANTS
    Variants,         \* the receivers to look at
    Base,             \* number of values of a byte (256)
    SERIAL_BUF_SIZE,
    FifoSize,         \* depth of the UART's receive FIFO (16)
    Level,            \* fill level that raises UART_INT_RX (2)
    RS485_Address,    \* the parameter, one address per power supply
    MAX_ADDRESS,      \* addresses above are refused (32)
    BCAST_ADDRESS,
    Frames,           \* packets the host sends: byte sequences
    MaxFaults         \* bound on damaged or lost bytes

Byte == 0 .. Base - 1
PS == DOMAIN RS485_Address
Interrupts == {"RX", "RT", "TX"}

ASSUME SizesAssumption ==
    /\ Variants \subseteq {"low", "high", "ihm"}
    /\ Base \in Nat \ {0}
    /\ SERIAL_BUF_SIZE \in Nat /\ SERIAL_BUF_SIZE >= 5
    /\ FifoSize \in Nat \ {0}
    /\ Level \in 1 .. FifoSize
    /\ MaxFaults \in Nat
ASSUME AddressesAssumption ==
    /\ PS \subseteq Nat
    /\ RS485_Address \in [PS -> Nat]
    /\ MAX_ADDRESS \in Nat
    /\ BCAST_ADDRESS \in Byte
ASSUME FramesAssumption ==
    Frames \subseteq Seq(Byte) /\ \A f \in Frames : Len(f) >= 5

VARIABLES
    variant,        \* the receiver: config_rs485 fixes the baud rate at boot
    line,           \* bytes on their way
    cur,            \* the packet the host sent last
    damaged,        \* TRUE if a byte outside its size field was changed
    desync,         \* TRUE if packet boundaries may have been lost
    faults,
    fifo, status,   \* the UART: FIFO and raised interrupts
    armed,          \* TRUE if the receive time-out can still come
    rd, sending,    \* direction pin, and an answer going out
    pc,             \* the interrupt handler
    data, index, csum,   \* recv_buffer
    task, main,     \* PROCESS_IHM_MESSAGE, and the main loop
    execs           \* what reached BSMPprocess since the host sent cur

wire == <<variant, line, cur, damaged, desync, faults>>
uart == <<fifo, status, armed>>
buffer == <<data, index, csum>>
vars == <<variant, line, cur, damaged, desync, faults, fifo, status, armed, rd, sending,
          pc, data, index, csum, task, main, execs>>

\* set_rs485_ch_x_address refuses an address outside 1 .. 32; the channel then
\* keeps its built-in one, which is the only one on the display's line.
Address(p) == IF variant # "ihm" /\ RS485_Address[p] \in 1 .. MAX_ADDRESS
              THEN RS485_Address[p] ELSE p + 1

\* The channels are compared in order, the first that matches gets the packet.
Target(addr) == CHOOSE p \in PS :
    /\ Address(p) = addr
    /\ \A q \in PS : Address(q) = addr => p <= q

Known(addr) == \/ \E p \in PS : Address(p) = addr
               \/ addr = BCAST_ADDRESS /\ variant # "ihm"

\* sCarga = (data[2] << 8) | data[3], whatever these bytes are by now.
sCarga == data[2] * Base + data[3]

Init ==
    /\ variant \in Variants
    /\ line = <<>> /\ cur = <<>> /\ damaged = FALSE /\ desync = FALSE
    /\ faults = 0
    /\ fifo = <<>> /\ status = {} /\ armed = FALSE
    /\ rd = "OFF" /\ sending = FALSE
    /\ pc = "idle"
    /\ data = [i \in 0 .. SERIAL_BUF_SIZE - 1 |-> 0]
    /\ index = 0 /\ csum = 0
    /\ task = FALSE /\ main = "idle"
    /\ execs = <<>>

----------------------------------------------------------------------------
(* The host, the line and the UART.                                        *)

\* Nothing is going on: the host has its answer, or its time-out.
Idle == /\ line = <<>> /\ status = {} /\ pc = "idle"
        /\ ~(armed /\ fifo # <<>>) /\ ~sending
        /\ ~task /\ main = "idle"

\* Nothing is going on, and the transceiver listens.
Quiet == Idle /\ rd = "OFF"

\* What puts "low" and "ihm" back in step after packet boundaries were lost: an
\* empty buffer, and no size in the old header that makes them drop the first
\* bytes of the next packet.  "high" needs nothing.
InStep == \/ variant = "high"
          \/ index = 0 /\ fifo = <<>> /\ rd = "OFF" /\ sCarga <= SERIAL_BUF_SIZE

\* The host waits for the answer, or long enough, between two packets.
Transmit(f) ==
    /\ Idle
    /\ line' = f /\ cur' = f /\ execs' = <<>>
    /\ damaged' = FALSE /\ desync' = (desync /\ ~InStep)
    /\ UNCHANGED <<variant, faults, uart, rd, sending, pc, buffer, task, main>>

\* A byte reaches the FIFO.
Receive(b) ==
    /\ line # <<>> /\ rd = "OFF" /\ Len(fifo) < FifoSize
    /\ line' = Tail(line)
    /\ fifo' = Append(fifo, b)
    /\ status' = IF Len(fifo') >= Level THEN status \cup {"RX"} ELSE status
    /\ armed' = TRUE
    /\ UNCHANGED <<variant, cur, rd, sending, pc, buffer, task, main, execs>>

Arrive == Receive(Head(line)) /\ UNCHANGED <<damaged, desync, faults>>

\* The byte is changed; in the size field that moves the packet's end.
ArriveDamaged ==
    /\ line # <<>> /\ faults < MaxFaults
    /\ faults' = faults + 1
    /\ \E b \in Byte \ {Head(line)} : Receive(b)
    /\ IF Len(cur) - Len(line) \in {2, 3}
       THEN desync' = TRUE /\ UNCHANGED damaged
       ELSE damaged' = TRUE /\ UNCHANGED desync

Lose ==
    /\ line # <<>> /\ faults < MaxFaults
    /\ faults' = faults + 1
    /\ line' = Tail(line) /\ desync' = TRUE
    /\ UNCHANGED <<variant, cur, damaged, uart, rd, sending, pc, buffer, task, main,
                   execs>>

\* Nothing gets through a transceiver that transmits, nor into a full FIFO that
\* no interrupt is going to empty.
Deaf ==
    /\ line # <<>>
    /\ rd = "ON" \/ (Len(fifo) = FifoSize /\ pc = "idle" /\ status = {})
    /\ line' = Tail(line) /\ desync' = TRUE
    /\ UNCHANGED <<variant, cur, damaged, faults, uart, rd, sending, pc, buffer, task,
                   main, execs>>

\* UART_INT_RT: silence with characters left in the FIFO.  An interrupt that is
\* already raised is served before the silence is over.  From 1 Mbaud on a host
\* sends a packet without a gap.
ReceiveTimeout ==
    /\ variant = "high" => line = <<>>
    /\ fifo # <<>> /\ armed /\ status = {} /\ pc = "idle"
    /\ status' = {"RT"} /\ armed' = FALSE
    /\ UNCHANGED <<wire, fifo, rd, sending, pc, buffer, task, main, execs>>

\* UART_TXINT_MODE_EOT: the last bit of the answer is out.
EndOfTransmission ==
    /\ sending
    /\ sending' = FALSE
    /\ status' = status \cup {"TX"}
    /\ UNCHANGED <<wire, fifo, armed, rd, pc, buffer, task, main, execs>>

----------------------------------------------------------------------------
(* The interrupt handler.                                                  *)

\* Mutant of isr_rs485: the end of the answer is not waited for.
isr_rs485_rx_only ==
    /\ pc = "idle" /\ status # {}
    /\ status' = {}
    /\ pc' = IF status \in {{"RX"}, {"RT"}} THEN "drain" ELSE "idle"
    /\ UNCHANGED <<wire, fifo, armed, rd, sending, buffer, task, main, execs>>

\* The status is read and cleared, then compared for equality: a handler that
\* finds two interrupts serves neither.
isr_rs485 ==
    /\ pc = "idle" /\ status # {}
    /\ status' = {}
    /\ pc' = IF status \in {{"RX"}, {"RT"}} THEN "drain" ELSE "idle"
    /\ rd' = IF status = {"TX"} THEN "OFF" ELSE rd
    /\ UNCHANGED <<wire, fifo, armed, sending, buffer, task, main, execs>>

\* Mutant of Room: no bound on the index.
RoomAlways == TRUE

Room == index < SERIAL_BUF_SIZE

\* One character from the FIFO to the buffer.  Reading lowers the interrupts.
Drain ==
    /\ pc = "drain"
    /\ fifo # <<>> /\ Room
    /\ data' = [data EXCEPT ![index] = Head(fifo)]
    /\ csum' = (csum + Head(fifo)) % Base
    /\ index' = index + 1
    /\ fifo' = Tail(fifo)
    /\ status' = status \ ((IF Len(fifo') < Level THEN {"RX"} ELSE {})
                           \cup (IF fifo' = <<>> THEN {"RT"} ELSE {}))
    /\ UNCHANGED <<wire, armed, rd, sending, pc, task, main, execs>>

\* 15 (50) turns without a character.  From 1 Mbaud on that outlasts the time
\* between two bytes of a packet; below it does not.
SpinOut ==
    /\ pc = "drain"
    /\ fifo = <<>> \/ ~Room
    /\ variant = "high" => line = <<>> \/ ~Room
    /\ pc' = "decide"
    /\ UNCHANGED <<wire, uart, rd, sending, buffer, task, main, execs>>

\* The bytes behind the header are dead once the index is back at 0 (and are
\* forgotten); those of the header are read again before they are overwritten.
HeaderOnly == [i \in DOMAIN data |-> IF i < 4 THEN data[i] ELSE 0]

\* Mutant of ResetBuffer: the checksum is forgotten.
ResetIndex == index' = 0 /\ data' = HeaderOnly /\ UNCHANGED csum

ResetBuffer == index' = 0 /\ csum' = 0 /\ data' = HeaderOnly

\* Mutant of Complete: the header and the checksum are not counted.
CompletePayload == index > sCarga

Complete == index > sCarga + 4

\* The packet is complete: process it, or leave it to the main loop.
EndOfPacket ==
    /\ pc = "decide" /\ Complete
    /\ pc' = IF variant = "ihm" THEN "idle" ELSE "process"
    /\ task' = IF variant = "ihm" THEN TRUE ELSE task
    /\ UNCHANGED <<wire, uart, rd, sending, buffer, main, execs>>

\* It is not: "high" drops it, the others only if it can never be.
Incomplete ==
    /\ pc = "decide" /\ ~Complete
    /\ pc' = "idle"
    /\ IF variant = "high" \/ sCarga > SERIAL_BUF_SIZE
       THEN ResetBuffer ELSE UNCHANGED buffer
    /\ UNCHANGED <<wire, uart, rd, sending, task, main, execs>>

----------------------------------------------------------------------------
(* rs485_process_data and ihm_process_data.                                *)

Accepted == index >= 2 /\ csum = 0 /\ Known(data[0])

\* What BSMPprocess is given; bsmp_process_packet refuses a packet whose length
\* is not that of its header.
Execution ==
    [ps |-> IF \E p \in PS : Address(p) = data[0] THEN {Target(data[0])} ELSE PS,
     packet |-> [i \in 1 .. index |-> data[i - 1]],
     wellFormed |-> index = sCarga + 5]

\* Everybody hears a broadcast, nobody answers it.
Answers == data[0] # BCAST_ADDRESS

rs485_process_data ==
    /\ pc = "process"
    /\ pc' = "idle"
    /\ execs' = IF Accepted THEN Append(execs, Execution) ELSE execs
    /\ sending' = (Accepted /\ Answers)
    /\ rd' = IF Accepted /\ Answers THEN "ON" ELSE rd
    /\ ResetBuffer
    /\ UNCHANGED <<wire, uart, task, main>>

\* TaskCheck takes the flag down first.
TaskIhm ==
    /\ pc = "idle" /\ main = "idle" /\ task
    /\ task' = FALSE
    /\ main' = "check"
    /\ UNCHANGED <<wire, uart, rd, sending, pc, buffer, execs>>

ihm_process_data ==
    /\ pc = "idle" /\ main = "check"
    /\ main' = IF Accepted THEN "answer" ELSE "exit"
    /\ execs' = IF Accepted THEN Append(execs, Execution) ELSE execs
    /\ UNCHANGED <<wire, uart, rd, sending, pc, buffer, task>>

\* The display's UART has no direction pin and no transmit interrupt.
ihm_tx_handler ==
    /\ pc = "idle" /\ main = "answer"
    /\ main' = "exit"
    /\ UNCHANGED <<wire, uart, rd, sending, pc, buffer, task, execs>>

ihm_exit ==
    /\ pc = "idle" /\ main = "exit"
    /\ main' = "idle"
    /\ ResetBuffer
    /\ UNCHANGED <<wire, uart, rd, sending, pc, task, execs>>

----------------------------------------------------------------------------
Line == Arrive \/ ArriveDamaged \/ Lose \/ Deaf
Isr == isr_rs485 \/ Drain \/ SpinOut \/ EndOfPacket \/ Incomplete
       \/ rs485_process_data
Main == TaskIhm \/ ihm_process_data \/ ihm_tx_handler \/ ihm_exit

Next == \/ \E f \in Frames : Transmit(f)
        \/ Line \/ ReceiveTimeout \/ EndOfTransmission
        \/ Isr \/ Main

Spec == Init /\ [][Next]_vars

\* Bytes get through the line, the UART raises its interrupts, the processor
\* runs the handler and, when no handler runs, the main loop.
Fairness == /\ WF_vars(Arrive) /\ WF_vars(Deaf)
            /\ WF_vars(ReceiveTimeout)
            /\ WF_vars(EndOfTransmission) /\ WF_vars(Isr) /\ WF_vars(Main)

FairSpec == Spec /\ Fairness

----------------------------------------------------------------------------
(* The host's packets, as EveryPacketHandled of SerialReceiverProofs needs  *)
(* them.                                                                    *)

\* The checksum after every byte of f, starting from 0.
Totals(f) == {s \in [0 .. Len(f) -> Byte] :
                /\ s[0] = 0
                /\ \A i \in 1 .. Len(f) : s[i] = (s[i - 1] + f[i]) % Base}

\* The packets of a BSMP host: they fit into the buffer, carry their own size
\* and add up to 0.  The third condition is about the high byte of the size: it
\* is judged together with the low byte of an earlier packet when an interrupt
\* ends between the two, and must not make that look too large for the buffer.
\* It holds for payloads below 16640 bytes on RS-485 and below 1024 on the
\* display's line; the largest of BSMP, a curve block, has 16384 + 3.
ValidFrames ==
    \A f \in Frames :
        /\ Len(f) <= SERIAL_BUF_SIZE
        /\ f[3] * Base + f[4] = Len(f) - 5
        /\ f[3] * Base + (Base - 1) <= SERIAL_BUF_SIZE
        /\ \E s \in Totals(f) : s[Len(f)] = 0

----------------------------------------------------------------------------
(* Properties.                                                             *)

\* Every variable keeps its type: the index stays inside recv_buffer.data, which
\* the length field of a packet, damaged or not, cannot push it out of.
TypeOK ==
    /\ variant \in Variants
    /\ line \in Seq(Byte) /\ cur \in Seq(Byte)
    /\ damaged \in BOOLEAN /\ desync \in BOOLEAN
    /\ faults \in Nat
    /\ fifo \in Seq(Byte) /\ status \subseteq Interrupts /\ armed \in BOOLEAN
    /\ rd \in {"ON", "OFF"} /\ sending \in BOOLEAN
    /\ pc \in {"idle", "drain", "decide", "process"}
    /\ data \in [0 .. SERIAL_BUF_SIZE - 1 -> Byte]
    /\ index \in 0 .. SERIAL_BUF_SIZE /\ csum \in Byte
    /\ task \in BOOLEAN /\ main \in {"idle", "check", "answer", "exit"}

\* What the host's last packet should have led to.
Expected ==
    IF damaged \/ ~Known(cur[1]) THEN <<>>
    ELSE <<[ps |-> IF \E p \in PS : Address(p) = cur[1]
                   THEN {Target(cur[1])} ELSE PS,
            packet |-> cur, wellFormed |-> TRUE]>>

\* Once all is quiet the last packet has been executed exactly once, byte for
\* byte, by the power supply it was addressed to (all, for a broadcast), however
\* the FIFO cut it into interrupts; a packet with a changed byte has not been
\* executed, and does not harm the next one.  Where the end of a packet was lost
\* (desync), the receiver above 1 Mbaud is back with the next packet.
PacketsHandled == Quiet /\ cur # <<>> /\ ~desync => execs = Expected

\* A packet is judged by its own header: the size bytes an earlier packet left in
\* the buffer never make the interrupt process the first bytes of the next one.
OwnHeader == pc = "process" => index >= 5

\* After every packet the receiver gets back to listening, with the direction pin
\* released: above 1 Mbaud whatever happened on the line, below and on the
\* display's line as long as the packet boundaries are not lost.
BackToListening == line # <<>> ~> Quiet \/ (variant # "high" /\ desync)

=============================================================================
