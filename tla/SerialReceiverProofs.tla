------------------------ MODULE SerialReceiverProofs ------------------------
(***************************************************************************)
(* Proofs about the serial receivers, for every size of the buffer and of  *)
(* the FIFO, every set of packets and any number of faults.                *)
(***************************************************************************)
EXTENDS SerialReceiver, TLAPS

\* Arithmetic of the constants.
LEMMA Constants ==
    /\ 0 \in Byte
    /\ \A n \in Nat : n % Base \in Byte
    /\ \A a, b \in Byte : a * Base + b \in Nat
    /\ Byte \subseteq Nat
    /\ SERIAL_BUF_SIZE \in Nat /\ SERIAL_BUF_SIZE >= 5
    /\ {0, 1, 2, 3} \subseteq 0 .. SERIAL_BUF_SIZE - 1
<1>1. Base \in Nat \ {0} /\ SERIAL_BUF_SIZE \in Nat /\ SERIAL_BUF_SIZE >= 5
    BY SizesAssumption
<1>2. \A n \in Nat : n % Base \in 0 .. Base - 1
    BY <1>1
<1>3. \A a, b \in Nat : a * b \in Nat
    OBVIOUS
<1>4. \A a, b \in Byte : a * Base + b \in Nat
    BY <1>1, <1>3 DEF Byte
<1> QED
    BY <1>1, <1>2, <1>4 DEF Byte

\* What a byte moved through the FIFO leaves behind.
LEMMA SeqFacts ==
    \A s \in Seq(Byte) :
        /\ s # <<>> => Head(s) \in Byte /\ Tail(s) \in Seq(Byte)
        /\ \A b \in Byte : Append(s, b) \in Seq(Byte)
OBVIOUS

\* The size field is a number, and a complete packet has at least five bytes.
LEMMA CompleteSize ==
    ASSUME TypeOK, Complete PROVE index >= 5
<1>1. data[2] \in Byte /\ data[3] \in Byte
    BY Constants DEF TypeOK
<1>2. sCarga \in Nat
    BY <1>1, Constants DEF sCarga
<1> QED
    BY <1>2 DEF Complete, TypeOK

\* The initial state has the types.
LEMMA InitTypes == Init => TypeOK
<1> SUFFICES ASSUME Init PROVE TypeOK
    OBVIOUS
<1>1. /\ data \in [0 .. SERIAL_BUF_SIZE - 1 -> Byte]
      /\ index \in 0 .. SERIAL_BUF_SIZE /\ csum \in Byte
    BY Constants DEF Init
<1>2. /\ damaged \in BOOLEAN /\ desync \in BOOLEAN /\ armed \in BOOLEAN
      /\ sending \in BOOLEAN /\ task \in BOOLEAN
    BY Zenon DEF Init
<1>3. /\ line \in Seq(Byte) /\ cur \in Seq(Byte) /\ fifo \in Seq(Byte)
      /\ variant \in Variants
    BY DEF Init
<1>4. /\ faults \in Nat /\ status \subseteq Interrupts
      /\ rd \in {"ON", "OFF"} /\ pc \in {"idle", "drain", "decide", "process"}
      /\ main \in {"idle", "check", "answer", "exit"}
    BY DEF Init
<1> QED
    BY <1>1, <1>2, <1>3, <1>4 DEF TypeOK

\* Emptying the buffer keeps the types.
LEMMA ResetTypes ==
    ASSUME TypeOK, ResetBuffer
    PROVE  /\ data' \in [0 .. SERIAL_BUF_SIZE - 1 -> Byte]
           /\ index' \in 0 .. SERIAL_BUF_SIZE /\ csum' \in Byte
BY Constants DEF ResetBuffer, HeaderOnly, TypeOK

\* The steps of the host, the line and the UART keep the types.
LEMMA WireTypes ==
    ASSUME TypeOK,
           \/ \E f \in Frames : Transmit(f)
           \/ Line \/ ReceiveTimeout \/ EndOfTransmission
    PROVE  TypeOK'
<1> USE DEF wire, uart, buffer
<1>1. ASSUME NEW f \in Frames, Transmit(f) PROVE TypeOK'
    BY <1>1, FramesAssumption DEF Transmit, TypeOK
<1>2. ASSUME NEW b \in Byte, Receive(b)
      PROVE  /\ line' \in Seq(Byte) /\ fifo' \in Seq(Byte)
             /\ status' \subseteq Interrupts /\ armed' \in BOOLEAN
             /\ UNCHANGED <<variant, cur, rd, sending, pc, buffer, task, main, execs>>
    BY <1>2, SeqFacts DEF Receive, TypeOK, Interrupts
<1>3. CASE Arrive
  <2>1. Receive(Head(line)) /\ line # <<>> /\ UNCHANGED <<damaged, desync, faults>>
      BY <1>3 DEF Arrive, Receive
  <2>2. Head(line) \in Byte
      BY <2>1, SeqFacts DEF TypeOK
  <2> QED
      BY <1>2, <2>1, <2>2 DEF TypeOK
<1>4. CASE ArriveDamaged
  <2>1. PICK b \in Byte : Receive(b)
      BY <1>4 DEF ArriveDamaged
  <2>2. faults' \in Nat
      BY <1>4 DEF ArriveDamaged, TypeOK
  <2>3. \/ desync' = TRUE /\ damaged' = damaged
        \/ damaged' = TRUE /\ desync' = desync
      BY <1>4 DEF ArriveDamaged
  <2>4. damaged' \in BOOLEAN /\ desync' \in BOOLEAN
      BY <2>3, Zenon DEF TypeOK
  <2> QED
      BY <1>2, <2>1, <2>2, <2>4 DEF TypeOK
<1>5. CASE Lose
    BY <1>5, SeqFacts DEF Lose, TypeOK
<1>6. CASE Deaf
    BY <1>6, SeqFacts DEF Deaf, TypeOK
<1>7. CASE ReceiveTimeout
    BY <1>7 DEF ReceiveTimeout, TypeOK, Interrupts
<1>8. CASE EndOfTransmission
    BY <1>8 DEF EndOfTransmission, TypeOK, Interrupts
<1> QED
    BY <1>1, <1>3, <1>4, <1>5, <1>6, <1>7, <1>8 DEF Line

\* The steps of the interrupt handler and of the main loop keep the types.
LEMMA CodeTypes == ASSUME TypeOK, Isr \/ Main PROVE TypeOK'
<1> USE DEF wire, uart, buffer
<1>1. CASE isr_rs485
    BY <1>1 DEF isr_rs485, TypeOK
<1>2. CASE Drain
  <2>1. Head(fifo) \in Byte /\ fifo' \in Seq(Byte)
      BY <1>2, SeqFacts DEF Drain, TypeOK
  <2>2. data' \in [0 .. SERIAL_BUF_SIZE - 1 -> Byte]
      BY <1>2, <2>1 DEF Drain, TypeOK
  <2>3. csum' \in Byte
    <3>1. csum' = (csum + Head(fifo)) % Base
        BY <1>2 DEF Drain
    <3>2. csum \in Nat /\ Head(fifo) \in Nat
        BY <2>1, Constants DEF TypeOK
    <3>3. csum + Head(fifo) \in Nat
        BY <3>2
    <3> QED
        BY <3>1, <3>3, Constants
  <2>4. index' \in 0 .. SERIAL_BUF_SIZE /\ status' \subseteq Interrupts
    <3>1. status' \subseteq status
        BY <1>2 DEF Drain
    <3>2. index' = index + 1 /\ index < SERIAL_BUF_SIZE
        BY <1>2 DEF Drain, Room
    <3> QED
        BY <3>1, <3>2, Constants DEF TypeOK
  <2>5. UNCHANGED <<wire, armed, rd, sending, pc, task, main, execs>>
      BY <1>2 DEF Drain
  <2> QED
      BY <2>1, <2>2, <2>3, <2>4, <2>5 DEF TypeOK
<1>3. CASE SpinOut
    BY <1>3 DEF SpinOut, TypeOK
<1>4. CASE EndOfPacket
    BY <1>4 DEF EndOfPacket, TypeOK
<1>5. CASE Incomplete
  <2>1. ResetBuffer \/ UNCHANGED buffer
      BY <1>5 DEF Incomplete
  <2> QED
      BY <1>5, <2>1, ResetTypes DEF Incomplete, TypeOK
<1>6. CASE rs485_process_data
  <2>1. ResetBuffer /\ sending' \in BOOLEAN
      BY <1>6 DEF rs485_process_data
  <2> QED
      BY <1>6, <2>1, ResetTypes DEF rs485_process_data, TypeOK
<1>7. CASE TaskIhm
    BY <1>7 DEF TaskIhm, TypeOK
<1>8. CASE ihm_process_data
    BY <1>8 DEF ihm_process_data, TypeOK
<1>9. CASE ihm_tx_handler
    BY <1>9 DEF ihm_tx_handler, TypeOK
<1>10. CASE ihm_exit
    BY <1>10, ResetTypes DEF ihm_exit, TypeOK
<1> QED
    BY <1>1, <1>2, <1>3, <1>4, <1>5, <1>6, <1>7, <1>8, <1>9, <1>10 DEF Isr, Main

\* TypeOK, in particular that no packet drives the index out of recv_buffer.data.
THEOREM BufferSafe == Spec => []TypeOK
<1>1. TypeOK /\ [Next]_vars => TypeOK'
  <2>1. TypeOK /\ UNCHANGED vars => TypeOK'
      BY DEF vars, TypeOK
  <2> QED
      BY <2>1, WireTypes, CodeTypes DEF Next
<1> QED
    BY <1>1, InitTypes, PTL DEF Spec

\* OwnHeader: the handler never processes a packet on the size bytes that an
\* earlier one left in the buffer.
THEOREM HeaderIsOwn == Spec => []OwnHeader
<1>1. Init => OwnHeader
    BY DEF Init, OwnHeader
<1>2. ASSUME TypeOK, OwnHeader, [Next]_vars PROVE OwnHeader'
  <2> USE DEF wire, uart, buffer, OwnHeader
  <2>1. CASE UNCHANGED vars
      BY <1>2, <2>1 DEF vars
  <2>2. CASE \E f \in Frames : Transmit(f)
      BY <1>2, <2>2 DEF Transmit
  <2>3. CASE Line
      BY <1>2, <2>3 DEF Line, Arrive, ArriveDamaged, Receive, Lose, Deaf
  <2>4. CASE ReceiveTimeout \/ EndOfTransmission
      BY <1>2, <2>4 DEF ReceiveTimeout, EndOfTransmission
  <2>5. CASE Isr
    <3>1. CASE EndOfPacket
        BY <1>2, <3>1, CompleteSize DEF EndOfPacket
    <3>2. CASE isr_rs485 \/ Drain \/ SpinOut \/ Incomplete \/ rs485_process_data
        BY <3>2 DEF isr_rs485, Drain, SpinOut, Incomplete, rs485_process_data
    <3> QED
        BY <2>5, <3>1, <3>2 DEF Isr
  <2>6. CASE Main
      BY <1>2, <2>6 DEF Main, TaskIhm, ihm_process_data, ihm_tx_handler, ihm_exit
  <2> QED
      BY <1>2, <2>1, <2>2, <2>3, <2>4, <2>5, <2>6 DEF Next
<1> QED
    BY <1>1, <1>2, BufferSafe, PTL DEF Spec


----------------------------------------------------------------------------
(* PacketsHandled: what the wires, the FIFO and the buffer hold, put one    *)
(* after the other, is always the packet the host sent last.                *)

\* The checksum after every byte of a valid packet.
Total(f) == CHOOSE s \in Totals(f) : s[Len(f)] = 0

\* No packet gets a second changed byte, which the checksum could not tell from
\* the first one undone.
OneFaultPerPacket == [][ArriveDamaged => ~damaged]_vars

\* The interrupts of the UART are about characters that are there.
UartInv ==
    /\ index = 0 => csum = 0
    /\ "RX" \in status => Len(fifo) >= Level
    /\ "RT" \in status => fifo # <<>>
    /\ variant # "ihm" => ~task /\ main = "idle"

\* Characters in the FIFO are going to be read.
NeverDeaf == fifo # <<>> /\ ~armed => status = {"RT"} \/ pc = "drain"

\* The direction pin is held exactly while an answer goes out, and then nobody
\* else is on the line.
Released ==
    /\ ~(sending /\ "TX" \in status)
    /\ rd = "ON" <=> (sending \/ "TX" \in status)
    /\ rd = "ON" => line = <<>> /\ fifo = <<>> /\ pc = "idle"

\* From 1 Mbaud on no handler leaves anything behind, whatever the line did.
HighInv ==
    variant = "high" =>
        /\ index + Len(fifo) + Len(line) <= SERIAL_BUF_SIZE
        /\ pc = "idle" => index = 0
        /\ pc \in {"decide", "process"} => fifo = <<>> /\ line = <<>>
        /\ Released /\ NeverDeaf

\* Buffer, FIFO and line are the packet, except for the byte at bad (if any),
\* and the checksum is that of the packet until this byte is in the buffer.
Stream(bad) ==
    /\ cur \in Frames
    /\ index + Len(fifo) + Len(line) = Len(cur)
    /\ \A i \in 1 .. Len(line) : line[i] = cur[index + Len(fifo) + i]
    /\ \A i \in 1 .. Len(fifo) : index + i # bad => fifo[i] = cur[index + i]
    /\ \A i \in 1 .. index : i # bad => data[i - 1] = cur[i]
    /\ damaged <=> bad # 0
    /\ bad \in 0 .. index + Len(fifo) /\ bad \notin {3, 4}
    /\ bad > index => fifo[bad - index] # cur[bad]
    /\ csum = Total(cur)[index] <=> (bad = 0 \/ index < bad)

\* No size bytes of an old packet are going to drop the next one.
Ready == variant # "high" => sCarga <= SERIAL_BUF_SIZE

\* A packet is on its way, and has not been executed.
Underway ==
    /\ execs = <<>>
    /\ rd = "OFF" /\ ~sending /\ "TX" \notin status
    /\ NeverDeaf
    /\ index <= 3 => Ready
    /\ task \/ pc = "process" \/ main # "idle" => index = Len(cur)
    /\ task => main = "idle"
    /\ main \in {"idle", "check"}
    /\ task \/ main # "idle" => pc = "idle"
    /\ index = Len(cur) => pc # "idle" \/ task \/ main = "check"

Receiving == Underway /\ \E bad \in Nat : Stream(bad)

\* It has been dealt with, or there has been none.
Done ==
    /\ line = <<>> /\ fifo = <<>> /\ pc = "idle" /\ ~task
    /\ cur # <<>> => execs = Expected
    /\ status \subseteq {"TX"} /\ Released
    /\ \/ main = "idle" /\ index = 0
       \/ variant = "ihm" /\ main \in {"answer", "exit"}
    /\ Ready

\* The inductive invariant.
Delivery == desync \/ Receiving \/ Done
SerialInv == UartInv /\ HighInv /\ Delivery

\* Sums of bytes, and that one byte decides them.
LEMMA ByteSums ==
    /\ \A a, b \in Byte : (a + b) % Base = IF a + b < Base THEN a + b ELSE a + b - Base
    /\ \A a, b, x \in Byte : (a + x) % Base = (b + x) % Base => a = b
    /\ \A a, x, y \in Byte : (a + x) % Base = (a + y) % Base => x = y
<1>1. Base \in Nat \ {0} /\ \A a \in Byte : a \in Nat /\ a < Base
  BY SizesAssumption DEF Byte
<1>2. ASSUME NEW a \in Byte, NEW b \in Byte
      PROVE  (a + b) % Base = IF a + b < Base THEN a + b ELSE a + b - Base
  <2>1. ASSUME NEW m \in Nat, m < Base PROVE m % Base = m /\ (m + Base) % Base = m
    BY <1>1, <2>1
  <2>2. CASE a + b < Base
    BY <1>1, <2>1, <2>2
  <2>3. CASE a + b >= Base
    <3>1. a + b - Base \in Nat /\ a + b - Base < Base /\ a + b = (a + b - Base) + Base
      BY <1>1, <2>3
    <3> QED BY <1>1, <2>1, <2>3, <3>1
  <2> QED BY <1>1, <2>2, <2>3
<1>3. \A a, b, x \in Byte : (a + x) % Base = (b + x) % Base => a = b
  BY <1>1, <1>2
<1>4. \A a, x, y \in Byte : (a + x) % Base = (a + y) % Base => x = y
  BY <1>1, <1>2
<1> QED BY <1>2, <1>3, <1>4

\* Positions in a sequence one byte further.
LEMMA SeqSteps ==
    \A s \in Seq(Byte) :
        /\ Len(s) \in Nat /\ (s = <<>> <=> Len(s) = 0)
        /\ \A i \in 1 .. Len(s) : s[i] \in Byte
        /\ s # <<>> => /\ Head(s) = s[1] /\ Len(Tail(s)) = Len(s) - 1
                       /\ \A i \in 1 .. Len(s) - 1 : Tail(s)[i] = s[i + 1]
        /\ \A b \in Byte : /\ Len(Append(s, b)) = Len(s) + 1
                           /\ Append(s, b)[Len(s) + 1] = b
                           /\ \A i \in 1 .. Len(s) : Append(s, b)[i] = s[i]
OBVIOUS

\* A packet of the host.
LEMMA FrameFacts ==
    ASSUME ValidFrames, NEW f \in Frames
    PROVE  /\ f \in Seq(Byte) /\ f # <<>> /\ Len(f) \in 5 .. SERIAL_BUF_SIZE
           /\ \A i \in 1 .. Len(f) : f[i] \in Byte
           /\ f[3] * Base + f[4] = Len(f) - 5
           /\ \A b \in Byte : f[3] * Base + b <= SERIAL_BUF_SIZE
           /\ \A i \in 0 .. Len(f) : Total(f)[i] \in Byte
           /\ Total(f)[0] = 0 /\ Total(f)[Len(f)] = 0
           /\ \A i \in 1 .. Len(f) : Total(f)[i] = (Total(f)[i - 1] + f[i]) % Base
<1>1. f \in Seq(Byte) /\ Len(f) >= 5 /\ Len(f) <= SERIAL_BUF_SIZE /\ Len(f) \in Nat
  BY FramesAssumption, Constants DEF ValidFrames
<1>2. \A i \in 1 .. Len(f) : f[i] \in Byte
  BY <1>1
<1>3. f[3] * Base + f[4] = Len(f) - 5 /\ f[3] * Base + (Base - 1) <= SERIAL_BUF_SIZE
  BY DEF ValidFrames
<1>4. f[3] * Base \in Nat /\ Base \in Nat
  <2>1. f[3] \in Nat /\ Base \in Nat
    BY <1>1, <1>2, SizesAssumption DEF Byte
  <2> QED BY <2>1
<1>5. \A b \in Byte : f[3] * Base + b <= SERIAL_BUF_SIZE
  <2> DEFINE high == f[3] * Base
  <2>1. high \in Nat /\ Base \in Nat /\ high + (Base - 1) <= SERIAL_BUF_SIZE
    BY <1>3, <1>4
  <2> HIDE DEF high
  <2>2. \A b \in Byte : high + b <= SERIAL_BUF_SIZE
    BY <2>1, Constants DEF Byte
  <2> QED BY <2>2 DEF high
<1>6. Total(f) \in Totals(f) /\ Total(f)[Len(f)] = 0
  BY DEF ValidFrames, Total
<1>7. f # <<>>
  BY <1>1
<1> QED BY <1>1, <1>2, <1>3, <1>5, <1>6, <1>7, Constants DEF Totals

\* What the arrival of a byte does to line and FIFO.
LEMMA Received ==
    ASSUME TypeOK, NEW b \in Byte, Receive(b)
    PROVE  /\ rd = "OFF" /\ armed' = TRUE
           /\ Len(line) \in Nat \ {0} /\ Len(line') = Len(line) - 1
           /\ \A i \in 1 .. Len(line') : line'[i] = line[i + 1]
           /\ Len(fifo) \in Nat /\ Len(fifo') = Len(fifo) + 1 /\ fifo' # <<>>
           /\ \A i \in 1 .. Len(fifo) : fifo'[i] = fifo[i]
           /\ fifo'[Len(fifo) + 1] = b
           /\ status \subseteq status' /\ status' \subseteq status \cup {"RX"}
           /\ "RX" \in status' \ status => Len(fifo') >= Level
           /\ UNCHANGED <<variant, cur, rd, sending, pc, data, index, csum, task, main, execs>>
<1>1. /\ line # <<>> /\ rd = "OFF" /\ line' = Tail(line) /\ fifo' = Append(fifo, b)
      /\ armed' = TRUE
      /\ status' = IF Len(fifo') >= Level THEN status \cup {"RX"} ELSE status
      /\ UNCHANGED <<variant, cur, rd, sending, pc, data, index, csum, task, main, execs>>
  BY DEF Receive, buffer
<1>2. line \in Seq(Byte) /\ fifo \in Seq(Byte)
  BY DEF TypeOK
<1>3. /\ Len(line) \in Nat \ {0} /\ Len(line') = Len(line) - 1
      /\ \A i \in 1 .. Len(line') : line'[i] = line[i + 1]
  BY <1>1, <1>2, SeqSteps
<1>4. /\ Len(fifo) \in Nat /\ Len(fifo') = Len(fifo) + 1 /\ fifo' # <<>>
      /\ \A i \in 1 .. Len(fifo) : fifo'[i] = fifo[i]
      /\ fifo'[Len(fifo) + 1] = b
  BY <1>1, <1>2, SeqSteps
<1> QED BY <1>1, <1>3, <1>4

\* A byte arrives, right or changed.
LEMMA Arrival ==
    ASSUME TypeOK, Arrive \/ ArriveDamaged
    PROVE  \E b \in Byte : Receive(b)
<1>1. CASE Arrive
  BY <1>1, SeqFacts DEF Arrive, Receive, TypeOK
<1>2. CASE ArriveDamaged
  BY <1>2 DEF ArriveDamaged
<1> QED BY <1>1, <1>2

\* What Drain does.
LEMMA Drained ==
    ASSUME TypeOK, Drain
    PROVE  /\ pc = "drain" /\ index < SERIAL_BUF_SIZE /\ index' = index + 1
           /\ data'[index] = fifo[1] /\ \A i \in 0 .. index - 1 : data'[i] = data[i]
           /\ fifo[1] \in Byte /\ csum' = (csum + fifo[1]) % Base
           /\ Len(fifo) \in Nat \ {0} /\ Len(fifo') = Len(fifo) - 1 /\ fifo # <<>>
           /\ \A i \in 1 .. Len(fifo') : fifo'[i] = fifo[i + 1]
           /\ fifo' = <<>> <=> Len(fifo') = 0
           /\ status' = status \ ((IF Len(fifo') < Level THEN {"RX"} ELSE {})
                                  \cup (IF fifo' = <<>> THEN {"RT"} ELSE {}))
           /\ UNCHANGED <<variant, line, cur, damaged, desync, faults, armed, rd, sending,
                          pc, task, main, execs>>
<1>1. /\ pc = "drain" /\ fifo # <<>> /\ index < SERIAL_BUF_SIZE /\ index' = index + 1
      /\ data' = [data EXCEPT ![index] = Head(fifo)]
      /\ csum' = (csum + Head(fifo)) % Base
      /\ fifo' = Tail(fifo)
      /\ status' = status \ ((IF Len(fifo') < Level THEN {"RX"} ELSE {})
                             \cup (IF fifo' = <<>> THEN {"RT"} ELSE {}))
      /\ UNCHANGED <<variant, line, cur, damaged, desync, faults, armed, rd, sending,
                     pc, task, main, execs>>
  BY DEF Drain, Room, wire
<1>2. fifo \in Seq(Byte) /\ fifo' \in Seq(Byte)
  BY <1>1 DEF TypeOK
<1>3. /\ Len(fifo) \in Nat \ {0} /\ Len(fifo') = Len(fifo) - 1
      /\ \A i \in 1 .. Len(fifo') : fifo'[i] = fifo[i + 1]
      /\ Head(fifo) = fifo[1] /\ fifo[1] \in Byte
  BY <1>1, <1>2, SeqSteps
<1>5. fifo' = <<>> <=> Len(fifo') = 0
  BY <1>2, SeqSteps
<1>4. data'[index] = Head(fifo) /\ \A i \in 0 .. index - 1 : data'[i] = data[i]
  BY <1>1, Constants DEF TypeOK
<1> QED BY <1>1, <1>3, <1>4, <1>5

\* UartInv is inductive.
LEMMA UartStep == ASSUME TypeOK, UartInv, [Next]_vars PROVE UartInv'
<1> USE DEF UartInv
<1>0. Level \in Nat \ {0} /\ index \in Nat
  BY SizesAssumption, Constants DEF TypeOK
<1>1. CASE UNCHANGED vars
  BY <1>1 DEF vars
<1>2. CASE \E f \in Frames : Transmit(f)
  BY <1>2 DEF Transmit, uart, buffer, Idle
<1>3. CASE Arrive \/ ArriveDamaged
  <2>1. PICK b \in Byte : Receive(b)
    BY <1>3, Arrival
  <2>2. /\ Len(fifo) \in Nat /\ Len(fifo') = Len(fifo) + 1 /\ fifo' # <<>>
        /\ status \subseteq status' /\ status' \subseteq status \cup {"RX"}
        /\ "RX" \in status' \ status => Len(fifo') >= Level
        /\ UNCHANGED <<variant, index, csum, task, main>>
    BY <2>1, Received
  <2> QED BY <1>0, <2>2
<1>4. CASE Lose \/ Deaf
  BY <1>4 DEF Lose, Deaf, uart, buffer
<1>5. CASE ReceiveTimeout
  BY <1>5 DEF ReceiveTimeout, wire, buffer
<1>6. CASE EndOfTransmission
  BY <1>6 DEF EndOfTransmission, wire, buffer
<1>7. CASE isr_rs485
  BY <1>7 DEF isr_rs485, wire, buffer
<1>8. CASE Drain
  BY <1>0, <1>8, Drained
<1>9. CASE SpinOut
  BY <1>9 DEF SpinOut, wire, uart, buffer
<1>10. CASE EndOfPacket
  BY <1>10 DEF EndOfPacket, wire, uart, buffer
<1>11. CASE Incomplete
  BY <1>11 DEF Incomplete, wire, uart, buffer, ResetBuffer
<1>12. CASE rs485_process_data
  BY <1>12 DEF rs485_process_data, wire, uart, ResetBuffer
<1>13. CASE Main
  BY <1>13 DEF Main, TaskIhm, ihm_process_data, ihm_tx_handler, ihm_exit, wire, uart, buffer,
               ResetBuffer
<1> QED
  BY <1>1, <1>2, <1>3, <1>4, <1>5, <1>6, <1>7, <1>8, <1>9, <1>10, <1>11, <1>12, <1>13
  DEF Next, Line, Isr

\* HighInv is inductive.
LEMMA HighStep ==
    ASSUME ValidFrames, TypeOK, UartInv, HighInv, [Next]_vars PROVE HighInv'
<1> SUFFICES ASSUME variant' = "high" PROVE HighInv'
  BY DEF HighInv
<1>0. variant = "high" /\ ~task /\ main = "idle"
  BY DEF Next, Transmit, Line, Arrive, ArriveDamaged, Receive, Lose, Deaf, ReceiveTimeout,
         EndOfTransmission, Isr, isr_rs485, Drain, SpinOut, EndOfPacket, Incomplete,
         rs485_process_data, Main, TaskIhm, ihm_process_data, ihm_tx_handler, ihm_exit,
         wire, vars, UartInv
<1>h. /\ index + Len(fifo) + Len(line) <= SERIAL_BUF_SIZE
      /\ pc = "idle" => index = 0
      /\ pc \in {"decide", "process"} => fifo = <<>> /\ line = <<>>
      /\ Released /\ NeverDeaf
  BY <1>0 DEF HighInv
<1>t. /\ index \in Nat /\ Len(fifo) \in Nat /\ Len(line) \in Nat /\ SERIAL_BUF_SIZE \in Nat
      /\ fifo = <<>> <=> Len(fifo) = 0
      /\ line = <<>> <=> Len(line) = 0
      /\ rd \in {"ON", "OFF"} /\ status \subseteq Interrupts
  BY SeqSteps, Constants DEF TypeOK
<1>l. Len(<<>>) = 0
  OBVIOUS
<1> USE DEF Released, NeverDeaf
<1>1. CASE UNCHANGED vars
  BY <1>1, <1>h DEF vars, HighInv
<1>2. ASSUME NEW f \in Frames, Transmit(f) PROVE HighInv'
  <2>1. /\ status = {} /\ pc = "idle" /\ ~(armed /\ fifo # <<>>) /\ ~sending
        /\ line' = f /\ UNCHANGED <<fifo, status, armed, rd, sending, pc, index>>
    BY <1>2 DEF Transmit, Idle, uart, buffer
  <2>2. fifo = <<>> /\ index = 0 /\ rd = "OFF"
    BY <1>h, <1>t, <2>1
  <2>3. Len(f) \in Nat /\ Len(f) <= SERIAL_BUF_SIZE
    BY FrameFacts, Constants
  <2> QED BY <1>l, <2>1, <2>2, <2>3 DEF HighInv
<1>3. CASE Arrive \/ ArriveDamaged
  <2>1. PICK b \in Byte : Receive(b)
    BY <1>3, Arrival
  <2>2. /\ rd = "OFF" /\ armed' = TRUE
        /\ Len(line) \in Nat \ {0} /\ Len(line') = Len(line) - 1
        /\ Len(fifo') = Len(fifo) + 1
        /\ status \subseteq status' /\ status' \subseteq status \cup {"RX"}
        /\ UNCHANGED <<rd, sending, pc, index>>
    BY <2>1, Received
  <2>3. line # <<>> /\ pc \notin {"decide", "process"}
    BY <1>h, <1>t, <2>2
  <2>4. ~sending /\ "TX" \notin status'
    BY <1>h, <2>2
  <2> QED BY <1>h, <1>t, <2>2, <2>3, <2>4 DEF HighInv
<1>4. CASE Lose \/ Deaf
  <2>1. /\ line # <<>> /\ line' = Tail(line)
        /\ UNCHANGED <<fifo, status, armed, rd, sending, pc, index>>
    BY <1>4 DEF Lose, Deaf, uart, buffer
  <2>2. Len(line') = Len(line) - 1
    BY <2>1, SeqSteps DEF TypeOK
  <2> QED BY <1>h, <1>t, <2>1, <2>2 DEF HighInv
<1>5. CASE ReceiveTimeout
  BY <1>5, <1>h DEF ReceiveTimeout, wire, buffer, HighInv
<1>6. CASE EndOfTransmission
  BY <1>6, <1>h DEF EndOfTransmission, wire, buffer, HighInv
<1>7. CASE isr_rs485
  <2>1. /\ pc = "idle" /\ status # {} /\ status' = {}
        /\ pc' = IF status \in {{"RX"}, {"RT"}} THEN "drain" ELSE "idle"
        /\ rd' = IF status = {"TX"} THEN "OFF" ELSE rd
        /\ UNCHANGED <<line, fifo, armed, sending, index>>
    BY <1>7 DEF isr_rs485, wire, buffer
  <2>2. Level > 0
    BY SizesAssumption
  <2>3. CASE rd = "ON"
    <3>1. status \subseteq {"TX"}
      BY <1>h, <1>t, <2>2, <2>3, SizesAssumption DEF UartInv, Interrupts
    <3>2. status = {"TX"} /\ ~sending /\ fifo = <<>>
      BY <1>h, <2>1, <2>3, <3>1
    <3>3. pc' = "idle" /\ rd' = "OFF" /\ status' = {} /\ ~sending' /\ index' = 0
      BY <1>h, <2>1, <3>2
    <3> QED BY <1>h, <2>1, <2>3, <3>2, <3>3 DEF HighInv
  <2>4. CASE rd = "OFF"
    <3>1. rd' = "OFF" /\ ~sending /\ status' = {} /\ pc' \in {"idle", "drain"}
      BY <1>h, <2>1, <2>4
    <3>2. fifo # <<>> /\ ~armed => pc' = "drain"
      BY <1>h, <2>1
    <3> QED BY <1>h, <2>1, <3>1, <3>2 DEF HighInv
  <2> QED BY <1>t, <2>3, <2>4
<1>8. CASE Drain
  <2>1. rd = "OFF" /\ status' \subseteq status
    BY <1>h, <1>t, <1>8, Drained
  <2> QED BY <1>h, <1>t, <1>8, <2>1, Drained DEF HighInv
<1>9. CASE SpinOut
  <2>1. /\ fifo = <<>> \/ index >= SERIAL_BUF_SIZE
        /\ line = <<>> \/ index >= SERIAL_BUF_SIZE
        /\ pc = "drain" /\ pc' = "decide"
        /\ UNCHANGED <<line, fifo, status, armed, rd, sending, index>>
    BY <1>0, <1>9, <1>t DEF SpinOut, Room, wire, uart, buffer
  <2>2. fifo = <<>> /\ line = <<>> /\ rd = "OFF"
    BY <1>h, <1>t, <2>1
  <2> QED BY <1>h, <2>1, <2>2 DEF HighInv
<1>10. CASE EndOfPacket
  <2>1. /\ pc = "decide" /\ pc' = "process"
        /\ UNCHANGED <<line, fifo, status, armed, rd, sending, index>>
    BY <1>0, <1>10 DEF EndOfPacket, wire, uart, buffer
  <2> QED BY <1>h, <2>1 DEF HighInv
<1>11. CASE Incomplete
  <2>1. /\ pc = "decide" /\ pc' = "idle" /\ index' = 0
        /\ UNCHANGED <<line, fifo, status, armed, rd, sending>>
    BY <1>0, <1>11 DEF Incomplete, ResetBuffer, wire, uart
  <2> QED BY <1>h, <1>t, <2>1 DEF HighInv
<1>12. CASE rs485_process_data
  <2>1. /\ pc = "process" /\ pc' = "idle" /\ index' = 0
        /\ sending' = (Accepted /\ Answers)
        /\ rd' = IF Accepted /\ Answers THEN "ON" ELSE rd
        /\ UNCHANGED <<line, fifo, status, armed>>
    BY <1>12 DEF rs485_process_data, ResetBuffer, wire, uart
  <2>2. rd = "OFF" /\ "TX" \notin status /\ fifo = <<>> /\ line = <<>>
    BY <1>h, <1>t, <2>1
  <2>3. rd' = "ON" <=> sending'
    BY <2>1, <2>2
  <2> QED BY <1>h, <1>t, <2>1, <2>2, <2>3 DEF HighInv
<1>13. CASE Main
  BY <1>0, <1>13, SizesAssumption
     DEF Main, TaskIhm, ihm_process_data, ihm_tx_handler, ihm_exit
<1> QED
  BY <1>1, <1>2, <1>3, <1>4, <1>5, <1>6, <1>7, <1>8, <1>9, <1>10, <1>11, <1>12, <1>13
  DEF Next, Line, Isr

\* What the stream says of the packet's end.
LEMMA StreamFacts ==
    ASSUME ValidFrames, TypeOK, NEW bad \in Nat, Stream(bad)
    PROVE  /\ cur \in Frames /\ cur # <<>> /\ Len(cur) \in 5 .. SERIAL_BUF_SIZE
           /\ index \in 0 .. Len(cur) /\ Len(fifo) \in Nat /\ Len(line) \in Nat
           /\ index = Len(cur) => fifo = <<>> /\ line = <<>>
           /\ index >= 4 => sCarga = Len(cur) - 5
           /\ Complete <=> index = Len(cur)
           /\ \A i \in 1 .. Len(cur) : cur[i] \in Byte
<1>1. /\ cur \in Frames /\ cur # <<>> /\ Len(cur) \in 5 .. SERIAL_BUF_SIZE
      /\ \A i \in 1 .. Len(cur) : cur[i] \in Byte
      /\ cur[3] * Base + cur[4] = Len(cur) - 5
  <2>1. cur \in Frames
    BY DEF Stream
  <2> QED BY <2>1, FrameFacts
<1>2. /\ index \in Nat /\ Len(fifo) \in Nat /\ Len(line) \in Nat
      /\ index + Len(fifo) + Len(line) = Len(cur)
      /\ fifo = <<>> <=> Len(fifo) = 0
      /\ line = <<>> <=> Len(line) = 0
  BY SeqSteps, Constants DEF TypeOK, Stream
<1>3. index \in 0 .. Len(cur) /\ (index = Len(cur) => fifo = <<>> /\ line = <<>>)
  BY <1>1, <1>2
<1>4. ASSUME index >= 4 PROVE sCarga = Len(cur) - 5
  <2>1. data[2] = cur[3] /\ data[3] = cur[4]
    <3>1. 3 \in 1 .. index /\ 4 \in 1 .. index /\ bad \notin {3, 4}
      BY <1>2, <1>4 DEF Stream
    <3>2. \A i \in 1 .. index : i # bad => data[i - 1] = cur[i]
      BY DEF Stream
    <3>3. data[3 - 1] = cur[3] /\ data[4 - 1] = cur[4]
      BY <3>1, <3>2
    <3> QED BY <3>3
  <2> QED BY <1>1, <2>1 DEF sCarga
<1>5. Complete => index = Len(cur)
  <2>1. Complete => index >= 5
    BY CompleteSize
  <2> QED BY <1>1, <1>2, <1>3, <1>4, <2>1 DEF Complete
<1>6. index = Len(cur) => Complete
  BY <1>1, <1>2, <1>4 DEF Complete
<1> QED BY <1>1, <1>2, <1>3, <1>4, <1>5, <1>6

\* Once all of it is in the buffer, the checksum tells whether a byte has been
\* changed, and BSMPprocess gets what the host expects.
LEMMA Judged ==
    ASSUME ValidFrames, TypeOK, NEW bad \in Nat, Stream(bad), index = Len(cur), execs = <<>>
    PROVE  Expected = IF Accepted THEN Append(execs, Execution) ELSE execs
<1>1. /\ cur \in Frames /\ Len(cur) \in 5 .. SERIAL_BUF_SIZE /\ sCarga = Len(cur) - 5
      /\ Len(fifo) = 0 /\ Len(cur) >= 5
  BY StreamFacts
<1>2. Total(cur)[Len(cur)] = 0 /\ cur \in Seq(Byte)
  BY <1>1, FrameFacts
<1>3. csum = 0 <=> ~damaged
  <2>1. bad <= index
    BY <1>1 DEF Stream
  <2> QED BY <1>2, <2>1 DEF Stream
<1>4. ASSUME ~damaged
      PROVE  /\ \A i \in 1 .. index : data[i - 1] = cur[i]
             /\ data[0] = cur[1]
  <2>1. \A i \in 1 .. index : data[i - 1] = cur[i]
    BY <1>4 DEF Stream
  <2>2. 1 \in 1 .. index
    BY <1>1
  <2>3. data[1 - 1] = cur[1]
    BY <2>1, <2>2
  <2> QED BY <2>1, <2>3
<1>5. CASE damaged
  BY <1>3, <1>5 DEF Accepted, Expected
<1>6. CASE ~damaged
  <2>1. Accepted <=> Known(cur[1])
    BY <1>1, <1>3, <1>4, <1>6 DEF Accepted
  <2>2. [i \in 1 .. index |-> data[i - 1]] = cur
    <3>1. cur = [i \in 1 .. Len(cur) |-> cur[i]]
      BY <1>2
    <3> QED BY <1>4, <1>6, <3>1
  <2>3. index = sCarga + 5
    BY <1>1
  <2>4. Execution = [ps |-> IF \E p \in PS : Address(p) = cur[1]
                            THEN {Target(cur[1])} ELSE PS,
                     packet |-> cur, wellFormed |-> TRUE]
    BY <1>4, <1>6, <2>2, <2>3 DEF Execution
  <2> QED BY <1>6, <2>1, <2>4 DEF Expected
<1> QED BY <1>5, <1>6

\* A byte moves from the line to the FIFO.
LEMMA StreamArrive ==
    ASSUME TypeOK, NEW bad \in Nat, Stream(bad), Arrive PROVE Stream(bad)'
<1>1. Head(line) \in Byte /\ Head(line) = line[1] /\ Receive(Head(line))
  <2>1. line # <<>> /\ Receive(Head(line))
    BY DEF Arrive, Receive
  <2> QED BY <2>1, SeqFacts, SeqSteps DEF TypeOK
<1>2. /\ Len(line) \in Nat \ {0} /\ Len(line') = Len(line) - 1
      /\ \A i \in 1 .. Len(line') : line'[i] = line[i + 1]
      /\ Len(fifo) \in Nat /\ Len(fifo') = Len(fifo) + 1
      /\ \A i \in 1 .. Len(fifo) : fifo'[i] = fifo[i]
      /\ fifo'[Len(fifo) + 1] = line[1]
      /\ UNCHANGED <<cur, data, index, csum, damaged>>
  BY <1>1, Received DEF Arrive
<1>3. index \in Nat
  BY Constants DEF TypeOK
<1>4. line[1] = cur[index + Len(fifo) + 1]
  BY <1>2 DEF Stream
<1>5. \A i \in 1 .. Len(line') : line'[i] = cur[index + Len(fifo') + i]
  <2> TAKE i \in 1 .. Len(line')
  <2>1. line[i + 1] = cur[index + Len(fifo) + (i + 1)]
    BY <1>2 DEF Stream
  <2>2. index + Len(fifo) + (i + 1) = index + Len(fifo') + i
    BY <1>2, <1>3
  <2> QED BY <1>2, <2>1, <2>2
<1>6. \A i \in 1 .. Len(fifo') : index + i # bad => fifo'[i] = cur[index + i]
  <2> TAKE i \in 1 .. Len(fifo')
  <2>1. CASE i \in 1 .. Len(fifo)
    BY <1>2, <2>1 DEF Stream
  <2>2. CASE i = Len(fifo) + 1
    <3>1. index + Len(fifo) + 1 = index + i
      BY <1>2, <1>3, <2>2
    <3> QED BY <1>2, <1>4, <2>2, <3>1
  <2> QED BY <1>2, <2>1, <2>2
<1>7. bad > index => fifo'[bad - index] # cur[bad]
  BY <1>2, <1>3 DEF Stream
<1>8. index + Len(fifo) + Len(line) = Len(cur) /\ bad \in 0 .. index + Len(fifo)
  BY DEF Stream
<1>9. index' + Len(fifo') + Len(line') = Len(cur') /\ bad \in 0 .. index' + Len(fifo')
  BY <1>2, <1>3, <1>8
<1>10. /\ cur' \in Frames /\ (damaged' <=> bad # 0) /\ bad \notin {3, 4}
       /\ csum' = Total(cur')[index'] <=> (bad = 0 \/ index' < bad)
       /\ \A i \in 1 .. index' : i # bad => data'[i - 1] = cur'[i]
  BY <1>2 DEF Stream
<1>11. bad > index' => fifo'[bad - index'] # cur'[bad]
  BY <1>2, <1>7
<1>12. \A i \in 1 .. Len(line') : line'[i] = cur'[index' + Len(fifo') + i]
  BY <1>2, <1>5
<1>13. \A i \in 1 .. Len(fifo') : index' + i # bad => fifo'[i] = cur'[index' + i]
  BY <1>2, <1>6
<1> QED BY <1>9, <1>10, <1>11, <1>12, <1>13 DEF Stream

\* A byte of the packet is changed on its way.
LEMMA StreamDamaged ==
    ASSUME TypeOK, ArriveDamaged, ~damaged, ~desync', NEW bad \in Nat, Stream(bad),
           NEW now \in Nat, now = index + Len(fifo) + 1
    PROVE  Stream(now)'
<1>1. PICK b \in Byte \ {Head(line)} : Receive(b)
  BY DEF ArriveDamaged
<1>2. /\ Len(line) \in Nat \ {0} /\ Len(line') = Len(line) - 1
      /\ \A i \in 1 .. Len(line') : line'[i] = line[i + 1]
      /\ Len(fifo) \in Nat /\ Len(fifo') = Len(fifo) + 1
      /\ \A i \in 1 .. Len(fifo) : fifo'[i] = fifo[i]
      /\ fifo'[Len(fifo) + 1] = b
      /\ UNCHANGED <<cur, data, index, csum>>
  BY <1>1, Received
<1>3. index \in Nat
  BY Constants DEF TypeOK
<1>4. b # cur[index + Len(fifo) + 1]
  <2>1. line # <<>>
    BY DEF ArriveDamaged
  <2>2. Head(line) = line[1]
    BY <2>1, SeqSteps DEF TypeOK
  <2> QED BY <1>1, <1>2, <2>2 DEF Stream
<1>5. damaged' = TRUE /\ Len(cur) - Len(line) \notin {2, 3}
  BY DEF ArriveDamaged
<1>6. bad = 0
  BY DEF Stream
<1>7. /\ now \in Nat /\ now # 0 /\ now > index /\ now - index = Len(fifo) + 1
      /\ now <= index' + Len(fifo')
  BY <1>2, <1>3
<1>8. now \notin {3, 4}
  <2>1. index + Len(fifo) + Len(line) = Len(cur)
    BY DEF Stream
  <2>2. Len(cur) - Len(line) = index + Len(fifo)
    BY <1>2, <1>3, <2>1
  <2> QED BY <1>2, <1>3, <1>5, <2>2
<1>9. \A i \in 1 .. Len(line') : line'[i] = cur[index + Len(fifo') + i]
  <2> TAKE i \in 1 .. Len(line')
  <2>1. line[i + 1] = cur[index + Len(fifo) + (i + 1)]
    BY <1>2 DEF Stream
  <2>2. index + Len(fifo) + (i + 1) = index + Len(fifo') + i
    BY <1>2, <1>3
  <2> QED BY <1>2, <2>1, <2>2
<1>10. \A i \in 1 .. Len(fifo') : index + i # now => fifo'[i] = cur[index + i]
  <2> TAKE i \in 1 .. Len(fifo')
  <2>1. CASE i \in 1 .. Len(fifo)
    BY <1>2, <1>3, <1>6, <2>1 DEF Stream
  <2>2. CASE i = Len(fifo) + 1
    BY <1>2, <1>3, <2>2
  <2> QED BY <1>2, <2>1, <2>2
<1>11. \A i \in 1 .. index : data[i - 1] = cur[i]
  BY <1>3, <1>6 DEF Stream
<1>12. csum = Total(cur)[index] /\ cur \in Frames /\ index + Len(fifo) + Len(line) = Len(cur)
  BY <1>6 DEF Stream
<1>13. fifo'[now - index] # cur[now]
  BY <1>2, <1>4, <1>7
<1>14. index' + Len(fifo') + Len(line') = Len(cur')
  <2>1. /\ index' = index /\ cur' = cur /\ Len(fifo') = Len(fifo) + 1 /\ Len(fifo) \in Nat
        /\ Len(line') = Len(line) - 1 /\ Len(line) \in Nat
    BY <1>2
  <2>2. Len(fifo') + Len(line') = Len(fifo) + Len(line)
    BY <2>1
  <2>3. index + Len(fifo) + Len(line) = Len(cur)
    BY <1>12
  <2> QED BY <1>3, <2>1, <2>2, <2>3
<1>15. (csum = Total(cur)[index]) <=> (now = 0 \/ index < now)
  BY <1>3, <1>7, <1>12
<1>16. /\ cur' \in Frames /\ (damaged' <=> now # 0) /\ now \in 0 .. index' + Len(fifo')
       /\ now > index' => fifo'[now - index'] # cur'[now]
       /\ csum' = Total(cur')[index'] <=> (now = 0 \/ index' < now)
  BY <1>2, <1>5, <1>7, <1>12, <1>13, <1>15
<1>17. /\ \A i \in 1 .. Len(line') : line'[i] = cur'[index' + Len(fifo') + i]
       /\ \A i \in 1 .. Len(fifo') : index' + i # now => fifo'[i] = cur'[index' + i]
       /\ \A i \in 1 .. index' : i # now => data'[i - 1] = cur'[i]
  BY <1>2, <1>9, <1>10, <1>11
<1> QED BY <1>8, <1>14, <1>16, <1>17 DEF Stream

\* A byte moves from the FIFO to the buffer.
LEMMA StreamDrain ==
    ASSUME ValidFrames, TypeOK, NEW bad \in Nat, Stream(bad), Drain PROVE Stream(bad)'
<1>1. /\ cur \in Frames /\ index + Len(fifo) + Len(line) = Len(cur)
      /\ damaged <=> bad # 0
      /\ bad \in 0 .. index + Len(fifo) /\ bad \notin {3, 4}
      /\ csum = Total(cur)[index] <=> (bad = 0 \/ index < bad)
  BY DEF Stream
<1>2. /\ index' = index + 1 /\ data'[index] = fifo[1]
      /\ \A i \in 0 .. index - 1 : data'[i] = data[i]
      /\ fifo[1] \in Byte /\ csum' = (csum + fifo[1]) % Base
      /\ Len(fifo) \in Nat \ {0} /\ Len(fifo') = Len(fifo) - 1
      /\ \A i \in 1 .. Len(fifo') : fifo'[i] = fifo[i + 1]
      /\ UNCHANGED <<line, cur, damaged>>
  BY Drained
<1>3. index \in Nat /\ csum \in Byte /\ Len(line) \in Nat
  BY Constants, SeqSteps DEF TypeOK
<1>4. index + 1 \in 1 .. Len(cur)
  BY <1>1, <1>2, <1>3
<1>5. /\ Total(cur)[index] \in Byte /\ cur[index + 1] \in Byte
      /\ Total(cur)[index + 1] = (Total(cur)[index] + cur[index + 1]) % Base
  <2>1. /\ index \in 0 .. Len(cur) /\ (index + 1) - 1 = index
    BY <1>3, <1>4
  <2>2. Total(cur)[index + 1] = (Total(cur)[(index + 1) - 1] + cur[index + 1]) % Base
    BY <1>1, <1>4, FrameFacts
  <2> QED BY <1>1, <1>4, <2>1, <2>2, FrameFacts
<1>6. fifo[1] = cur[index + 1] <=> bad # index + 1
  <2>1. index + 1 # bad => fifo[1] = cur[index + 1]
    BY <1>2 DEF Stream
  <2>2. bad = index + 1 => fifo[1] # cur[bad]
    <3>1. bad = index + 1 => bad > index /\ bad - index = 1
      BY <1>3
    <3>2. bad > index => fifo[bad - index] # cur[bad]
      BY DEF Stream
    <3> QED BY <3>1, <3>2
  <2> QED BY <2>1, <2>2
<1>7. csum' = Total(cur)[index + 1] <=> (bad = 0 \/ index + 1 < bad)
  <2>1. CASE bad = 0 \/ index + 1 < bad
    <3>1. csum = Total(cur)[index] /\ fifo[1] = cur[index + 1]
      BY <1>1, <1>3, <1>6, <2>1
    <3> QED BY <1>2, <1>5, <2>1, <3>1
  <2>2. CASE bad = index + 1
    <3>1. csum = Total(cur)[index] /\ fifo[1] # cur[index + 1]
      BY <1>1, <1>3, <1>6, <2>2
    <3>2. (csum + fifo[1]) % Base # (csum + cur[index + 1]) % Base
      BY <1>2, <1>3, <1>5, <3>1, ByteSums
    <3>3. ~ (bad = 0 \/ index + 1 < bad)
      BY <1>3, <2>2
    <3> QED BY <1>2, <1>5, <3>1, <3>2, <3>3
  <2>3. CASE bad # 0 /\ bad <= index
    <3>1. csum # Total(cur)[index] /\ fifo[1] = cur[index + 1]
      BY <1>1, <1>3, <1>6, <2>3
    <3>2. (csum + fifo[1]) % Base # (Total(cur)[index] + fifo[1]) % Base
      BY <1>2, <1>3, <1>5, <3>1, ByteSums
    <3>3. ~ (bad = 0 \/ index + 1 < bad)
      BY <1>3, <2>3
    <3> QED BY <1>2, <1>5, <3>1, <3>2, <3>3
  <2>4. bad = 0 \/ index + 1 < bad \/ bad = index + 1 \/ bad <= index
    BY <1>3
  <2> QED BY <2>1, <2>2, <2>3, <2>4
<1>8. /\ index' + Len(fifo') + Len(line') = Len(cur')
      /\ bad \in 0 .. index' + Len(fifo')
  <2>1. /\ index' = index + 1 /\ Len(fifo') = Len(fifo) - 1 /\ Len(fifo) \in Nat \ {0}
        /\ UNCHANGED <<line, cur>>
    BY <1>2
  <2>2. index' + Len(fifo') = index + Len(fifo)
    BY <1>3, <2>1
  <2> QED BY <1>1, <2>1, <2>2
<1>9. \A i \in 1 .. Len(line') : line'[i] = cur'[index' + Len(fifo') + i]
  <2>1. index' + Len(fifo') = index + Len(fifo)
    BY <1>2, <1>3
  <2> QED BY <1>2, <2>1 DEF Stream
<1>10. \A i \in 1 .. Len(fifo') : index' + i # bad => fifo'[i] = cur'[index' + i]
  <2> TAKE i \in 1 .. Len(fifo')
  <2>1. i + 1 \in 1 .. Len(fifo) /\ index + (i + 1) = index' + i
    BY <1>2, <1>3
  <2>2. index + (i + 1) # bad => fifo[i + 1] = cur[index + (i + 1)]
    BY <2>1 DEF Stream
  <2> QED BY <1>2, <2>1, <2>2
<1>11. \A i \in 1 .. index' : i # bad => data'[i - 1] = cur'[i]
  <2> TAKE i \in 1 .. index'
  <2>1. CASE i = index + 1
    BY <1>2, <1>3, <1>6, <2>1
  <2>2. CASE i \in 1 .. index
    <3>1. i # bad => data[i - 1] = cur[i]
      BY <2>2 DEF Stream
    <3>2. i - 1 \in 0 .. index - 1
      BY <1>3, <2>2
    <3> QED BY <1>2, <3>1, <3>2
  <2> QED BY <1>2, <1>3, <2>1, <2>2
<1>12. bad > index' => fifo'[bad - index'] # cur'[bad]
  <2> SUFFICES ASSUME bad > index' PROVE fifo'[bad - index'] # cur'[bad]
    OBVIOUS
  <2>1. bad - index' \in 1 .. Len(fifo') /\ (bad - index') + 1 = bad - index /\ bad > index
    BY <1>1, <1>2, <1>3
  <2>2. fifo[bad - index] # cur[bad]
    BY <2>1 DEF Stream
  <2> QED BY <1>2, <2>1, <2>2
<1>13. csum' = Total(cur')[index'] <=> (bad = 0 \/ index' < bad)
  BY <1>2, <1>7
<1> QED BY <1>1, <1>2, <1>8, <1>9, <1>10, <1>11, <1>12, <1>13 DEF Stream

\* The first byte after the size is judged with its own size, the bytes before
\* with what an earlier packet left there.
LEMMA ReadyDrain ==
    ASSUME ValidFrames, TypeOK, NEW bad \in Nat, Stream(bad), Drain, index <= 3 => Ready
    PROVE  index' <= 3 => Ready'
<1> SUFFICES ASSUME index' <= 3, variant # "high" PROVE sCarga' <= SERIAL_BUF_SIZE
  BY Drained DEF Ready
<1>1. /\ index' = index + 1 /\ data'[index] = fifo[1] /\ fifo[1] \in Byte
      /\ Len(fifo) \in Nat \ {0}
      /\ data' = [data EXCEPT ![index] = Head(fifo)]
  BY Drained DEF Drain
<1>2. index \in 0 .. 2 /\ data \in [0 .. SERIAL_BUF_SIZE - 1 -> Byte]
  BY <1>1, Constants DEF TypeOK
<1>3. data'[3] = data[3] /\ data[3] \in Byte
  BY <1>1, <1>2, Constants
<1>4. CASE index # 2
  <2>1. data'[2] = data[2]
    BY <1>1, <1>2, <1>4, Constants
  <2>2. sCarga <= SERIAL_BUF_SIZE
    BY <1>2 DEF Ready
  <2> QED BY <1>3, <2>1, <2>2 DEF sCarga
<1>5. CASE index = 2
  <2>1. data'[2] = cur[3] /\ cur \in Frames
    BY <1>1, <1>5 DEF Stream
  <2>2. cur[3] * Base + data[3] <= SERIAL_BUF_SIZE
    BY <1>3, <2>1, FrameFacts
  <2> QED BY <1>3, <2>1, <2>2 DEF sCarga
<1> QED BY <1>4, <1>5

\* What the properties look at is the same after a step that leaves it alone.
LEMMA SameStream ==
    ASSUME NEW bad, Stream(bad), UNCHANGED <<line, cur, damaged, fifo, data, index, csum>>
    PROVE  Stream(bad)'
BY DEF Stream

LEMMA SameReady == ASSUME Ready, UNCHANGED <<variant, data>> PROVE Ready'
BY DEF Ready, sCarga

LEMMA SameExpected ==
    ASSUME UNCHANGED <<variant, cur, damaged>> PROVE Expected' = Expected
<1>1. \A p : Address(p)' = Address(p)
  BY DEF Address
<1>2. \A a : Target(a)' = Target(a) /\ (Known(a)' <=> Known(a))
  BY <1>1 DEF Target, Known, Address
<1> QED BY <1>1, <1>2 DEF Expected

\* The host sends its next packet: the receiver is ready for it, or no promise
\* is made about it.
LEMMA TransmitStep ==
    ASSUME ValidFrames, TypeOK, UartInv, HighInv, Delivery,
           NEW f \in Frames, Transmit(f), ~desync'
    PROVE  Receiving'
<1>1. /\ line = <<>> /\ status = {} /\ pc = "idle" /\ ~(armed /\ fifo # <<>>) /\ ~sending
      /\ ~task /\ main = "idle"
      /\ line' = f /\ cur' = f /\ execs' = <<>> /\ ~damaged' /\ (desync => InStep)
      /\ UNCHANGED <<variant, fifo, status, armed, rd, sending, pc, data, index, csum,
                     task, main>>
  BY DEF Transmit, Idle, uart, buffer
<1>2. rd \in {"ON", "OFF"} /\ index \in Nat
  BY Constants DEF TypeOK
<1>3. index = 0 /\ fifo = <<>> /\ rd = "OFF" /\ Ready
  <2>1. CASE variant = "high"
    BY <1>1, <1>2, <2>1 DEF HighInv, Released, NeverDeaf, Ready
  <2>2. CASE variant # "high" /\ desync
    BY <1>1, <2>2 DEF InStep, Ready
  <2>3. CASE Receiving
    <3>1. PICK bad \in Nat : Stream(bad)
      BY <2>3 DEF Receiving
    <3>2. fifo # <<>> => armed
      BY <1>1, <2>3 DEF Receiving, Underway, NeverDeaf
    <3>3. index + Len(fifo) + Len(line) = Len(cur)
      BY <3>1 DEF Stream
    <3>4. index = Len(cur)
      BY <1>1, <1>2, <3>2, <3>3
    <3> QED BY <1>1, <2>3, <3>4 DEF Receiving, Underway
  <2>4. CASE Done
    BY <1>1, <1>2, <2>4 DEF Done, Released
  <2> QED BY <2>1, <2>2, <2>3, <2>4 DEF Delivery
<1>4. csum = 0
  BY <1>3 DEF UartInv
<1>5. f \in Seq(Byte) /\ Len(f) \in Nat /\ Len(f) >= 5 /\ Total(f)[0] = 0
  BY FrameFacts
<1>6. Len(<<>>) = 0
  OBVIOUS
<1>7. Stream(0)'
  <2>1. \A i \in 1 .. Len(line') : line'[i] = cur'[index' + Len(fifo') + i]
    BY <1>1, <1>3, <1>5, <1>6
  <2>2. index' + Len(fifo') + Len(line') = Len(cur') /\ 0 \in 0 .. index' + Len(fifo')
    BY <1>1, <1>3, <1>5, <1>6
  <2>3. csum' = Total(cur')[index']
    BY <1>1, <1>3, <1>4, <1>5
  <2> QED BY <1>1, <1>3, <1>6, <2>1, <2>2, <2>3 DEF Stream
<1>8. Ready'
  BY <1>1, <1>3, SameReady
<1>9. Underway'
  BY <1>1, <1>3, <1>5, <1>8 DEF Underway, NeverDeaf
<1> QED BY <1>7, <1>9 DEF Receiving

\* A packet on its way: its bytes keep coming.
LEMMA ReceivingLine ==
    ASSUME ValidFrames, TypeOK, UartInv, Receiving, ~desync',
           ArriveDamaged => ~damaged,
           Line \/ ReceiveTimeout \/ EndOfTransmission
    PROVE  Receiving'
<1>1. PICK bad \in Nat : Stream(bad)
  BY DEF Receiving
<1>2. index \in Nat /\ Len(fifo) \in Nat /\ Level \in Nat \ {0}
  BY <1>1, StreamFacts, SizesAssumption
<1>u. Underway
  BY DEF Receiving
<1>3. CASE Arrive \/ ArriveDamaged
  <2>1. PICK b \in Byte : Receive(b)
    BY <1>3, Arrival
  <2>2. /\ armed' = TRUE /\ status' \subseteq status \cup {"RX"}
        /\ Len(line) \in Nat \ {0}
        /\ UNCHANGED <<variant, cur, rd, sending, pc, data, index, task, main, execs>>
    BY <2>1, Received
  <2>3. index # Len(cur)
    BY <1>1, <2>2, StreamFacts
  <2>4. Ready => Ready'
    BY <2>2, SameReady
  <2>5. Underway'
    BY <1>u, <2>2, <2>3, <2>4 DEF Underway, NeverDeaf
  <2>6. \E now \in Nat : Stream(now)'
    <3>1. CASE Arrive
      BY <1>1, <3>1, StreamArrive
    <3>2. CASE ArriveDamaged
      <4>1. PICK now \in Nat : now = index + Len(fifo) + 1
        BY <1>2
      <4>2. Stream(now)'
        BY <1>1, <3>2, <4>1, StreamDamaged
      <4> QED BY <4>2
    <3> QED BY <1>3, <3>1, <3>2
  <2> QED BY <2>5, <2>6 DEF Receiving
<1>4. CASE Lose \/ Deaf
  BY <1>4 DEF Lose, Deaf
<1>5. CASE ReceiveTimeout
  <2>1. /\ status' = {"RT"}
        /\ UNCHANGED <<variant, line, cur, damaged, fifo, rd, sending, pc, data, index, csum,
                       task, main, execs>>
    BY <1>5 DEF ReceiveTimeout, wire, buffer
  <2>2. Stream(bad)'
    BY <1>1, <2>1, SameStream
  <2>3. Ready => Ready'
    BY <2>1, SameReady
  <2>4. Underway'
    BY <1>u, <2>1, <2>3 DEF Underway, NeverDeaf
  <2> QED BY <2>2, <2>4 DEF Receiving
<1>6. CASE EndOfTransmission
  BY <1>u, <1>6 DEF EndOfTransmission, Underway
<1> QED BY <1>3, <1>4, <1>5, <1>6 DEF Line

\* A packet on its way: the interrupt moves its bytes, and gives it to
\* BSMPprocess once it is complete.
LEMMA ReceivingIsr ==
    ASSUME ValidFrames, TypeOK, UartInv, HighInv, Receiving, Isr, ~desync'
    PROVE  Receiving' \/ Done'
<1>1. PICK bad \in Nat : Stream(bad)
  BY DEF Receiving
<1>2. /\ index \in 0 .. Len(cur) /\ Len(cur) \in 5 .. SERIAL_BUF_SIZE
      /\ Len(fifo) \in Nat /\ Len(line) \in Nat /\ Level \in Nat \ {0}
      /\ Complete <=> index = Len(cur)
      /\ index = Len(cur) => fifo = <<>> /\ line = <<>>
      /\ index >= 4 => sCarga = Len(cur) - 5
      /\ cur # <<>> /\ SERIAL_BUF_SIZE \in Nat
      /\ index + Len(fifo) + Len(line) = Len(cur)
      /\ fifo = <<>> <=> Len(fifo) = 0
      /\ line = <<>> <=> Len(line) = 0
  BY <1>1, StreamFacts, SizesAssumption, SeqSteps DEF TypeOK, Stream
<1>u. Underway
  BY DEF Receiving
<1>3. CASE isr_rs485
  <2>1. /\ pc = "idle" /\ status # {} /\ status' = {}
        /\ pc' = IF status \in {{"RX"}, {"RT"}} THEN "drain" ELSE "idle"
        /\ rd' = IF status = {"TX"} THEN "OFF" ELSE rd
        /\ UNCHANGED <<variant, line, cur, damaged, fifo, armed, sending, data, index, csum,
                       task, main, execs>>
    BY <1>3 DEF isr_rs485, wire, buffer
  <2>2. Stream(bad)'
    BY <1>1, <2>1, SameStream
  <2>3. Ready => Ready'
    BY <2>1, SameReady
  <2>4. fifo # <<>>
    <3>1. "RX" \in status \/ "RT" \in status
      <4>1. status \subseteq {"RX", "RT", "TX"} /\ "TX" \notin status
        BY <1>u DEF Underway, TypeOK, Interrupts
      <4> QED BY <2>1, <4>1
    <3> QED BY <1>2, <3>1 DEF UartInv
  <2>5. index # Len(cur)
    BY <1>2, <2>4
  <2>6. fifo' # <<>> /\ ~armed' => pc' = "drain"
    BY <1>u, <2>1 DEF Underway, NeverDeaf
  <2>7. pc' \in {"idle", "drain"} /\ rd' = "OFF"
    BY <1>u, <2>1 DEF Underway
  <2>8. Underway'
    BY <1>u, <2>1, <2>3, <2>5, <2>6, <2>7 DEF Underway, NeverDeaf
  <2> QED BY <2>2, <2>8 DEF Receiving
<1>4. CASE Drain
  <2>1. /\ pc = "drain" /\ status' \subseteq status
        /\ UNCHANGED <<cur, rd, sending, pc, task, main, execs>>
    BY <1>4, Drained
  <2>2. Stream(bad)'
    BY <1>1, <1>4, StreamDrain
  <2>3. index' <= 3 => Ready'
    BY <1>1, <1>4, <1>u, ReadyDrain DEF Underway
  <2>4. Underway'
    BY <1>u, <2>1, <2>3 DEF Underway, NeverDeaf
  <2> QED BY <2>2, <2>4 DEF Receiving
<1>5. CASE SpinOut
  <2>1. /\ pc = "drain" /\ pc' = "decide" /\ (fifo = <<>> \/ index >= SERIAL_BUF_SIZE)
        /\ UNCHANGED <<variant, line, cur, damaged, fifo, status, armed, rd, sending, data,
                       index, csum, task, main, execs>>
    BY <1>2, <1>5 DEF SpinOut, Room, wire, uart, buffer
  <2>2. Stream(bad)'
    BY <1>1, <2>1, SameStream
  <2>3. Ready => Ready'
    BY <2>1, SameReady
  <2>4. fifo = <<>>
    BY <1>2, <2>1
  <2>5. Underway'
    BY <1>u, <2>1, <2>3, <2>4 DEF Underway, NeverDeaf
  <2> QED BY <2>2, <2>5 DEF Receiving
<1>6. CASE EndOfPacket
  <2>1. /\ pc = "decide" /\ Complete
        /\ pc' = IF variant = "ihm" THEN "idle" ELSE "process"
        /\ task' = IF variant = "ihm" THEN TRUE ELSE task
        /\ UNCHANGED <<variant, line, cur, damaged, fifo, status, armed, rd, sending, data,
                       index, csum, main, execs>>
    BY <1>6 DEF EndOfPacket, wire, uart, buffer
  <2>2. Stream(bad)'
    BY <1>1, <2>1, SameStream
  <2>3. Ready => Ready'
    BY <2>1, SameReady
  <2>4. index = Len(cur) /\ fifo = <<>> /\ index > 3
    BY <1>2, <2>1
  <2>5. ~task /\ main = "idle"
    BY <1>u, <2>1 DEF Underway
  <2>6. /\ pc' # "idle" \/ task'
        /\ task' => pc' = "idle"
    BY <2>1, <2>5
  <2>7. Underway'
    BY <1>u, <2>1, <2>3, <2>4, <2>5, <2>6 DEF Underway, NeverDeaf
  <2> QED BY <2>2, <2>7 DEF Receiving
<1>7. CASE Incomplete
  <2>1. pc = "decide" /\ index # Len(cur)
    BY <1>2, <1>7 DEF Incomplete
  <2>2. variant # "high"
    BY <1>2, <2>1 DEF HighInv
  <2>3. sCarga <= SERIAL_BUF_SIZE
    <3>1. CASE index <= 3
      BY <1>u, <2>2, <3>1 DEF Underway, Ready
    <3>2. CASE index >= 4
      BY <1>2, <3>2
    <3> QED BY <1>2, <3>1, <3>2
  <2>4. ~ (sCarga > SERIAL_BUF_SIZE)
    <3>1. sCarga \in Nat
      <4>1. data[2] \in Byte /\ data[3] \in Byte
        BY Constants DEF TypeOK
      <4> QED BY <4>1, Constants DEF sCarga
    <3> QED BY <1>2, <2>3, <3>1
  <2>5. /\ pc' = "idle"
        /\ UNCHANGED <<variant, line, cur, damaged, fifo, status, armed, rd, sending, data,
                       index, csum, task, main, execs>>
    BY <1>7, <2>2, <2>4 DEF Incomplete, wire, uart, buffer
  <2>6. Stream(bad)'
    BY <1>1, <2>5, SameStream
  <2>7. Ready => Ready'
    BY <2>5, SameReady
  <2>8. Underway'
    BY <1>u, <2>1, <2>5, <2>7 DEF Underway, NeverDeaf
  <2> QED BY <2>6, <2>8 DEF Receiving
<1>8. CASE rs485_process_data
  <2>1. /\ pc = "process" /\ pc' = "idle"
        /\ execs' = IF Accepted THEN Append(execs, Execution) ELSE execs
        /\ sending' = (Accepted /\ Answers)
        /\ rd' = IF Accepted /\ Answers THEN "ON" ELSE rd
        /\ index' = 0 /\ data' = HeaderOnly
        /\ UNCHANGED <<variant, line, cur, damaged, fifo, status, armed, task, main>>
    BY <1>8 DEF rs485_process_data, ResetBuffer, wire, uart
  <2>2. index = Len(cur) /\ fifo = <<>> /\ line = <<>> /\ execs = <<>>
        /\ main = "idle" /\ ~task /\ rd = "OFF" /\ "TX" \notin status
    BY <1>2, <1>u, <2>1 DEF Underway
  <2>3. execs' = Expected'
    <3>1. Expected' = Expected
      BY <2>1, SameExpected
    <3> QED BY <1>1, <2>1, <2>2, <3>1, Judged
  <2>4. status \subseteq {"TX"}
    BY <1>2, <2>2 DEF UartInv, TypeOK, Interrupts
  <2>5. Ready'
    <3>1. data'[2] = data[2] /\ data'[3] = data[3]
      BY <2>1, Constants DEF HeaderOnly, TypeOK
    <3>2. sCarga <= SERIAL_BUF_SIZE
      BY <1>2, <2>2
    <3> QED BY <3>1, <3>2 DEF Ready, sCarga
  <2>6. Released'
    <3>1. rd' = "ON" <=> sending'
      BY <2>1, <2>2
    <3> QED BY <2>1, <2>2, <3>1 DEF Released
  <2>7. Done'
    BY <2>1, <2>2, <2>3, <2>4, <2>5, <2>6 DEF Done
  <2> QED BY <2>7
<1> QED BY <1>3, <1>4, <1>5, <1>6, <1>7, <1>8 DEF Isr

\* A packet on its way: the main loop takes the display's.
LEMMA ReceivingMain ==
    ASSUME ValidFrames, TypeOK, UartInv, Receiving, Main, ~desync'
    PROVE  Receiving' \/ Done'
<1>1. PICK bad \in Nat : Stream(bad)
  BY DEF Receiving
<1>2. /\ Len(cur) \in 5 .. SERIAL_BUF_SIZE /\ cur # <<>> /\ SERIAL_BUF_SIZE \in Nat
      /\ index = Len(cur) => fifo = <<>> /\ line = <<>>
      /\ index >= 4 => sCarga = Len(cur) - 5
      /\ Level \in Nat \ {0}
      /\ Len(<<>>) = 0
  BY <1>1, StreamFacts, Constants, SizesAssumption
<1>u. Underway
  BY DEF Receiving
<1>3. CASE TaskIhm
  <2>1. /\ pc = "idle" /\ main = "idle" /\ task /\ task' = FALSE /\ main' = "check"
        /\ UNCHANGED <<variant, line, cur, damaged, fifo, status, armed, rd, sending, pc,
                       data, index, csum, execs>>
    BY <1>3 DEF TaskIhm, wire, uart, buffer
  <2>2. Stream(bad)'
    BY <1>1, <2>1, SameStream
  <2>3. Ready => Ready'
    BY <2>1, SameReady
  <2>4. Underway'
    BY <1>u, <2>1, <2>3 DEF Underway, NeverDeaf
  <2> QED BY <2>2, <2>4 DEF Receiving
<1>4. CASE ihm_process_data
  <2>1. /\ pc = "idle" /\ main = "check" /\ main' \in {"answer", "exit"}
        /\ execs' = IF Accepted THEN Append(execs, Execution) ELSE execs
        /\ UNCHANGED <<variant, line, cur, damaged, fifo, status, armed, rd, sending, pc,
                       data, index, csum, task>>
    BY <1>4 DEF ihm_process_data, wire, uart, buffer
  <2>2. index = Len(cur) /\ fifo = <<>> /\ line = <<>> /\ execs = <<>>
        /\ ~task /\ rd = "OFF" /\ ~sending /\ "TX" \notin status
    BY <1>2, <1>u, <2>1 DEF Underway
  <2>3. execs' = Expected'
    <3>1. Expected' = Expected
      BY <2>1, SameExpected
    <3> QED BY <1>1, <2>1, <2>2, <3>1, Judged
  <2>4. status \subseteq {"TX"}
    BY <1>2, <2>2 DEF UartInv, TypeOK, Interrupts
  <2>5. Ready'
    <3>1. Ready
      BY <1>2, <2>2 DEF Ready
    <3> QED BY <2>1, <3>1, SameReady
  <2>6. variant = "ihm"
    BY <2>1 DEF UartInv
  <2>7. Done'
    BY <2>1, <2>2, <2>3, <2>4, <2>5, <2>6 DEF Done, Released
  <2> QED BY <2>7
<1>5. CASE ihm_tx_handler
  BY <1>5, <1>u DEF ihm_tx_handler, Underway
<1>6. CASE ihm_exit
  BY <1>6, <1>u DEF ihm_exit, Underway
<1> QED BY <1>3, <1>4, <1>5, <1>6 DEF Main

\* A packet that has been dealt with: the answer goes out, and nothing is left.
LEMMA DoneStep ==
    ASSUME TypeOK, UartInv, Done, ~desync',
           \/ UNCHANGED vars \/ Line \/ ReceiveTimeout \/ EndOfTransmission \/ Isr \/ Main
    PROVE  Done'
<1>d. /\ line = <<>> /\ fifo = <<>> /\ pc = "idle" /\ ~task
      /\ cur # <<>> => execs = Expected
      /\ status \subseteq {"TX"} /\ Released
      /\ \/ main = "idle" /\ index = 0
         \/ variant = "ihm" /\ main \in {"answer", "exit"}
      /\ Ready
  BY DEF Done
<1>1. ASSUME UNCHANGED <<variant, cur, damaged, execs>>
      PROVE  cur' # <<>> => execs' = Expected'
  BY <1>1, <1>d, SameExpected
<1>2. CASE UNCHANGED vars
  <2>1. Ready'
    BY <1>2, <1>d, SameReady DEF vars
  <2>2. Released'
    BY <1>2, <1>d DEF vars, Released
  <2> QED BY <1>1, <1>2, <1>d, <2>1, <2>2 DEF vars, Done
<1>3. CASE Line \/ ReceiveTimeout
  <2>1. line # <<>> \/ fifo # <<>>
    BY <1>3 DEF Line, Arrive, Receive, ArriveDamaged, Lose, Deaf, ReceiveTimeout
  <2> QED BY <1>d, <2>1
<1>4. CASE EndOfTransmission
  <2>1. /\ sending /\ sending' = FALSE /\ status' = status \cup {"TX"}
        /\ UNCHANGED <<variant, line, cur, damaged, fifo, rd, pc, data, index, task, main,
                       execs>>
    BY <1>4 DEF EndOfTransmission, wire, buffer
  <2>2. Ready' /\ Released'
    BY <1>d, <2>1, SameReady DEF Released
  <2> QED BY <1>1, <1>d, <2>1, <2>2 DEF Done
<1>5. CASE isr_rs485
  <2>1. /\ status # {} /\ status' = {}
        /\ pc' = IF status \in {{"RX"}, {"RT"}} THEN "drain" ELSE "idle"
        /\ rd' = IF status = {"TX"} THEN "OFF" ELSE rd
        /\ UNCHANGED <<variant, line, cur, damaged, fifo, sending, data, index, task, main,
                       execs>>
    BY <1>5 DEF isr_rs485, wire, buffer
  <2>2. status = {"TX"}
    BY <1>d, <2>1
  <2>3. pc' = "idle" /\ rd' = "OFF" /\ ~sending
    BY <1>d, <2>1, <2>2 DEF Released
  <2>4. Ready' /\ Released'
    BY <1>d, <2>1, <2>3, SameReady DEF Released
  <2> QED BY <1>1, <1>d, <2>1, <2>3, <2>4 DEF Done
<1>6. CASE Drain \/ SpinOut \/ EndOfPacket \/ Incomplete \/ rs485_process_data
        \/ TaskIhm \/ ihm_process_data
  <2>1. pc # "idle" \/ task \/ main = "check"
    BY <1>6 DEF Drain, SpinOut, EndOfPacket, Incomplete, rs485_process_data, TaskIhm,
                ihm_process_data
  <2> QED BY <1>d, <2>1
<1>7. CASE ihm_tx_handler
  <2>1. /\ main = "answer" /\ main' = "exit"
        /\ UNCHANGED <<variant, line, cur, damaged, fifo, status, rd, sending, pc, data,
                       index, task, execs>>
    BY <1>7 DEF ihm_tx_handler, wire, uart, buffer
  <2>2. Ready' /\ Released'
    BY <1>d, <2>1, SameReady DEF Released
  <2> QED BY <1>1, <1>d, <2>1, <2>2 DEF Done
<1>8. CASE ihm_exit
  <2>1. /\ main' = "idle" /\ index' = 0 /\ data' = HeaderOnly
        /\ UNCHANGED <<variant, line, cur, damaged, fifo, status, rd, sending, pc, task,
                       execs>>
    BY <1>8 DEF ihm_exit, ResetBuffer, wire, uart
  <2>2. Ready'
    <3>1. data'[2] = data[2] /\ data'[3] = data[3]
      BY <2>1, Constants DEF HeaderOnly, TypeOK
    <3> QED BY <1>d, <2>1, <3>1 DEF Ready, sCarga
  <2>3. Released'
    BY <1>d, <2>1 DEF Released
  <2> QED BY <1>1, <1>d, <2>1, <2>2, <2>3 DEF Done
<1> QED BY <1>2, <1>3, <1>4, <1>5, <1>6, <1>7, <1>8 DEF Isr, Main

\* SerialInv is inductive.
LEMMA SerialStep ==
    ASSUME ValidFrames, TypeOK, SerialInv, [Next]_vars, [ArriveDamaged => ~damaged]_vars
    PROVE  SerialInv'
<1>1. UartInv' /\ HighInv'
  BY UartStep, HighStep DEF SerialInv
<1>2. ASSUME ~desync' PROVE Receiving' \/ Done'
  <2>1. CASE \E f \in Frames : Transmit(f)
    BY <1>2, <2>1, TransmitStep DEF SerialInv
  <2> DEFINE Others == Line \/ ReceiveTimeout \/ EndOfTransmission \/ Isr \/ Main
  <2>2. CASE UNCHANGED vars \/ Others
    <3>1. ~desync
      BY <1>2, <2>2
         DEF vars, Line, Arrive, ArriveDamaged, Lose, Deaf, ReceiveTimeout, EndOfTransmission,
             Isr, isr_rs485, Drain, SpinOut, EndOfPacket, Incomplete, rs485_process_data,
             Main, TaskIhm, ihm_process_data, ihm_tx_handler, ihm_exit, wire
    <3>2. CASE Done
      BY <1>2, <2>2, <3>2, DoneStep DEF SerialInv
    <3>3. CASE Receiving
      <4>1. CASE UNCHANGED vars
        <5>1. PICK bad \in Nat : Stream(bad)
          BY <3>3 DEF Receiving
        <5>2. Stream(bad)'
          BY <4>1, <5>1, SameStream DEF vars
        <5>3. Ready => Ready'
          BY <4>1, SameReady DEF vars
        <5>4. Underway'
          BY <3>3, <4>1, <5>3 DEF Receiving, Underway, NeverDeaf, vars
        <5> QED BY <5>2, <5>4 DEF Receiving
      <4>2. CASE Line \/ ReceiveTimeout \/ EndOfTransmission
        <5>1. ArriveDamaged => ~damaged
          <6>1. ArriveDamaged => faults' # faults
            BY DEF ArriveDamaged, TypeOK
          <6> QED BY <6>1 DEF vars
        <5> QED BY <1>2, <3>3, <4>2, <5>1, ReceivingLine DEF SerialInv
      <4>3. CASE Isr
        BY <1>2, <3>3, <4>3, ReceivingIsr DEF SerialInv
      <4>4. CASE Main
        BY <1>2, <3>3, <4>4, ReceivingMain DEF SerialInv
      <4> QED BY <2>2, <4>1, <4>2, <4>3, <4>4
    <3> QED BY <3>1, <3>2, <3>3 DEF SerialInv, Delivery
  <2> QED BY <2>1, <2>2 DEF Next
<1> QED BY <1>1, <1>2 DEF SerialInv, Delivery

\* The initial state has SerialInv.
LEMMA SerialInit == Init => SerialInv
<1> SUFFICES ASSUME Init PROVE SerialInv
  OBVIOUS
<1>1. /\ line = <<>> /\ cur = <<>> /\ fifo = <<>> /\ status = {} /\ rd = "OFF" /\ ~sending
      /\ pc = "idle" /\ index = 0 /\ csum = 0 /\ ~task /\ main = "idle"
      /\ data = [i \in 0 .. SERIAL_BUF_SIZE - 1 |-> 0]
  BY DEF Init
<1>2. Len(<<>>) = 0
  OBVIOUS
<1>3. sCarga <= SERIAL_BUF_SIZE
  <2>1. data[2] = 0 /\ data[3] = 0 /\ 0 * Base = 0
    BY <1>1, Constants, SizesAssumption
  <2> QED BY <2>1, Constants DEF sCarga
<1>4. UartInv
  BY <1>1 DEF UartInv
<1>5. Released /\ NeverDeaf
  BY <1>1 DEF Released, NeverDeaf
<1>6. HighInv
  BY <1>1, <1>2, <1>5, Constants DEF HighInv
<1>7. Done
  BY <1>1, <1>3, <1>5 DEF Done, Ready
<1> QED BY <1>4, <1>6, <1>7 DEF SerialInv, Delivery

\* SerialInv says what PacketsHandled promises.
LEMMA SerialInvPromises == ASSUME TypeOK, SerialInv PROVE PacketsHandled
<1> SUFFICES ASSUME Quiet, cur # <<>>, ~desync PROVE execs = Expected
  BY DEF PacketsHandled
<1>1. /\ line = <<>> /\ status = {} /\ pc = "idle" /\ ~(armed /\ fifo # <<>>)
      /\ ~task /\ main = "idle"
  BY DEF Quiet, Idle
<1>2. CASE Receiving
  <2>1. PICK bad \in Nat : Stream(bad)
    BY <1>2 DEF Receiving
  <2>2. fifo = <<>>
    BY <1>1, <1>2 DEF Receiving, Underway, NeverDeaf
  <2>3. index + Len(fifo) + Len(line) = Len(cur) /\ index \in Nat /\ Len(<<>>) = 0
    BY <2>1, Constants DEF Stream, TypeOK
  <2>4. index = Len(cur)
    BY <1>1, <2>2, <2>3
  <2> QED BY <1>1, <1>2, <2>4 DEF Receiving, Underway
<1> QED BY <1>2 DEF SerialInv, Delivery, Done

\* PacketsHandled: of the packets a BSMP host sends, one at a time and with at
\* most one changed byte each, every receiver executes exactly the unchanged
\* ones, once, byte for byte and for the power supply they are addressed to.
\* Any number of them may be changed, and other bytes lost: a packet whose end is
\* lost is desync's, which PacketsHandled leaves out until the receiver is back
\* in step.
THEOREM EveryPacketHandled ==
    ASSUME ValidFrames PROVE Spec /\ OneFaultPerPacket => []PacketsHandled
<1>1. TypeOK /\ SerialInv /\ [Next]_vars /\ [ArriveDamaged => ~damaged]_vars => SerialInv'
  BY SerialStep
<1>2. TypeOK /\ SerialInv => PacketsHandled
  BY SerialInvPromises
<1> QED BY <1>1, <1>2, SerialInit, BufferSafe, PTL DEF Spec, OneFaultPerPacket
=============================================================================
