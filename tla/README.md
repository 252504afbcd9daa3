# A TLA+ verification of udc-arm-fw

`udc-arm-fw` is the firmware of the ARM core of the DRS-UDC board: it receives
BSMP packets over RS-485 and from the local display, executes them, and passes
most of them on to the C28 core, which runs the control loops of up to four power
supplies. This directory models the command path from the serial line to the
mailbox of the C28, the protocol server and its client library, the parameter bank
with its EEPROMs, and the main loop with the interrupts of the CAN bus, the ADC and
the timer. It checks them with TLC and proves the central invariants with TLAPS. Paths below are
relative to `src/app/communication_drivers/`.

## 1. The system

### Components

| Component | State | Operations | Talks to |
|---|---|---|---|
| RS-485 receiver (`rs485/rs485.c`) | `recv_buffer` (data, index, checksum), direction pin, channel addresses | `isr_rs485`, `rs485_process_data`, `rs485_tx_handler` | executes packets **inside the interrupt** (priority 0) |
| IHM receiver (`ihm/ihm.c`) | its own `recv_buffer` | `isr_ihm` (priority 2), `ihm_process_data` | leaves the packet to `TaskCheck` |
| System tasks (`system_task/system_task.c`) | one flag per task | `TaskSetNew` (from interrupts), `TaskCheck` (main loop, one task a turn, else-if chain) | BSMP functions, CAN, ADCP |
| Timer (`timer/timer.c`) | millisecond counters | `isr_global_timer` (priority 3) | raises tasks |
| BSMP command functions (`bsmp/bsmp_lib.c`) | `ulTimeout`, `g_current_ps_id` (globals) | 44 functions, `BSMPprocess` | mailbox, parameters, curves |
| BSMP server (`bsmp/bsmp/src`) | variables, groups, curves, functions | `bsmp_process_packet` and 20 commands | command functions |
| Mailbox (`ipc/ipc_lib.c`) | `MTOCIPCFLG`, `MSG_ID_MTOC`, `g_ipc_mtoc`, `g_ipc_ctom` | `send_ipc_msg`, `send_ipc_lowpriority_msg`, `ipc_mtoc_busy` | the C28 |
| Event manager (`event_manager/event_manager.c`) | interlock number per supply | `set_hard_interlock`, `set_soft_interlock` (CAN interrupt) | mailbox |
| CAN / interlock boards (`can/`, `iib/`) | error flags, message objects | `can_int_handler`, `can_error_handler`, `can_check` | event manager, tasks |
| Power supply models (`ps_modules/*/`) | tables: boards, CAN messages, ADC channels, BSMP variables | `*_system_config`, `handle_can_data` | server, CAN, ADCP |
| ADCP (`adcp/`) | SSI FIFO, `ADCP_RxTable` | `adcp_read` (timer), `isr_adcp`, `adcp_get_samples` (main loop) | signals of the C28 |
| BSMP client (`bsmp/bsmp/src/client.c`) | lists read from the server | `bsmp_client_init`, 15 calls | server, over `send` and `recv` |
| Parameters (`parameters/`, `i2c_onboard/eeprom.c`) | bank in RAM, copies in two EEPROMs | set, get, save, load, check | I2C |
| Curves (`control/wfmref`, `scope/`) | block buffers shared with the C28 | read and write block | C28 |
| Others | | | `PROJECT.json` lists them with the reason they are left out |

### What is hard

* **Two contexts, one mailbox.** The RS-485 interrupt runs whole commands and can
  preempt the main loop, which runs commands too, between any two memory
  accesses. They share `ulTimeout`, `g_current_ps_id`, `g_ipc_mtoc` and the one
  mailbox. There is no lock: the only protection is the busy test.
* **Another core.** A sender polls for the acknowledge a bounded number of times;
  after `DSP_Timeout` its message is still in the mailbox.
* **Interlocks** use the same mailbox, and are sent only if it is empty.
* **Timed recovery.** An unlocked or local supply must come back by itself through
  a counter, a flag, a task and a message, each of which may find things busy.
* **Framing.** The end of a packet is computed from header bytes that may be those
  of an earlier packet; the FIFO cuts packets anywhere; bytes get damaged or lost.
* **A word shared with an interrupt.** The main loop clears `g_ui32ErrFlag` bit by
  bit with a load and a store; the CAN interrupt sets and zeroes it in between.
* **Tables.** Fourteen models wire boards, interlocks, channels and variables by
  hand; a wrong index stores data for another board or drops a variable silently.
* **Requests without numbers.** A lost answer looks like a lost request, and a list
  is read in several exchanges while others change it.
* **Saving in pieces.** A bank is written element by element, a large DSP module in
  two pages, and power may fail between any two.

What makes the components correct: a message in the mailbox is what somebody sent,
for the supply that was named; an answer says what happened; the interrupt always
ends; packets are executed exactly once; the line is released after each. A CAN
status is seen by somebody; an interlock reaches the C28 for the board that reported
it and no other; a call of the client that succeeds has had its effects exactly once;
what was saved is what the next boot finds.

## 2. Modules

| Module | Models |
|---|---|
| `BsmpCommands` | the 31 BSMP functions that use the mailbox, as records: all are one skeleton with parts filled in or left out, in different orders |
| `Mailbox` | abstract: what a command's message and its answer promise to the RS-485 host |
| `IpcHandshake` | both contexts executing that skeleton, the mailbox, tasks, timer, interlocks, the C28; implements `Mailbox` |
| `IpcHandshakeProofs` | TLAPS proofs for `IpcHandshake` |
| `SerialReceiver` | UART, the three receivers, packet checks, the answer and the direction pin |
| `SerialReceiverProofs` | TLAPS proofs for `SerialReceiver` |
| `PsModels` | the tables of the 14 power supply models |
| `SystemTask` | the main loop with the CAN, ADC and timer interrupts, running those tables |
| `SystemTaskProofs` | TLAPS proofs for `SystemTask`: types, CAN errors, interlocks, which data a variable shows |
| `PsModelsProofs` | lemmas on the tables of the 14 models, by evaluation |
| `BsmpServer` | the protocol server: every command as an operator from server and request to server and answer |
| `BsmpService` | abstract: what the protocol promises to a caller |
| `BsmpClient` | client library, lossy link and server; implements `BsmpService` |
| `BsmpClientProofs` | TLAPS proofs for `BsmpServer` and `BsmpClient` |
| `BsmpServiceProofs` | TLAPS proof that `BsmpClient` implements `BsmpService` |
| `ParamBank` | parameters and coefficients, two EEPROMs, the functions that move them, boot; uses `PsModels` |
| `ParamBankProofs` | TLAPS proofs for `ParamBank` |
| `LoopTheorems` | lemmas on loops (recursive functions), folds and concatenations, used by the proofs |
| `MC*` | command sets, packets, calls and parameters for TLC |

### BsmpCommands, IpcHandshake and Mailbox

A record says where a function clears `ulTimeout` (`reset`), its outermost
condition (`gate`), what it writes before the busy test (`pre`), the test that
answers `Resource_Busy` (`busyIf`), its payload and message, and what follows an
acknowledge (`after`). Differences that look like slips are kept: `unlock_udc`,
`lock_udc`, `cfg_wfmref`, `select_wfmref` and `load_dsp_coeffs_eeprom` never clear
`ulTimeout`; `enable_scope` writes scope 0 whichever supply is addressed;
`sync_pulse` tests and polls another flag than the low priority messages.

A call goes through one location per access to shared memory:

    iface -> enter -> check -> load -> store -> arg -> [probe ->] id -> set
          -> wait -> limit -> read -> inc -> wait ... -> judge -> ret

`load`/`store` are the two halves of a bit field store, `read`/`inc` those of
`ulTimeout++`, `id`/`set` the two register writes of the send. `ret` starts the
next turn of a broadcast or task, or ends it; `sweep`/`swept` are the four stores
that open the task `RESET_COMMAND_INTERFACE`. `Runs(c)` is the preemption
rule: the main loop does not move while the interrupt is active. `set_interlock`
and `isr_global_timer` are atomic: the first runs at the interrupt's own priority,
the second only reads and raises one flag.

The C28 is external. From how the ARM code uses it: its interrupt reads the code
and `MSG_ID_MTOC` and acknowledges (`C28Take`), and the effect on `g_ipc_ctom`
comes later (`C28Execute`; `bsmp_set_slowref` waits 10 us for it). A register is
the set of its one bits, so that a message code mixed from two (`MTOCIPCSET |=`)
is what the hardware would hold. `pend` and `polls` are history variables.

`Mailbox` is what the host may rely on while the main loop runs no command: the message of
a command enters an empty mailbox whole or not at all, stays unchanged until the C28 takes
it, and the answer says which: `Ok` that the C28 has taken it, `DSP_Timeout` that it was
there, anything else that it was not. Broadcasts are one command per supply. The mapping
(`RemoteCall`, `InBox`) takes the call from where the interrupt is in it, and the message
from the registers the C28 will read: code bits, `MSG_ID_MTOC` and, of `g_ipc_mtoc`, the
field of every supply the message is for. A synchronisation pulse has no message, and its
answer says nothing.

Assumptions: RS-485 and CAN interrupts have the same priority (`IntPrioritySet` is
called with 0 for RS-485, CAN keeps the default 0); `MTOCIPCSET` reads as zero;
the two WfmRef pointers the C28 moves are a free choice (`playing`).

### SerialReceiver

The variable `variant` is the receiver: `low` and `high` are the two branches of
`isr_rs485` (`config_rs485` decides at boot), `ihm` is `isr_ihm`. The UART has a
FIFO, a fill level and a receive time-out; `status` is what `UARTIntStatus` returns,
and the handler compares it for equality, as the code does. Bytes have
`Base` values and the checksum is modulo `Base`. The line damages or loses up to
`MaxFaults` bytes; a byte is also lost when the transceiver transmits or the FIFO
is full.

Assumptions about the world: a host waits for its answer or a time-out between
packets; a raised interrupt is served before the receive time-out; from 1 Mbaud on
a packet has no gap longer than the 15 spins of the drain loop. Bytes of
`recv_buffer` behind the header are zeroed on reset, since they are dead. `desync`
is a history variable: TRUE when the end of the packet was lost (a lost byte, a
damaged size field), and, on the two slower receivers, until they are back in step
(`InStep`). The receiver from 1 Mbaud on is held to recover with the next packet.

### PsModels and SystemTask

A model is a record: `boards` (fields of each CAN message, the interlock, the field
copied to a signal), `adcp` (channel to signal) and `server` (the calls of
`create_bsmp_var` and `modify_bsmp_var` in order, as runs of consecutive
identifiers). `SystemTask` runs `boards` and `adcp`, `ParamBank` runs `server`.

Interrupt handlers are one step each. The main loop takes the first flag in the
order of `TaskCheck`, and then one step per access to shared data: `TestFlag`,
`LoadFlag` and `StoreFlag` for each of the 16 tests of `can_error_handler`, one word
of `ADCP_RxTable`, one reset message. Kept as they are: the first message is fetched
through a pointer that is not set yet; an identifier of no board leaves `module`
uninitialised, so that the message is stored for some board or outside them; a
received message zeroes all error flags. Data are words named by where they come
from (board, message, half), so that a word in the wrong place is visible. `reported`
and `handed` are history variables.

Assumptions: the controller keeps one received message (the object is overwritten),
leaves the bus only when a message it sends fails, and reports a status before a
message object. `CANMessageSet` replaces a message that still waits.

### BsmpServer, BsmpClient and BsmpService

The early returns of each handler of `server_priv.c` are IFs in their order. A refused
`group_create` leaves its slot half filled, as in the code. A call of the client is a
record whose `stage` names the exchange to make next: an operation may be followed by
reading the lists again, a curve by its next block. `Deliver` hands the request to the
server and puts the answer on the wire; `LoseRequest` and `LoseAnswer` make the
exchange fail with and without the effect. `Restart`, `Other` (another master) and
`C28Moves` change the server at any time. `stale` is a history variable.

`BsmpService` is the specification a caller would read: effects one after the other,
each at most once, success only after all of them with what they showed. The
refinement maps variables, groups, curve memory and waveform ends of the server to its
`state`, and the call without the library's bookkeeping to its `call`.

Assumption: an answer that comes after the client has given up is dropped by the link;
messages carry no number, and the library would take it for the next answer.

### ParamBank

An item is one element of a parameter or the coefficients of one DSP module; it is a
sequence of bytes with an address in each memory. A step is one I2C transaction: an
item, or one of the two pages of a module of 64 bytes. A write wraps inside its page
of 32 bytes, a missing EEPROM reads as ones. `PowerFails` may come between any two
steps. The addresses, sizes and numbers of elements are those of the tables;
the theorem `LayoutDisjoint` says of the whole tables that no two regions of the on-board
memory overlap, `ParamBankProofs` derives that no transfer crosses a page. Kept as they are: the
off-board table has no entry for `Password` and `Enable_Onboard_EEPROM` (address 0);
`data_eeprom` is two bytes short for a 3P3Z module; the second element of
`Buzzer_Volume` lies on what follows it, `command_interface` if the compiler packs
enums (`PackedEnums`); the answer of `bsmp_load_param_bank` is never set. `kept` (what
was written last of each item) and `misplaced` are history variables. `Configure` runs
the model's table through `create_bsmp_var`, which drops what is out of order.

## 3. Runs

| Run | Shows |
|---|---|
| `IsrOnly` | Only RS-485, an endless host, a C28 that may stop. `OkMeansTaken`, `TimeoutMeansPolled`: answers are true. `PendingUntouched`: after a time-out nothing touches the pending message. `ImplementsMailbox`: the refinement of `Mailbox`. `IsrReturns`: the interrupt ends |
| `Preempt` | A packet preempts display commands and tasks. `IsrMessageIntact`, `CodeIntact`, `OkMeansTaken`; `IsrBounded`: the interrupt does a bounded number of accesses per packet; `MainReturns`: the preempted call ends although its counter is cleared under it |
| `AutoLockSingle` | One supply: `AutoLock` and `AutoRemote` |
| `EveryFunction` | Any of the 31 functions, single or broadcast, with interlocks, on the DC link model |
| `Serial` | Three receivers, any cutting into interrupts, one fault: `PacketsHandled`, `OwnHeader`, `BackToListening` |
| `System` | CAN, ADC and timer preempt the main loop. `ErrNoticed`: no CAN status waits with nobody to look at it; `ErrServed`: each is taken off in the end. `InterlockAttributed`, `InterlockRaised`: an interlock reaches the C28 for the board that reported it, and only for it. `BoardsShown`: variables show the data of their own board. `OneWriter`: no signal has two sources. `ResetReachesBoards`: a reset is handed over for every board |
| `Server` | Any three calls with one fault. `GroupsSound`, `ClientAgrees`, `ChecksumHonest`, `ReadOnlyKept`; `Refines`: the whole implements `BsmpService`; `CallsReturn` |
| `Params` | Two commands and a power failure anywhere. `SavedSurvives`: saving disturbs nothing else; `BootSource`: all of bank and coefficients comes from one memory, as last saved; `BootComplete`: every variable of every model is registered under its identifier; `Returns`: every command and boot ends |
| `InterlockDropped`, `InterlockModule`, `AutoLockMulti`, `LocalTarget` | Violations, see section 5 |

Bounds, and why they are enough. Two supplies (one in `AutoLockSingle`) are enough
for "another supply". `TIMEOUT_DSP_IPC_ACK = 2` has the first, the last and one
poll too many. Hosts send two packets at most (`MaxFrames`), which is one display
command and one packet that preempts it; in `IsrOnly` the count is lifted
(`FrameCost = 0`), so that packets after a time-out after a time-out are covered.
`EveryFunction` sends one packet, because two would square the 31 functions; what
two can do to each other depends on the parts of the skeleton, which the other runs
combine. In `Serial` the buffer holds 8 bytes, packets have 5 and 6, bytes have two
bits, so a damaged size can be too small, too large to ever be complete, or larger
than the buffer.

`System` runs three models: `FAC_ACDC` has two boards of different kinds and signals from
both CAN and ADC, `FAP` a single board, `FBP` none. Three events (`MaxEvents`, at most
two of them messages) are a status or a message during the handling of another; every
board may send its messages 0 and 3 (`Reports`) besides the interlocks, which is one
with a copied signal and one without; a scan of the ADC may begin with channel 0 or 3
(`Rotations`). The theorems cover the other models and any number of events.
`Server` has three variables (a read-only one between two writable ones), room for two
groups besides the standard ones, so that a full list and a reused slot happen, two
blocks of two bytes, and three calls after the initialisation (create, use or
remove, use again).

`Params` takes seven parameters, of one and of two bytes, with one and with several
elements, those that share a cell or have no off-board address among them; the classes
PI (one page) and 3P3Z (two pages, buffer overrun); every model number and one above
100; and two commands with one power failure: change, save, fail, boot.

`CHECK_DEADLOCK FALSE` stands where the number of packets, events or calls is bounded:
the system then stops because nobody asks for anything.

Fairness. `ArmFairness`: the processor executes the interrupt, and the main loop
when no interrupt is active. It assumes nothing of the C28, so `IsrReturns` and
`MainReturns` hold if it stops. `MainReturns` relies on the bound on packets: an
endless stream of packets could clear `ulTimeout` for ever. `SystemFairness` adds
that the timer interrupt keeps coming and that the C28 serves its mailbox, without
which no lock message has an effect. `Serial`: bytes arrive, the UART raises its
interrupts and the processor runs; faults, the host and losses other than those of
a deaf receiver are not fair. `System`: the main loop runs and a pending interrupt is
served (nothing masks interrupts after boot); the bus, the timer and the host are not
fair. `Server`: an exchange ends with an answer or a failure, because `recv` gives up, and
the library goes on; faults and other masters are not fair (`WF(Progress)` can be met by
losing every message until the faults are used up). `Params`: the processor runs and the
I2C master ends its transactions, as the code, which waits without a time-out, assumes.

Some conditions in the properties are limits of the code, not of the model.
`OkMeansTaken` and `TimeoutMeansPolled` are about functions that clear `ulTimeout`;
the five that do not can answer `DSP_Timeout` at once after an earlier time-out; that their
`Ok` is true as well is part of `ImplementsMailbox`, for RS-485 alone.
`PacketsHandled` and `BackToListening` exclude `desync`: below 1 Mbaud a lost byte
can leave the receiver out of step for long (a size between the free space and
`SERIAL_BUF_SIZE` is never complete and never dropped). `BoardsShown` and `OneWriter` exclude
the words of a device with an identifier of no board. `ClientAgrees` excludes a list that
somebody else has changed (`stale`): the protocol has no way to tell the client.
`ChecksumHonest` is about the two waveforms, since the C28 writes the samples. `SavedSurvives`
excludes `PS_Name` off-board after one of the two parameters without an address was saved
there. `BootSource` holds for what was last *written*: a bank half saved when the power
failed is loaded as the mixture it is, because it has no generation number to refuse it by.

## 4. Proofs

`IpcHandshakeProofs` holds for every number of supplies, time-out, set of commands
(any record of `CmdType`), inputs, interlocks and packets, from the assumptions
`NAssumption`, `TimeoutAssumption`, `CmdsAssumption` and `DataAssumption`.

* `TypeCorrect`: `TypeOK` is inductive. The interesting part is that
  `g_current_ps_id`, `msg_id` and `arg` stay inside the arrays, through broadcasts
  and tasks.
* `MailboxSafe`: the inductive invariant is `TypeOK` with `MailboxInv` and
  `CounterInv` and the four properties. None of the properties is inductive alone:
  `IsrMessageIntact` needs to know that nobody is past the busy test with a message
  pending, that `g_current_ps_id` is the supply of the packet during the whole
  interrupt (and `arg`, `msg_id` after it), and that the strobe bit is up exactly
  while a message is pending; that the main loop's own send can only meet
  a message of the interrupt is what makes the exception of `CodeIntact` the only
  one. `OkMeansTaken` and `TimeoutMeansPolled` need that `ulTimeout` equals the polls
  done and never passes the limit, which is where `<` and `==` meet (`CounterInv`).
* `IsrMessageStays`, `CodeStays`, `OkIsTrue`, `TimeoutIsTrue` are its consequences.
* `PendingStays`: `PendingUntouched` for all 31 functions, on the condition that the main loop
  runs no command (`[](pc["main"] = "idle")`, RS-485 being the only source). It needs
  `FunctionsInv`: no function has its payload in a field that another writes before its busy
  test (`FirmwareDiscreet`, by evaluation of the table), and a pulse past its test of the flag
  register has found the mailbox empty. What functions write *before* the busy test is not the
  payload of a message, and not protected (section 1, `PROJECT.json`).
* `MailboxImplemented`: under the same condition, `Spec` implements `Mailbox`. The condition
  is needed: with a display command under way the union of two codes, a foreign supply or
  a counter reset under the loop are possible (section 5 and the exception of `CodeIntact`).
  `Isolated` is what the refinement adds to the invariants above: from `StorePayload` to the
  send the payload is in place for every supply the message is for (`PayloadInPlace`, which
  needs that whoever sends to all supplies has stored for all), at most one message is
  pending, and `ulTimeout` never passes the limit in any function (`LimitKept`), so that a
  loop that ends below it has seen the flag down. `StepLeavesPending` keeps the box through
  all other steps; there is one lemma for each way a call moves (`CallBegins`, `CallGoesOn`,
  `SendPuts`, `CallAnswers`).
* `InterruptBounded`: `IsrBounded`, for all contexts together. `Work` bounds the accesses that
  are left: four for every poll the limit allows, at most `TurnSteps` = 4 *
  `TIMEOUT_DSP_IPC_ACK` + 13 for a call, and `N` calls for a broadcast. Each step of the
  interrupt lowers it (`StepLowers`) and no other step changes it (`OthersWait`), so that the
  interrupt needs nothing but the processor to end. The counter may hold anything at the
  start, also in the five functions that do not clear it and when the preempted call is in the
  middle of its own `ulTimeout++`; `PollInv` says that the limit tested just before is
  still that of the counter when it is incremented.

`SerialReceiverProofs`: `BufferSafe` (the index stays inside `recv_buffer`, for
every buffer size, FIFO depth and traffic) and `HeaderIsOwn` (no packet is processed
before its own header and checksum are there), from `SizesAssumption`,
`AddressesAssumption` and `FramesAssumption`.

* `EveryPacketHandled`: `PacketsHandled` for packets of every content and size, FIFO depth, fill
  level and interleaving of line, interrupt and main loop, and for any number of faults. It
  assumes `ValidFrames` (the packets carry their own size and add up to 0, and one condition on
  the high byte of the size that the third point explains; `MCSerialReceiver` has TLC evaluate
  it) and `OneFaultPerPacket`: two changed bytes can cancel in a checksum of one byte.
  - The invariant `Stream` says that buffer, FIFO and line, one after the other, are the packet
    the host sent, except for the byte at `bad`, and that the checksum is that of the packet
    until this byte has been added, and differs from it ever after (`ByteSums`: one changed
    byte cannot be undone by equal ones).
  - `Underway` says where the receiver can be meanwhile: what is left in the FIFO is going to be
    read (`NeverDeaf`), and a whole packet is always on its way to be processed.
  - `Ready`: size bytes left by an old packet, or the new high byte with an old low byte,
    do not look too large for the buffer. Without it the slower receivers drop the first bytes
    of a packet, which is why `desync` ends with `InStep` and not with the next packet.
  - `HighInv` holds even where packet boundaries are lost: from 1 Mbaud on no handler leaves
    anything behind. `Released` ties the direction pin to the answer on the line.

`SystemTaskProofs` holds for every set of models, statuses, rotations and bounds, from
`SystemAssumption`.

* Lemmas on the tables: `MessageTables` (the interlock register is the first half of the
  last message of each kind of board, and of no other), `BoardTables` (in each of the 14
  models no two boards raise the same interlock), by evaluation of the tables.
* `TypeCorrect`: the invariant is `TInv`, which is `TypeOK` with `Indices` (the ranges of
  the loop counter by place) and `ScanOK` (a full FIFO holds eight channels).
* `ErrorsNoticed`: `Noticed` says that while the error handler runs, every bit in
  `g_ui32ErrFlag`, and in the register between load and store, either belongs to a test
  still to come (`Remaining`) or the request flag is set again. The masks together cover all
  bits (`AllRemain`), so nothing is left when the handler ends.
* `InterlocksAttributed`, `InterlocksRaised`: `IlkInv` adds that a waiting message is of a
  board that exists and that an interlock in it was reported (`FrameOK`), and that every
  request belongs to a board that reported (`AskedOK`); with `BoardTables` the board is unique.
* `OneWriterOfSignals`, `BoardsShownRight`: the invariant is `DataInv`: every field of a
  board's structure holds its initial value, a foreign word, or a word that a message puts in
  this field of this board (`FieldsShown`), and every signal a word of one of its sources
  (`SignalsShown`). That the sources of a signal are one (`OneOrigin`) and that the variables
  of the 14 models name existing fields and signals (`SourcedModels`, `WiredModels`) comes from
  the tables.

`ParamBankProofs` holds for every subset of the parameters and classes, values, commands and
power failures, from `ParamAssumption`.

* `LayoutDisjoint` and the lemmas after it: items with an address of their own are disjoint in
  both memories, and a transfer lies inside a page.
* `ParamTypes`: `TypeInv` with `PhaseInv` (what the boot still has to do by phase). The lists of
  items and the calls of `create_bsmp_var` are loops; that they stay in their types for any
  number of turns is proved through `LoopTheorems`.
* `SavedItemsSurvive`: `Survives` says it byte by byte, for the bytes of a module whose second
  page was not written before the failure too.
* `BootFromOneMemory`: `BootInv` says which items have been loaded from which memory, by what is
  left of the transfers (`Loaded`, `Pending`). It needs `Survives`, because `BootSource`
  compares with what was written, not with what is read.
* `EveryVariableRegistered`: `BootComplete` for every model number. `create_bsmp_var` takes
  a variable only under the next free identifier. `PsModelsProofs` shows of each of the 14
  tables that every call finds its server with the number of variables the call starts at
  (`InTurn`, `Takes`) and never more than 128, so that the table `Fills` the servers; the
  lengths of the lists the tables are made of are the lemmas `Listed...`. `InStepAlways` is
  the induction over the calls of the table: every variable is as the last call so far that
  names it says (`InStep`). `RegisteredInv` says that the servers stay so until a command.

`BsmpClientProofs` holds for any variables, functions, sizes of curves, calls, other requests
and number of faults, from `ServerAssumption`, `ListAssumption` (fewer than 128 variables of at
least one byte: the size shares its byte with the permission, and the firmware has at most 126)
and `ClientAssumption` (data in requests are bits, as everywhere in the model, and a call of
`read_curve` comes with an empty buffer).

* `WorldInv` is the invariant of the server and its memory: sound groups, sizes that fit,
  curves in their place, honest checksums. `Served` says what a command may do to a world
  (`WorldInv` again, read-only variables and what belongs to the C28 untouched), and there is
  one lemma per command (`group_create_served`, `curve_block_served`, ...). The loops of
  the code (over the variables of a group, over the list of a request) are unfolded by the
  lemmas `SizesUnfold`, `PopulateUnfold` and `ForGroupFacts`.
* `ClientInv` adds the types of the lists of the client, of the call at each stage and of the
  answer on the wire (`AnswerOK`): the client indexes its own lists with what an answer says.
  `ClientTypes`, `GroupsStaySound`, `ChecksumsHonest` and `ReadOnlyNeverWritten` follow.
* `ClientSeesGroups` needs `AgreeInv`: `ClientAgrees` is about the time between calls, but the
  list is read over several exchanges, so the invariant says what has been read so far
  (`AgreedUpTo`) and what the answer on the wire holds.

`BsmpServiceProofs`, from the same assumptions: `ServiceImplemented` is `Spec => Refines`, the
refinement for all variables, calls, curves, faults and other masters.

* What a request does is shown command by command and put together in `Outcome`: it is refused
  and changes nothing, or its answer is a success, the entities have changed by exactly
  one `Effect` of the call, and the answer carries what the effect shows. The longest argument is
  that writing a group leaves in each of its variables its own part of the bytes, and
  that a binary operation on the parts is the operation on the whole.
* `RefInv` ties the history variables `done` and `seen` to the stage of the call (`Progressed`): before
  the exchange no effect, after a success all of them, in a transfer of a curve as many as
  blocks have been acknowledged, and one more while a success is on its way. When an answer
  is lost it says nothing: the call then ends in an error, which promises nothing.
  It also says that the client cuts a curve into the blocks of the server (`CurvesKnown`,
  `Told`) and that nobody changes the standard groups (`Standard`). It is inductive
  together with `ClientInv` and `AgreeInv`.
* The service lets other masters change groups; it lets them change values and blocks only
  if some request of theirs does that (`OthersWrite`). In the run `Server` none does
  (`QuietOthers`, evaluated by TLC), so the run checks the stronger service in which a
  value changes only by the call in progress. The theorem covers both.

Induction. The library's induction theorems cannot be instantiated by the installed provers.
`LoopTheorems` states induction for sets (`SetInduction`: a set that contains 0 and the successor
of each of its numbers contains all), from the least element of a set of naturals, and derives
that recursive functions of the form of the code's loops exist and unfold, so that
loops over data are covered by the theorems and not only by TLC.

Only model-checked: the liveness properties (`IsrReturns`, `MainReturns`,
`AutoLock`, `AutoRemote`, `BackToListening`, `ResetReachesBoards`, `ErrServed`,
`CallsReturn`, `Returns`), which need fairness; of `IsrReturns`, what does not need it is `InterruptBounded`. Every
invariant, every action property and both refinements that the runs check are theorems.

## 5. Where the code and its comments disagree

1. `InterlockDropped`: an interlock reported while any message is pending is not
   sent (`ipc/ipc_lib.c:135`); `event_manager.c:62` promises the interrupt request.
2. `InterlockModule`: a command overwrites the module of a pending interlock
   request (`ipc/ipc_lib.c:153`), because its busy test does not see that request.
3. `AutoLockMulti`: the lock task runs function 9 of each server but locks
   `g_current_ps_id`, which it does not set (`system_task.c:322`).
4. `LocalTarget`: a display command preempted by a packet goes to the supply of the
   packet (`bsmp_lib.c:100`), not to the "specified power supply".

## 6. Not modelled, and the plan

Left out for good: vendored code (uIP and its server, USB, flash, MD5, the UART console),
pin and SDRAM set-up, the RTC, the port expander, the isolated I2C devices (ADC,
temperature; the potentiometer is one value of `IpcHandshake`), the backup RS-485 port and
the difference equations of the control library. They are register I/O without a protocol,
or code that no command reaches.

Left out of modelled parts: the branches of `TaskCheck` that nothing requests;
`isr_ipc_lowpriority_msg`, which switches one pin; hooks, value checkers and custom
checksums of the server, which the firmware never registers.

Seen while modelling, with no statement in the code to hold against it: a received message
erases a `BUS_OFF` that was not served yet (`can/can_bkp.c:152`);
`bsmp_recalc_checksum` of the client accepts `CMD_OK` only, the server answers
`CMD_CURVE_CSUM` (`client.c:790`); the query of the functions packs sizes into nibbles
(`server_priv.c:721`); `bsmp_load_param_bank` sets no answer (`bsmp_lib.c:1845`).

What would come next: the mailbox with display commands. What both sources together promise
is weaker than `Mailbox` (`IsrMessageIntact`, `CodeIntact`), and an abstract specification
of it would name the interleavings in which a message is mixed or misdirected.
