# A TLA+ model of the MB2640A door lock firmware

The repository is the firmware of a door lock module built on TI's CC2640: a
host talks to it over a UART with AT commands, a phone talks to it over
Bluetooth LE, a person talks to it through a key pad.  It runs on TI-RTOS:
a few tasks, software and hardware interrupts, binary semaphores, and no
locks.  Almost nothing in it is hard sequentially.  What is hard is the order
in which tasks and interrupts meet: a UART that is closed while another task
writes, a wake-up that was already spent, a parameter that changes while it is
being saved, power that fails half way, a call of the stack that travels as a
message.  That is what the modules here are about.  Modelled is the code under
`src/Source` that this product wrote or adapted, and the layer through which
its tasks and the BLE stack talk; the stack itself, drivers and kernel appear
as what the code relies on.

All paths below are relative to `src/Source/Application` unless they start
with `src/`; `ICallBleAPI.c` is in `src/Source/ICall/Application`,
`bleDispatch.c` in `src/Source/ICall/Stack`.  The build modelled is the one the
project files select: `POWER_SAVING` defined, `GL_LOG` true, `LOG` as each file
defines it (true in `cmd.c` and `kp.c`, false in `cust_nv.c`), no host transport
for the stack (`HCI_TL_NONE`).  Where the stack's layer is modelled for other
builds as well, the module says so.

## 1. The system

| Component | Code | State | Operations | Modelled in |
|---|---|---|---|---|
| Command port link | `cmd/cmd.c` 250-350, 408-475, 1190-1261 | `cmdState`, `cmdActive`, four binary semaphores, power constraints, SRDY, UART | receive task, MRDY handler, UART callbacks, writes by three tasks | `CmdLink`, `MrdyLink` |
| Ring buffer | `ringbuff/ringbuff.c` | `head`, `tail`, `count`, `isfull`, `isempty`, bytes | push, pop, write, delete, read | `Ringbuff`, `Fifo` |
| Command channel | `cmd/cmd.c` 446-452, 487-527 | ring buffer, copy of it, `sizesize` | append, wake, cut lines, delete | `CmdChannel`, `LineStream` |
| Command dispatch and replies | `cmd/cmd.c` 320-350, 530-1180 | none of its own; what the host was told | search of the table, get, set, format and plain commands, reports | `AtCommand`, `HostView`; saves in `CustNV` |
| Parameter store | `cust/cust_nv.c` | `custParas`, `custNV`, flash | init, setters, save, restore | `Params`, `CustNV` |
| Door lock BLE service | `doorlock/doorlockservice.c` | its copy `para` | BLE writes, initialisation | `CustNV` |
| BLE application task | `MB2640A.c` | `pAttRsp`, two queues, one semaphore, GAP state | hold, send, free responses; report GAP states; restart advertising; save after a BLE write | `AttRsp`, `HostView`, `CustNV` |
| Key pad | `keypad/kp.c` | `transSem`, input buffer, code state | read a key, step, report, clear | `Keypad` |
| Input pins | `gpio/gpio_in.c` | level last reported, debounce clocks | edge callback, clock handlers | `GpioIn`, `Keypad` |
| Output pins | `gpio/gpio_out.c` | mode and timing of each pin | set, blink, blink handler | `GpioOut` |
| ICall and OSAL glue: calls of the stack | `ICallBleAPI.c`, `bleDispatch.c` 300-3000, the message headers | messages on their way, inboxes, the calls tasks wait in | every function of the API, its message, its match function, its case of the dispatcher | `StackMsg`, `HostApi`, `HciApi`, `StackMatch`, `StackDispatch`, `StackCall`, `RemoteCall` |
| ICall and OSAL glue: commands of a serial host | `bleDispatch.c`, `processExtMsg` and what it calls | prepared writes, the service being built, memory and who frees it | every command | `ExtTables`, `ExtMsg` |
| Board and start-up | `main.c`, `src/Source/Board` | - | order of initialisation | the `Init` of the modules |
| Utilities, NPI, stack image | vendor or pure code | - | - | not modelled, section 8 |

How they interact:

* **Host to module.** The host pulls MRDY low.  `gpio_in.c` debounces the edge
  (100 ms) and calls `cmd_MRDYHandler` from a clock's software interrupt, which
  writes `cmdState` and posts a semaphore.  The receive task opens the UART,
  sets power constraints, asserts SRDY and reads.  Bytes go into the ring
  buffer, the command task is woken, cuts lines, and calls a handler, which may
  change parameters, save them, and answer through the same UART.
* **Phone to module.** The stack's task, of the highest priority, runs the
  service's write callback: it changes `custParas` and its own copy in place
  and queues a message; the application task saves when it gets there, and
  tells the host.
* **Person to module.** A falling edge of the key line, a 10 ms debounce clock,
  a semaphore, an I2C read, a state machine, and a log line on the UART.
* **Everybody to the UART.** The receive task, the command task, the key pad
  task and the application task write through one binary semaphore, `cmdTxSem`,
  which the write *callback* posts.  The receive task takes it before it
  closes the UART and keeps it while the UART is closed.  `cmd_write` waits for
  it for ever, `Log_printf` and `Log_writeStr` for 50 ms.
* **Tasks to the stack.** The stack is a separate image with a task of its own.
  A call is a message with the arguments, pointers into the caller's stack
  frame among them; the dispatcher makes the call and sends a status to the
  caller's inbox, where the stack's events arrive too.  The caller takes the
  first message there that its match function accepts.
* **The GAP role** is vendor code, but a task of the application image, of a
  higher priority than the application's own (`GAPRole_createTask`,
  `main.c:101`).  It follows the stack's events and queues a message to the
  application task at each change of state.

What is hard, and with it what has to be true, is the list of hazards in
`PROJECT.json`, each at its line.  The main ones:

* the right to transmit is passed through tasks, a driver and a callback, with
  a wait that may time out in between (`OneTx`, `WritesArePowered`,
  `CloseCutsNoWrite`, `WriterIsServed`);
* `cmdState` is written by a task and by an interrupt, with no test-and-set,
  and semaphore posts of earlier rounds are left over (`NeverDeaf`,
  `RunServesHeldSleeps`, `RingBeforeUse`, `HostIsServed`, `SuspendIsServed`);
* a bouncing line against a callback that compares and then starts a clock
  (`SettledIsSeen`);
* two indexes, a count and two flags kept by hand (`FieldsAgree`, `IsFifo`);
* a copy of the buffer, worked on while the buffer grows, then deleted by count,
  with a binary wake-up for many events (`HandlesLinesInOrder`, `IdleIsReady`,
  `LinesAreHandled`);
* two tasks that tell the host of the same parameters and of the connection,
  through lines that may be given up, while the port sleeps and wakes
  (`ConnIsTold`, `ParametersAreTold`, `OneAnswerEach`, `VisibleOnceStarted`,
  `AppGoesOn`);
* parameters set and saved one by one, the PIN digit by digit, while a task of
  higher priority writes into them, flash writes that fail, and power cuts (`FlashInRange`, `OkIsDurable`,
  `QuietIsSaved`, `FlashCatchesUp`);
* a response of which two buffers must be freed once each, across connections
  that come and go (`BuffersAreAccountedFor`, `HeldIsWatched`,
  `HeldIsReleased`);
* calls that pass pointers to a stack frame in a message, answers told apart by
  a match function, and one call written down in five places over structures
  that overlay each other (`ArgsOutlive`, `AnswerIsOwn`, `CallReturns`,
  `IsRemoteCall`);
* memory that changes hands when a call succeeds and is kept over several
  commands, with any allocation failing, and a heap that hands out again what
  was freed too early (`BlocksHaveOneOwner`, `OnlyTheseMisfree`,
  `KeptAsAnswered`, `AnswersAreFresh`).

## 2. The modules

Abstract specifications are marked (A), compositions (C), modules of pure
definitions (D).

* **`CmdLink`**: `cmd_taskRxFxn` as a control point `rxPc`, one step per
  statement between which something else can run; `cmdState` is the shared
  word.  `RxSwitch` is the `switch`, `RxInitSet` the branch of `CMD_INIT` after
  the sample of MRDY, `RxResume`...`RxResumeEnd`, `RxRunClear`...`RxRunCheck`
  and `RxSuspend`...`RxSuspendHold` the other states.  `cmd_MRDYHandler`,
  `uart_readCallBack` and `uart_writeCallBack` are the interrupts.  Other tasks
  are `Writers`: `WriterCalls` enters `cmd_write` (waits for ever) or a `Log_`
  function (waits 50 ms); then `WriterTakesTx` or `WriterTimesOut`, and
  `WriterWrites`.  Bytes are a number.  Variables and operators keep the
  source's names; `uartOpen`, `reading`, `txBusy` are the driver.
* **`GpioIn`**: the MRDY half of `gpio_in.c`: raw `line`, latched `edge`, the
  callback between its comparison and `Util_startClock` (`starting`), the
  debounce `clock`, and `curr`, the level last reported.
* **`MrdyLink`** (C): `CmdLink` with `INSTANCE GpioIn WITH curr <- mrdy`.  A step
  is one of the link's or one of the pin's, except that the debounce handler
  which finds a new level *is* the step of `cmd_MRDYHandler`.
* **`Ringbuff`**: the struct's fields and the loops of `Ringbuff_write` and
  `Ringbuff_delete`, a push or a pop per step; `Ringbuff_read` as an operator.
  **`Fifo`** (A): a queue of `size - 1` bytes.
* **`CmdChannel`**: from a finished read to a handled line; the ring buffer is
  the queue that `Ringbuff` is shown to implement.  `RxReceives` is a read that
  gets there, `RxWipes` one that ended and whose size the receive task sets to 0
  before it looks (`cmd/cmd.c:446`).  A NUL byte and a failing allocation are
  *mishaps*, counted; so are wiped reads.  **`LineStream`** (A): accepted bytes are
  handled in order, in whole lines, each once; without memory a line may be
  dropped.
* **`Params`** (D): the parameters, where each is in the image, its default, the
  values a save lets through, and what setters and getters make of a number:
  the cast to 8 bits, the setter's range, the getter's sign.
* **`CustNV`**: the store and everything that writes to it, by *cells*: a digit of
  the PIN, or another parameter.  `SetCell` is one cell of a setter or of
  `para_restore`, `SaveCheck` the checks of `para_write`, `SaveWrite` one cell
  packed into the image, `SaveFlash` is `osal_snv_write`.  `BleWritePin` and
  `BleWritePara`, each one `memcpy` of the stack's task, may fall between any two
  of them; `Restart` is a power cut anywhere followed by `CustNV_init`.
* **`AtCommand`** (D): `cmdTable`, the search for an entry, `cmd_getType`, and for
  each entry what its handler does with each type of line (`PlanFor`).  A line is
  what `strstr`, `strlen` and `sscanf` can tell of it.
* **`HostView`**: the two tasks that tell the host something.  `HostSends` puts a
  line in, `CmdSays`, `CmdGets`, `CmdSets` and `CmdRestores` are the command task
  with the handlers of `AtCommand`; `RoleStarts`, `RoleAdvertises` and
  `RoleChanges` are the GAP role's task, `BleWrites` the callback of the stack's,
  `App` the application task with its queue.  Whoever writes
  takes a place in `waits`, the queue for `cmdTxSem`, and `Log_printf_GivesUp`
  leaves it; `RxSuspends` and `RxResumes` are what the receive task does to the
  semaphore.  `reports` are the parameters `Cmd_onValueChanged` has yet to write;
  `told`, `conn` and `answers` are what the host has read so far.
* **`AttRsp`**: `pAttRsp`, the stack's queue, the task's own queue and the
  semaphore both share; buffers are `free`, `live` or freed `twice`.
* **`StackMsg`, `HostApi`, `HciApi`, `StackMatch`, `StackDispatch`** (D): the
  structures of the messages, with the size of each field; each function of
  the API with its command, structure, and the field each argument goes to; the
  statuses each match function accepts; and each case of the dispatcher with the
  function it calls, the fields it reads through its own idea of the structure,
  the bytes its status carries, and the features of the build it needs.  Where
  the caller names a parameter, as `GAPBondMgr_GetParameter` does, the number of
  bytes depends on which one (`BondParamLen`).  `StackDispatch` computes from these
  what the stack does for a call (`Outcomes`): itself, another function, or
  other arguments.
* **`StackCall`**: `Calling` sends the message, `bleDispatch_ProcessEvent` takes
  it and executes the command, `Finishes` frees it and sends the status,
  `waitMatchCS` is the caller that finds its answer; `StackEvent` and `Fetches`
  put events into the inbox and take them.  **`RemoteCall`** (A): as if the
  stack's functions were the caller's own.
* **`ExtTables`** (D), **`ExtMsg`**: the commands of a host on the serial port, in
  a build with the stack as a network processor.  Most cases of the switch have
  one of fourteen shapes, named in `ExtTables`; those with state of their own
  are actions.  Memory is a set of `Blocks`; the heap knows only which are
  allocated (`live`), not who points to them, and hands out any other (`New`).
  Whoever frees does so through `Frees`, which writes down who first freed a block
  that was not allocated, or that somebody still points to (`misfreed`).
* **`Keypad`**: key line, debounce clock, `kp_taskRxFxn` (`pend`, `read`,
  `log`, `report`: the places where it blocks), `kp_PushKey`,
  `kp_CodeProcess`.
* **`GpioOut`**: pin modes, the blink clock, and the millisecond time that
  starts again from 0.

`MC*` modules and `.cfg` files instantiate them; `*Proofs` modules hold
theorems.  A definition whose comment begins with "Slip" is a plausible mistake
in the definition after it, used to confirm that each property can fail; no
specification uses one.  History variables, which the code does not have, are
`recent`, `owed`, `behind`, `answer` (`CustNV`), `msgLost` (`AttRsp`), `answered`
and `report` (`Keypad`), `done` and `op` of `Ringbuff`, the counts
`mishaps` and `wiped` of `CmdChannel`, `dropped`, `missed`, `connMissed` and the
count `mishaps` of `HostView`, `unanswered` and the numbers of calls in
`StackCall`, and `misfreed`, `promised`, `agreed` and `valueless` of `ExtMsg`.

### What the models rely on

Nothing under `src/` says these; the code is written as if they held.

* Tasks of one priority switch only where one blocks.  The command task, the key
  pad task, the receive task and the application task do; the stack's task and
  all interrupts preempt them.
* A debounce clock's handler (software interrupt) preempts the PIN driver's
  callback; not the other way round.
* The UART driver refuses a read or write it has under way or while it is
  closed, and ends each write it accepted with one callback.  Closing it drops a
  read in progress without one.
* A semaphore serves waiting tasks in the order they came.
* `osal_snv_write` either stores the whole item or fails and stores nothing, and
  the stack's task serves it in one piece.  The CRC detects a torn image.
* `Ringbuff_init` gets its memory at boot.
* The task's ICall semaphore counts; the stack sends no more than one response
  per open request, one request is open per client, and there is one
  connection at a time with always the same handle.
* ICall delivers messages in order and loses none once it has memory for them;
  a task that calls the stack is registered with ICall.
* The stack keeps a payload exactly if the call that got it succeeds, and gives
  tokens and services back when asked to remove them.

## 3. The runs

Distinct states in brackets; each run ends within three minutes on two workers.

| Run | Specification and instance | What it shows |
|---|---|---|
| `link` [170 344] | `MrdyLink`, one writer, no edge before the first step | the right to transmit is never doubled or lost; no write meets a closed UART or standby; `CMD_RUN` serves, the hold sleeps; the task never waits for bytes nobody will bring; closing cuts no write; the ring buffer exists before it is used; no bounce is lost; a host that holds MRDY low gets `CMD_RUN`; a release puts the port to sleep; a blocked writer gets its turn while the port is up |
| `ring_fifo` [101 136] | `Ringbuff`, 3 byte values, 4 slots, calls of up to 3 | fields agree, reads are right, the buffer implements `Fifo` |
| `channel` [923 467] | `CmdChannel`, room 7 for lines of 3, all bytes with NUL, two NULs, failing allocations or wiped reads | the port implements `LineStream`; without a mishap it never sleeps on a complete line and handles every line, and, if no read is wiped either, is never full for good |
| `nv_saves` [1 689 525] | `CustNV`, two digits of the PIN and a parameter, both orders of the restore's operands, failures, power cuts | flash stays in range, an OK is durable cell by cell, quiet means saved, flash catches up when nobody writes any more |
| `att_response` [2 474] | `AttRsp`, two response buffers, queues of two | no leak, no double free, nothing held without a watcher, no sleeping on a message, release |
| `host_view` [2 274 603] | `HostView`, PIN and time zone, five kinds of lines | what the host knows when all is quiet is right; one answer a line, in order; a sleeping host does not hold up the application task |
| `stack_call` [754 530] | `StackCall`, every function but three, two tasks, two builds | arguments outlive the call, answers go to their calls, the stack implements `RemoteCall`, calls return |
| `ext_commands` [144 415] | `ExtMsg`, four blocks of memory, any command at any time | until a command frees what is not its own to free, every block has one owner and what is kept is what the host was told; only two commands are first to do so; answers carry no old bytes |
| `keypad` [46 776] | `Keypad`, keys 1, 8, \*, #, room for five | reports are right, only beginnings of codes wait, a held key is read |
| `nv_ble_reads` | `CustNV`, cells as in `nv_saves`, set commands inside the formats only | **violated**, section 7 |
| `nv_in_range` | the same, with a PIN of other characters | **violated**, section 7 |
| `blink_stops` | `GpioOut`, one pin, time of 10 ms | **violated**, section 7 |

Deadlock is checked in every run but `stack_call`, and there is none: in each
system something outside (a host, a user, a connection) can always act.  In
`stack_call` both tasks may wait for ever, each for a status that found no memory
(`bleDispatch.c:805`); `CallReturns` says that nothing else stops a caller.
Type invariants are theorems where a module has proofs, and are defined for the
reader in the others.  Every property of a passing run has a mutant in
`PROJECT.json`: the definition named there, changed as a plausible bug would
change it, makes TLC find the property violated.

## 4. Bounds, and why they are enough

* **`Writers`** = `{cmd}` in `link`: every further writer multiplies a graph whose
  strong fairness is expensive.  Several writers compete for `cmdTxSem` like one
  writer and the receive task do; the theorems on the link's safety hold for
  every set of them.
* **`MaxRx`** = 1: only `cmdRxSize > 0` is tested.  The theorems hold for every
  size.
* **`EarlyEdge`** = `FALSE` in `link`: MRDY's debounce time (100 ms) is longer than
  the boot, so that no edge is reported before the receive task's first step.
  All theorems but `RingBeforeUse`'s hold for `TRUE` too.
* **`size`** = 4 (3 usable), `MaxCall` = 3: writes that do not fit, deletes of more
  than there is, every wrap-around.  The theorems hold for every size.
* **`Capacity`** = 7 and `MaxChunk` = 2 in `channel`, for lines of at most
  `MaxLine` = 3: the least room for more than two lines; chunks end anywhere in a
  line, overflow cuts lines.  The product has 127 bytes for lines of about 25;
  see section 7 for what smaller room does.  `MaxMishaps` = 2, wiped reads
  counted in: the properties with a proof hold for any number.
* **`Cell`** = the first and the last digit of the PIN and the motor time in
  `nv_saves`: the digits are in different bytes of the image, the motor time in a
  third, so that a BLE write can fall between any two, and between two digits
  of one PIN.  The values asked for are legal (5555 against 1662 over BLE and
  the default, which differ in both digits), legal only after the cast to 8
  bits, and no digits.  `MaxMsgs` = 1 message to the application task, more are lost.  The
  theorems hold for all sets of parameters and values, and every queue.
* **`HostView`**: PIN and time zone, the parameter with a sign.  `HostLines` are a
  query, a good order, an order that is refused only by the save, a format
  query and a restore: one for each way a handler goes.  `BlePins` is empty and
  BLE writes one value, the default, since two tasks that write different
  values to one parameter are enough.  `MaxAsked` = 2 lines: an answer can pass
  another, or a report, only with two under way.  `MaxMsgs` = 1 and `MaxMishaps` =
  1: one allocation or flash write fails.
* **`StackCall`**: `AppCalls` is every function but the three of section 7,
  `CmdCalls` the two the command task makes.  The builds are the product's and
  one with every feature.  `MaxRequests` = 2 and `MaxMsgs` = 1: two tasks wait for
  at most one call each, and what nobody waits for fills the rest.
* **`ExtMsg`**: four `Blocks` hold an array of writes and two payloads, or a
  service with two attributes and an identifier, and are short for both;
  `GATT_MAX_NUM_RELIABLE_WRITES` = 2 (5 in the SDK), `MaxAttrs` = 3.
  `ext_commands` has the constraint `NotMisfreed`: the first state after a
  misfree is checked, and the search does not go on from it.  Nothing is lost
  by that: of what follows a misfree the properties claim only that the
  name of the first to misfree stays and that answers are fresh, which
  does not depend on memory, and the boot that ends it leads back to `ExtInit`.
  The proofs have no such constraint.
* **`MaxRsp`** = 2: the responses of two connections that overlap.  The theorems
  hold for every number.  `MaxMsgs` and `MaxSignals` bound the queues: a full
  queue of the task's own messages stands for an allocation that fails.
* **`KP_MAX_INPUT`** = 5 (20 in the product): the longest start of a code,
  `*#1`, and two places more; the last place behaves specially and is reached
  by each kind of code.
* **`Wrap`** = 10 ms (2^32 / 1000 in the product), blinks of 4 ms, `LeftSize` = 4
  (256 in the product).

## 5. Fairness

A specification has fairness only for what the code's scheduling gives:

* tasks that can run do run (`RxRuns`, `CmdTask`, `Save`, `App`, `KpTask`,
  `bleDispatch_ProcessEvent`, `Finishes`, `waitMatchCS` of each caller; weak); no
  task of this code spins;
* a task waiting on `cmdTxSem` is not passed over for ever (`RxTakesTx`,
  `WriterTakesTx`; strong): the semaphore is FIFO, while weak fairness would let
  it be taken by others each time it is posted.  `HostView` has the queue itself
  and needs none;
* the driver ends each write (`uart_writeCallBack`); a `Log_` call times out
  (`WriterTimesOut`, `Log_printf_GivesUp`);
* latched interrupts and running clocks fire (`gpioin_IntCallback`,
  `Util_startClock`, the debounce handlers, `gpioOut_BlinkHandler`), and time
  passes (`Tick`);
* in `AttRsp`, a client whose request is open for 30 seconds drops the
  connection, as ATT demands (`ClientTimesOut`).

The host owes neither MRDY edges nor bytes, the person no keys, the phone no
writes, no task a call; power may fail for ever.  `HostIsServed` and
`SuspendIsServed` therefore end with "or the host changed its mind", and in
`HostView` the port may sleep for ever.  `CmdLink`'s `Fairness` is used through
`MrdySpec`.  `ExtMsg` has none: only safety is asked of it.

## 6. What is proved

TLAPS checks these for every value of the constants.

| Theorem | Module | Statement |
|---|---|---|
| `TypeCorrect` | `CmdLinkProofs` | `Spec => []TypeOK` |
| `OneTxInvariant` | `CmdLinkProofs` | `Spec => []OneTx` |
| `WritesArePoweredInvariant` | `CmdLinkProofs` | `Spec => []WritesArePowered` |
| `RunServesInvariant` | `CmdLinkProofs` | `Spec => []RunServesHeldSleeps` |
| `NeverDeafInvariant` | `CmdLinkProofs` | `Spec => []NeverDeaf` |
| `CloseCutsNoWriteHolds` | `CmdLinkProofs` | `Spec => CloseCutsNoWrite`, an action property |
| `RingBeforeUseInvariant` | `CmdLinkProofs` | `EarlyEdge = FALSE /\ Spec => []RingBeforeUse` |
| `GpioInTypeCorrect`, `SettledIsSeenInvariant` | `CmdLinkProofs` | types of the pin; `GpioInSpec => []SettledIsSeen` |
| `ImplementsCmdLink`, `ImplementsGpioIn` | `CmdLinkProofs` | `MrdySpec => Spec`, `MrdySpec => GpioInSpec` |
| `LinkBehindMrdy` | `CmdLinkProofs` | `MrdySpec` has `OneTx`, `WritesArePowered`, `RunServesHeldSleeps`, `NeverDeaf` and `CloseCutsNoWrite` |
| `SettledIsSeenByLink`, `RingBeforeUseBehindMrdy` | `CmdLinkProofs` | `MrdySpec => []SettledIsSeen`; with `EarlyEdge = FALSE`, `MrdySpec => []RingBeforeUse` |
| `FieldsAgreeInvariant` | `RingbuffProofs` | `Spec => []FieldsAgree` |
| `ReadsOldestInvariant` | `RingbuffProofs` | `Spec => []ReadsOldest` |
| `ImplementsFifo` | `RingbuffProofs` | `Spec => IsFifo`, a refinement |
| `TypeCorrect`, `CopyIsFrontInvariant` | `CmdChannelProofs` | types; the copy stays the front of the ring buffer |
| `NoLineSleeps` | `CmdChannelProofs` | `Spec => []IdleHasNoLine` |
| `ImplementsLineStream` | `CmdChannelProofs` | `Spec => HandlesLinesInOrder`, a refinement |
| `IdleIsReadyInvariant` | `CmdChannelProofs` | `2 <= MaxLine`, `3 * MaxLine < Capacity`: `Spec => []IdleIsReady` |
| `TypeCorrect` | `CustNVProofs` | `Spec => []TypeOK` |
| `FlashInRangeInvariant` | `CustNVProofs` | `Spec => []FlashInRange` |
| `OkIsDurableInvariant` | `CustNVProofs` | `Spec => []OkIsDurable` |
| `QuietIsSavedInvariant` | `CustNVProofs` | `Spec => []QuietIsSaved` |
| `TypeCorrect` | `AttRspProofs` | `Spec => []TypeOK` |
| `HeldIsWatchedInvariant` | `AttRspProofs` | `Spec => []HeldIsWatched` |
| `AwakeForMessagesInvariant` | `AttRspProofs` | `Spec => []AwakeForMessages` |
| `BuffersInvariant` | `AttRspProofs` | `Spec => []BuffersAreAccountedFor` |
| `TypeCorrect` | `HostViewProofs` | `Spec => []TypeOK` |
| `OneAnswerEachInvariant` | `HostViewProofs` | `Spec => []OneAnswerEach` |
| `ConnIsToldInvariant` | `HostViewProofs` | `Spec => []ConnIsTold` |
| `ParametersAreToldInvariant` | `HostViewProofs` | `Spec => []ParametersAreTold` |
| `VisibleOnceStartedInvariant` | `HostViewProofs` | `Spec => []VisibleOnceStarted` |
| `TypeCorrect` | `KeypadProofs` | `Spec => []TypeOK` |
| `ReportIsRightInvariant` | `KeypadProofs` | `Spec => []ReportIsRight` |
| `WaitsOnlyForCodesInvariant` | `KeypadProofs` | `Spec => []WaitsOnlyForCodes` |
| `ArgsOutliveInvariant` | `BleDispatchProofs` | `TablesAgree`: `Spec => []ArgsOutlive` |
| `AnswerIsOwnInvariant` | `BleDispatchProofs` | `TablesAgree`: `Spec => []AnswerIsOwn` |
| `ImplementsRemoteCall` | `BleDispatchProofs` | `TablesAgree`, `ExecutionsAgree`: `Spec => IsRemoteCall`, a refinement |
| `BlocksHaveOneOwnerInvariant` | `BleDispatchProofs` | `ExtSpec => []BlocksHaveOneOwner` |
| `KeptAsAnsweredInvariant` | `BleDispatchProofs` | `ExtSpec => []KeptAsAnswered` |
| `OnlyTheseMisfreeInvariant` | `BleDispatchProofs` | `ExtSpec => []OnlyTheseMisfree` |
| `AnswersAreFreshInvariant` | `BleDispatchProofs` | `ExtSpec => []AnswersAreFresh` |

**The link.**  `OneTx` is inductive only together with where the receive task
stands.  `LinkInv` says that: `ActiveInv` (at which control points the UART is
open and `cmdActive` is set, and that `CMD_INIT` is only seen before the port
was ever opened), `PowerInv` (power constraints are on whenever the port is or is
about to be, off in the hold) and `RunInv` (`cmdState = CMD_RUN` is only seen by a
task on its way to or in that branch, which is why no other writer of `cmdState`
can make it serve a closed port).  `LinkInv` is inductive by itself.  Then
`OneTx`: a step either leaves all places alone (`TxStays`) or empties one and
fills another (`TxMoves`), and the place that is emptied was the only one
(`TxAlone`).  `WritesArePowered`, `RunServesHeldSleeps` and `CloseCutsNoWrite`
follow from both: whoever writes has the right, so the receive task has not, so
the port is active, so it is open and powered; at `suspendClose` the receive
task has it, so nobody writes.  `NeverDeaf` and `RingBeforeUse` have short
inductive invariants of their own on top.

**The ring buffer.**  `Inv` is `TypeOK /\ FieldsAgree`, inductive because every
push and pop recomputes `count` and one flag from the indices and sets the
other.  `ImplementsFifo` shows for a push and a pop, with head before or behind
tail, that `Contents` becomes `Append` or `Tail` of itself, slot by slot.
`ReadsOldest` says for every count what `Ringbuff_read` copies: the indices its
loop visits are those between `tail` and `head`, in the order of `Contents`.

**The channel.**  `FrontOK`, that the copy is the front of the buffer, holds
because the receive task only appends and only the command task deletes.  With
it a cut of the copy is a cut of what `LineStream` has pending: the first CR LF
that `strstr` finds in the copy, if no NUL hides it, is the first in the rest of
the buffer (`VisibleEnds`; that there is a first one is the lemma `Least`, from
the well-foundedness of the numbers).  `IdleHasNoLine` needs `WakeInv`: while
the task works on its copy with the semaphore at 0, the copy is the whole
buffer, because every append posts after it; what the round leaves in the
buffer is then what was searched without finding a line.  With `ImplementsFifo`
the path from byte to handler is proved.

The other half of `IdleIsReady` is about room, and needs to know what overflow
leaves behind.  As long as no byte was NUL, no allocation failed and no read was
wiped, `RoomInv` cuts the buffer into three pieces: what a delete left
of a copy, which has no end of a line; what followed that copy up to the place
where the buffer was full and bytes were dropped; and what came after, which
agrees with the host byte for byte until the buffer is full again.  In none of
them is a stretch without an end of a line longer than the longest line.  A task
that pends has seen no end in any, so each is at most one line long, and three
lines are less than the room.  The product has 127 bytes for lines of about 25;
the run's 7 for lines of 3 are below what the theorem asks for, and TLC shows
that they are still enough.

**The store.**  `TypeInv` types every variable.  `RangeInv`: once a save has passed
its checks, the working copy stays legal, as BLE writes bring legal values only
and no other task's setter runs before the save ends, and so is what is already
copied; the image is legal when flash takes it.  `OwedInv` gives `OkIsDurable`:
each cell of the working copy, of the image and of flash holds a value that is
`owed`, an OK's or a later one, wherever a save or a restore stands (`Owes`,
`FlashOwes`), and what a save in progress copies is `recent` (`SaveIsRecent`,
`CopyIsRecent`), so that its OK may drop the older ones.  `QuietInv`: with no
message under way and nothing `behind`, the lock is `Settled`: flash equals the
working copy, or the save in progress has copied nothing that has changed since.

**The response.**  `HeldIsWatched` needs nothing but types: a response is held
only when a notice was granted, and each step that ends the notice without
sending either empties `pAttRsp` or queues a message (or loses it).  The types
need the buffers' operators typed first (`FreeMsgType` to `freeAttRspType`).
`AwakeForMessages` follows from `AwakeInv`: the semaphore counts at least the
stack's messages at all times, because each comes with a post and each signal
taken takes at most one; and the task pends only with its own queue empty.
`BuffersAreAccountedFor` follows from `AccountInv`: a buffer is `live` exactly
if its response is queued or held, and it is queued at most once and not while
it is held (`QueueGrows`, `QueueShrinks` say what a queue's ends do to that).

**What the host knows.**  The properties mostly speak of quiet moments; the
invariants say what is still under way in all the others.  `PortInv` types the
queue for the port: who waits there, with which kinds of text, the command task
at most once.  `AnswerInv` puts every line the host has sent in exactly one of
five places (not handled, waiting for the port, being sent, answered, given up)
in such an order that none overtakes another (`Accounted`).  `ConnInv` and
`ParaInv` rest on one idea, `LastWord`: of the texts of one subject that are
being sent or wait, the last tells the present value, or the host knows it and no
such text is under way.  For the connection the message queue comes first: the
last state that waits there is the present one.  For a parameter the value may
also be owed by a report that is still to be written (`reports`, or an event in
the queue), and here lies the point about two tasks: a report reads the
value when it is formatted, not when it was queued, and whoever formats
last waits last.  `VisibleInv` keeps the start's message in the queue until
advertising is on.

**The key pad.**  `InputInv` ties `inputState` to the shape of `inputBuf`: which
keys, in which places, a buffer in that state holds, and that it is shorter than
`KP_MAX_INPUT`.  Each key keeps the shape or ends the input, which gives both
`ReportIsRight` and `WaitsOnlyForCodes`.

**Calls of the stack.**  `OwnInv`: a message, queued or being executed, and a status
with a number belong to the call their task is in, and there is one of each
number at most.  From it `ArgsOutlive` is one step.  `AnswerIsOwn` needs that no
match function accepts what is nobody's answer and that lengths agree:
`TablesAgree`, two facts about the tables, not about behaviour.  The theorems
assume it; TLC evaluates it for the functions and builds of `MCStackCall`.
`ImplementsRemoteCall` goes through the actions: a call is owed when its message
is sent, `now` while the dispatcher has it, answered when its status is in the
inbox, and returned by `waitMatchCS`.  What a task is told (`Told`) looks only at
messages with its call's number, so events change nothing, and `OwnInv` gives
that there is at most one such message, none before the call is finished.  The
theorem also assumes `ExecutionsAgree`: what the tables make of a command is the
function it was sent for, or a refusal.  Where that fails (the three functions of
section 7) the refinement fails.  That it holds for the functions and builds of
`MCStackCall` is part of what the run shows, since every execution occurs in it
and one that was something else would violate `IsRemoteCall`.

**The network processor.**  `HeapInv` says that either nobody has misfreed and
`ExtInv` holds, or one of the two commands has (`Misfreed`); of the heap after
that nothing is claimed, and a boot leads back to `ExtInit`.  `ExtInv` is one
conjunct per structure: types (`ExtTypeInv`), `Owners` (what
`BlocksHaveOneOwner` promises), `LostInv` (a write that waits has its value, or
its payload is one of those the code loses), and `AnsweredInv`, which adds to
`KeptAsAnswered` that a service the host knows to be unfinished is unfinished.
That a free is clean follows the other way round from what one expects: if
after the step every owner's block is allocated, then no owner points to what was
freed, since that is not (`FreesIsClean`).  So each action needs only its
owners after the step, which makes one lemma per action with state of its own
(`CleanStep` puts them together), and one for all commands that have one of the
fourteen shapes.  The allocator is no help: it may return any block that is not
allocated, and that such a block has no owner is what `Owners` says.

**The pin, and the whole.**  `SettledIsSeen` is inductive by itself.  Each step of
`MrdyLink` is a step of the link or leaves it alone, and a step of the pin or
leaves that alone (`LinkKeepsMrdy`: only the MRDY handler changes the level the
link knows), so both specifications are implemented and their theorems carry
over.

The proofs use the named assumptions on the constants (sizes are natural numbers,
`Writers` does not contain the names of the other places, `EarlyEdge` is
Boolean, the lines of `HostView` ask for parameters it has and numbers, what is
written over BLE is legal, `Key` has the star and the hash), which TLC evaluates in the runs, and the facts of section 2 that are
built into the actions.

**Only model-checked** are the liveness properties: `HostIsServed`,
`SuspendIsServed`, `WriterIsServed`, `LinesAreHandled`, `FlashCatchesUp`,
`PressIsAnswered`, `HeldIsReleased`, `AppGoesOn` and `CallReturns`.  They need
fairness, and so ENABLED, which is out of this prover's reach.  Every invariant,
action property and refinement of a passing run is a theorem.

## 7. Where the code and its documents disagree

Three runs end in a counterexample on purpose.

* **`nv_ble_reads`, `BleReadsCurrent`.**  `src/cc2640 note.txt:23` says that the
  parameters can be read over BLE.  `doorLock_ReadAttrCB` reads `para`
  (`doorlock/doorlockservice.c:365`), which only boot, a restore and BLE writes
  refresh: after a set command over the UART that was answered OK and is in
  flash, the phone reads the old value.
* **`nv_in_range`, `InRangeIsAccepted`.**  `CustNV_setPin` (`cust/cust_nv.c:196`)
  stores a PIN before it is known to be four digits.  The save refuses it and
  the answer is ERROR, but the PIN stays in `custParas`, so that every later
  save is refused too, although the number asked for is inside the range the
  format query announces (`cmd/cmd.c:73-94`), until a good PIN is set or the
  lock restarts.  Flash never takes the bad PIN (`FlashInRange`).
* **`blink_stops`, `BlinkGoesOn`.**  `gpio/gpio_out.c:255` computes milliseconds from a
  32-bit product that starts again from 0 after 71.6 minutes; `next` does not.  A
  step due after the wrap is never due again.  `src/cc2640 note.txt:45` reports
  that blinking stops for an unknown reason and line 49 excludes the handler.

Seen while modelling, with no run of their own, because no document claims the
contrary; the models behave like the code:

* `cmdState` is assigned by the task after it has looked at MRDY
  (`cmd/cmd.c:418`, `421`, `439`).  An edge reported in between is lost until the
  next one.  `HostIsServed` and `SuspendIsServed` name the states they start from
  for that reason.
* A post of `cmdSBSem` left from an earlier request makes the task pass the hold
  at `cmd/cmd.c:467` once; `cmdState` is still `CMD_SUSPEND`, so it comes back.
* A post of `cmdRxSem` left from an earlier release ends a wait early, and
  `cmdRxSize = 0` (`cmd/cmd.c:446`) may then wipe the count of a read that has
  ended meanwhile: its bytes are lost (`RxWipes`).
* A PIN that is written over BLE while another one is set or packed leaves digits
  of both (`cust/cust_nv.c:198`, `495-500`): 5555 of a set command and 1662 of the phone may
  become 1655, in flash or in the working copy too, with OK for an answer.  It
  stays until the PIN is set again; if only the image is torn, the save that the
  BLE write asks for mends it.  `OkIsDurable` therefore speaks of each digit.
* SRDY is asserted from boot (`gpio/gpio_out.c` drives it low, which is active) until
  the first suspend, and for a moment after the UART is closed.
* `ringbuff/ringbuff.h:29` calls `size` the maximal unit count; one slot always stays free.
* Numbers of set commands are cut to 8 bits before they are checked
  (`cmd/cmd.c:935` and its like): 260 is stored as 4 and answered OK.
* `CustNV_restore` joins `para_restore` and `osal_snv_write` with `|`
  (`cust/cust_nv.c:118`), whose operands C evaluates in either order.  In the
  unhelpful one the first boot writes an image of zeros and then fills it in RAM.
  `nv_saves` has both.
* A line cut by an overflow leaves a piece without CR LF.  With room for no more
  than two of the longest lines (`Capacity` = 6, `MaxLine` = 3) pieces can fill
  the buffer for good; a NUL byte does it at any size, since `strstr` stops
  there.
* `kp_KeyMap` does not know `KEY_8`; `*##` without digits is reported as a CMD code
  though `keypad/kp.c:102` shows six digits.
* A blink whose percentage times period is below 100 computes a wait of 0 ms, for
  which the clock is not restarted (`gpio/gpio_out.c:276`).
* A response held across a quick reconnection is sent to the new client
  (`MB2640A.c:741`): the handle is the same.
* A connection that ends by a supervision timeout is not reported to the host,
  which goes on believing that the phone is there until advertising restarts;
  `ConnIsTold` leaves that state out.
* A report of a parameter changed over BLE, `+X=...`, looks like the answer to a
  query of that parameter; the host cannot tell them apart.
* An order whose number is cut to 8 bits is answered with OK alone, so that the
  host does not learn what was stored; `ParametersAreTold` counts it as missed.
* `GATT_SignedWriteNoRsp` sends the command of an unsigned write
  (`ICallBleAPI.c:1709`), `GATT_DiscAllPrimaryServices` puts the number of its
  task where the dispatcher does not look for it (`ICallBleAPI.c:1488`, against the
  dispatcher at `bleDispatch.c:1300`), and the dispatcher does not pass the flags of
  `GATT_ReliableWrites` on (`bleDispatch.c:1409`).  These three need a GATT
  client, which the product's stack does not have; `stack_call` leaves them
  out, and with any of them `IsRemoteCall` is violated.
* A status that finds no memory leaves its caller waiting for ever
  (`bleDispatch.c:805`).
* In a network processor build, a payload that a call of the stack took is not
  freed, "payload passed to GATT" (`bleDispatch.c:2655` and others), but
  `GATT_RELIABLE_WRITES` frees its last one all the same (`bleDispatch.c:3562`), and
  the next command's allocation may return that block, of a prepared write say:
  two owners of one piece of memory.  And `L2CAP_DATA` gives an address inside a
  block of the buffer manager to the heap to free if the data cannot be sent
  (`bleDispatch.c:2374`), a prepared write without a value is never freed
  (`bleDispatch.c:2952`, `3009`), and a parameter of the bond manager that
  cannot be read is answered with the bytes of an earlier answer
  (`bleDispatch.c:4010`).  `OnlyTheseMisfree` shows that nothing but this send
  and `GATT_RELIABLE_WRITES` is ever first to free what is not its own,
  `BlocksHaveOneOwner` that until then nothing else is lost, and
  `AnswersAreFresh` that no other answer carries old bytes.
* The connection of prepared writes is not kept: they are executed on the
  connection of the execute command.  And if the last `GATT_ADD_ATTRIBUTE` of a
  service is refused, the host cannot tell whether the service is still being
  built; `KeptAsAnswered` counts it as not agreed.

## 8. What is not modelled, and why

* **Text**: the wording of commands and replies.  A line is what the code can tell
  of it, a reply the value it carries.
* **Advertising data, device name, registration of services, connection
  parameters** (`MB2640A.c`): set-up calls into the stack, with nothing of this
  code's state in them.
* **Read callbacks and client configuration** of the BLE service: they answer the
  stack and change nothing of this code.
* **`HostView`** leaves out the log lines of the receive task, and lines lost for
  want of memory (those are in `CmdChannel`); setting a parameter, the PIN too,
  and a save are one step each there (`CustNV` has them in pieces).
* **`StackCall`** has two callers.  The GAP role's task calls the stack through the
  same functions and its own inbox; it is one more of the same kind and not
  counted.  Left out are callers that are not registered with ICall.  A call
  whose message finds no memory returns at once and is no step.
* **`ExtMsg`** leaves out keys, addresses, values and the counter of signatures,
  `TESTMODES` and `OSALMEM_METRICS`, which no project defines, and the events such a
  build sends to its host (`processEvents` and its like): each turns a structure into bytes.
  Identifiers of services are assumed to be in the stack's table.  What happens
  to memory after a misfree is anybody's guess: the model goes on with one
  possibility, of which nothing is claimed; the allocator may then hand out what
  the stack still uses, as it may in the code.
* **`src/Source/NPI`**: not in the IAR project; `main` does not start it,
  `NPITL_createTask` is never called, and the options it is delivered with do
  not fit together.
* **`MB2640A_util.c`**: a CRC and address formatting, pure functions of bytes.
* **`src/CCS`, `src/IAR`, board files, the OSAL task table**: generated, vendor
  libraries, or tables.
* **Non-`POWER_SAVING` builds**, in which MRDY and the hold do not exist, and
  `CMD_DEINIT`, which nothing sets.
* **A failing read of flash at boot** (`cust/cust_nv.c:90`), which the code cannot
  tell from flash never written.

## 9. Plan

The order was: the link first, because everything shares the UART and three kinds
of actors share its state; the ring buffer and the channel on it, which carry
the commands; the store, where power cuts matter; then the response, the key
pad, the pins; then what the host comes to know, which joins channel, store and
connection; and at last the calls of the stack.  All of those are in place, and
each of their safety properties is proved.  What is left, in this order:

1. **Liveness, in part.**  `LinesAreHandled` and its like stay with TLC; the safety
   half of each (the step that is due is possible) can be stated without
   ENABLED and proved.
2. **Tables.**  `TablesAgree` and `ExecutionsAgree` are assumed by the theorems
   and evaluated on an instance; both could follow from the tables themselves.
3. **Output pins.**  A passing run of `GpioOut` within one wrap of time, and its
   invariant: whoever blinks has a clock running.
