# Water Minilab IO: a TLA+ verification project

The repository is the firmware of a PIC32MZ controller that moves the motors,
valves and sensors of a small laboratory for a host computer. It is C++ on
ThreadX and its POSIX layer. The host and the device call each other's commands
with *earpc*, a remote call protocol over packets, which travel framed over SPI1
with the device as the slave. The repository has no tests and no
documentation besides comments; everything here is read from the source.

Paths below are relative to `WaterMinilabIO.X/` unless they start with `src/`.
`plib_*` are in `src/src/config/default/peripheral`, `px_*` and `tx_*` in
`src/src/third_party/rtos/threadx`.

## 1. Inventory

### 1.1 Components

| Component | State | Operations | Correct when | Modelled in |
|---|---|---|---|---|
| earpc tables and calls (`earpc/earpc.h`, `earpc/buffer`, `earpc/types`) | outgoing calls (newest first, each parked or active, with expiry and callback), incoming calls, commands | `call`, `respond`, `cancel`, `reroute`, `set_command`; a call that ends resumes a parked one | one call is active at a time, none is parked without one; ids are unique; each callback runs once | `Earpc`, `EarpcLink`, `EarpcThreads` |
| earpc receive thread (`process/recv.h`) | a packet in hand | `process_return/call/ack/nak/exception` | a copy of a call is not served again; a return completes the call it names | `Earpc`, `EarpcThreads` |
| earpc expiry thread (`process/expiry.h`) | sleeps until the next expiry | ends active outgoing calls and incoming records | every active call ends, in time; parked calls are left alone | `Earpc`, `EarpcExpiry`, `EarpcThreads` |
| earpc send thread (`process/send.h`) | queue of packets with resend time; `notified` | `notify`, `remove`, resending every 40 ms | a packet is resent until it is answered, and no longer | `Earpc`, `EarpcThreads` |
| earpc feedback thread (`process/feedback.h`) | queue of acks and naks | `notify`, sending once | nothing stays queued | `Earpc`, `EarpcThreads` |
| earpc callback pool (`process/callback.h`, `sched/`) | buffer of bound callbacks, 4 workers, a relay each | `notify`, `exec`, `suspend` | every job is taken once, by some worker | `CallbackPool`, `Earpc` |
| host packet layer (`io/host/spi_pkt_slave.hh`) | two deques of 4 packets, five semaphores | `send`, `recv`, two threads | packets are framed, keep their order, wake who waits | `PacketWriter`, `PacketReader` |
| SPI1 slave driver (`io/spi.c`) | receive ring, transmit buffer, request line | `SPI1_Read`, `SPI1_Write`, three interrupt handlers | bytes keep their order, filler stays out of packets, the host is told | `Spi1Receive`, `Spi1Transmit` |
| ThreadX semaphores, mutexes and condition variables | units, owner, waiters | get, put, ceiling put; lock, wait, timed wait, signal | | `TxSemaphore`, `PxSync` |
| stepper axes (`dev/stepper.cc`, `WML.cc`) | position, target, `homing`, `pending`, `departed` | `setTargetIndex`, `home`, `setFreewheel`, `resetPosition`, the control thread | every move is reported once, and ends | `Stepper`, `CallbackPool` |
| TMC2209 driver (`drivers/TMC2209`, `drivers/uart.hh`) | a mutex per port | write and read datagrams | datagrams are not torn, a reply is read whole | `Uart` |
| bus peripherals (`plib_i2c1_master.c`, `plib_spi2_master.c`, `plib_uart1.c`) | state machines and rings shared with interrupts | blocking `Read`, `Write`, `WriteRead`, `Flush` | a transfer that is over wakes its caller, and only it, and tells it the truth | `I2cMaster`, `SpiMaster`, `Uart` |
| command table (`init.cc`) | none | some thirty handlers | each responds once | the axis commands, in `Stepper` and `CallbackPool` |
| host service (`io/host/service.*`) | none | `log`: a call and a wait for its callback | the wait ends | (section 6) |
| I2C multiplexer and its sensors, encoders (`drivers/PCA9546*`, `A31301*`, `VNCL4040*`, `encoder*`) | lines selected, setup done; pins seen last, position | readings; interrupt handler | a reading is of the sensor asked; a position does not drift | `I2cSensors`, `Encoder` |
| servos, valves, PWM, DC motors; other device drivers on SPI and I2C | angle ramp; registers, bus mutexes | `setAngle` etc. | transactions do not mix | (section 6) |
| serializer, checksum, types, memory, ThreadX, Harmony start-up | | | | (section 6) |

### 1.2 How they interact

A caller (`service::log`, a stepper thread) makes a call: a record enters the
outgoing table and, if no other call is active, the send queue. The send thread
gives the packet to `hostio_raw::send`, which waits for room, and
`write_process` frames it for SPI1. The other way, `read_process` finds packets
in the bytes of SPI1; the receive thread takes them with `recv` and changes the
tables and queues. Callbacks of finished calls and command handlers run in the
pool. A handler calls a device and then `respond`, which queues a return to be
resent until the host acknowledges it. Tables and queues have a lock each;
no thread holds the receive path's packet while it waits for a callback.

A command for an axis locks the axis, sets its target and notifies its control
thread, which drives the motor through a TMC2209 on a UART that it shares with
other axes, and reports the end of a move by a call to the host, waiting in
`stepper_finish_callback` until a pool worker has run the callback.

### 1.3 What is hard

- Four threads can end a call (receive, expiry, a canceller, and the receive
  thread again by a nak), and each has to resume a parked one.
- Locks are given back between looking and acting (`process_return`,
  `process_nak`, `process_call`, `respond`, the expiry thread).
- Packets are repeated by design and may be lost; calls expire while copies and
  answers are under way; records of served calls are erased.
- Wakeups: semaphores with a ceiling of one, notifies before the data is there,
  condition variables without a predicate, a relay that may be notified twice.
- A timed wait of this POSIX layer returns *without* the mutex when it times
  out; its callers go on as if they held it.
- Room is counted apart from the queue it guards.
- Waiting for a callback while holding a lock that the pool's workers want.
- Drivers share rings, counts and enable bits with their interrupt handlers.

`PROJECT.json` lists the hazards at their lines, with the properties that cover
them or the reason why none does.

### 1.4 Scheduling, and what it means for the grain of the actions

All application threads (POSIX, `SCHED_FIFO`) have one priority and no time
slice, so between them a switch happens only where a thread blocks. The two
threads of the packet layer have a higher priority and are woken by interrupts,
so they may run anywhere. Accordingly:

- `Earpc` lets threads interleave wherever a lock is given back, which is more
  than this build does. `do_call` is one action although it uses two locks:
  whoever could see the new call before its packet is queued would have to be
  scheduled in between, and no call between the two blocks while the send
  queue's lock is free. If the send thread holds that lock (it waits for room),
  a thread that ends the call waits for it as well, behind the caller.
- `EarpcThreads` has the processor as a variable (`cpu`): a thread keeps it
  until it sleeps, waits for a taken lock or for the transport. This is exact
  for this build and is needed where a property depends on what can *not* be
  preempted.
- `Stepper` and `CallbackPool`: an action is what a thread does up to the next
  call that may block.
- Packet layer and drivers: an action is what a thread does from one semaphore
  call, or one change of an interrupt enable bit, to the next; an interrupt
  handler is one action, or one per byte where the peripheral goes on meanwhile.

## 2. Plan, and what came of it

The order was: the protocol first (tables, then two endpoints on a lossy link),
then what carries it (packet layer, SPI1), then what it takes for granted (its
threads' sleeps, the pool), then the axes, then the buses and the sensors that
the axes rely on. All of it is done, except that servos and the drivers of
single devices were left out (section 6).
A detailed module is shown to implement an abstract one in three places, each
checked and proved: `Earpc` implements `CallService`, `PacketWriter` implements
`PacketQueue`, `Spi1Receive` implements `ByteQueue`.

## 3. The modules

| Module | Models | Extends / instantiates |
|---|---|---|
| `CallService` | abstract: calls are made, at most one is under way, ended calls are reported once | |
| `Earpc` | tables, receive, expiry, send and feedback threads, pool of one endpoint | `CallService` (refinement) |
| `EarpcLink` | device and host, two FIFO links that lose packets | `Earpc` twice |
| `EarpcExpiry` | `Earpc` with an expiry thread that may miss a notify | `Earpc` |
| `EarpcThreads` | how earpc's threads lock, sleep and wake, with a clock | `PxSync` |
| `CallbackPool` | workers, their relays, and the report of an axis against its commands | |
| `TxSemaphore` | ThreadX semaphores as values | |
| `PxSync` | mutexes and condition variables of the POSIX layer as values | |
| `PacketQueue`, `ByteQueue` | abstract: bounded queues of packets, of bytes | |
| `PacketWriter` | `send()` and `write_process` | `TxSemaphore`, `PacketQueue` (refinement) |
| `PacketReader` | `read_process` and `recv()` | `TxSemaphore` |
| `Spi1Receive` | the receive ring, `SPI1_Read`, the receive handler | `ByteQueue` (refinement) |
| `Spi1Transmit` | `SPI1_Write`, transmit and chip-select handlers, request line | |
| `Stepper` | an axis: control thread, motor, commands | `PxSync` |
| `I2cMaster`, `SpiMaster` | blocking transfers against their interrupt handlers | |
| `Uart` | `UART1_Write/Flush/Read`, handlers, TMC2209 datagrams | `PxSync` |
| `I2cSensors` | the multiplexer, limit and proximity sensors over transfers that fail | `PxSync` |
| `Encoder` | pins of a quadrature encoder, its handler, its position | |
| `MC...` | instances for TLC | the modules named |
| `DriversInvariant` | the inductive invariant of the bus drivers | `MCDrivers` |
| `EarpcWay` | the inductive invariant of the link, and that the calls of one endpoint keep it | `EarpcLink`, `EarpcProofs` |
| `...Proofs` | theorems about the modules named | the modules, TLAPS |

`MCThreads`, `MCSpi1` and `MCDrivers` check components that share no state in
one run: a variable (`part`, `half`, `driver`) that `Init` chooses says whose
behaviour it is, and the variables of the others stand still. Nothing is lost
by that, and nothing is said about an interaction, of which there is none
(`EarpcThreads` and `CallbackPool` meet in the job buffer only, whose notify is
never lost by `Awake`).

### 3.1 Earpc

| Variable | In the code |
|---|---|
| `stage[k]`, `request[k]` | the record of the k-th call in `buf_outgoing_call` (`parked`, header and argument); `push` puts new ones in front, so higher k comes first |
| `inc[c]` | `buf_incoming_call`, by id |
| `sendq`, `fbq`, `jobs` | the queues of `proc_send`, `proc_feedback`, `proc_callback` |
| `running[w]` | what a pool worker executes |
| `rpc`, `rpkt` | the receive thread between two locks, and its packet |
| `told`, `named` | history |

| Action | Code |
|---|---|
| `DoCall` | `do_call`, `generate_call_id` |
| `Cancel`, `ExpireOutgoing`, `ExpireIncoming` | `cancel`, the two scans of `proc_expiry::start` |
| `RecvAnswer`, then `ProcessReturn`, `ProcessAck`, `ProcessNak`, `ProcessNakOutgoing` | `process`, and the handlers, which first call `proc_send::remove` |
| `RecvCall`, `ProcessCallCheck`, `ProcessCallPush` | the three parts of `process_call` |
| `RecvException` | an exception is only acknowledged |
| `Take`, `Report`, `Respond` | `proc_callback::exec`, a finished call's callback, a handler's `respond` |
| `Send`, `SendFeedback` | the send and feedback threads |

Every way to end a call goes through `Finish`, which holds
`outgoing_call_finished` and the queueing of the callback, as every handler does.

Abstractions. The link has one peer and the transport reports address 0, so the
branches for a changed address (and `reroute`) are dead. Time is left out: a
record may expire, and a packet may be resent, at any moment. Payloads are
members of a set, `Sized` being those of the expected length. Packets with a
bad header checksum are dropped before they have an effect. A handler responds
once, as all in `init.cc` do. `call()` with an argument that does not serialize
makes no call and is left out.

The peer is open: in `Next` any packet may come at any time, so what is shown of
an endpoint does not rest on the host's software.

`EarpcExpiry` adds to `Earpc` whether the expiry thread has seen the active
call. A call that is made or resumed notifies it; where the notify comes between
its look at the table and its sleep nothing is left of it (`Notified`, which
`EarpcThreads` shows to happen), and the thread sees the call at its next look,
if one comes (`Look`). Until then it does not end that call (`Expires`).

### 3.2 EarpcLink

Two instances of `Earpc`. The device side is the firmware; the host side is
outside the repository and is taken to run the same library. Links keep the
order, lose packets anywhere, and differ as the packet layer does: the device
waits for room to send, what comes to it pushes out the oldest packet. Ids are
not drawn twice (`Fresh`): the code draws them at random from 2^16 and excludes
only those on its own tables, so this is an assumption of the protocol.

### 3.3 EarpcThreads

What `Earpc` takes for granted when it says that calls expire and queues are
drained. The locks of both tables and both queues, the condition variables, the
flag `notified`, the processor, and a clock of which every call has `Timeout`
ticks. The send and feedback threads hold the lock of their queue while they
wait for the transport; the expiry thread takes four locks in turn and looks at
each table once before it sleeps. `missed` is history: a notify came between
its look at the outgoing table and its sleep.

Left out: a second peer; what an incoming call is about; cancelling; the
returns that workers queue, which they do as callers do their calls; one wait
for the transport stands for those of all packets of one round. The peer only
answers what was sent.

### 3.4 CallbackPool

Buffer, worker states and relay flags. `Notified` is `notify`'s walk of the
worker list: it wakes the first *suspended* worker, which may be one that was
notified before and has not run, so two jobs in a row may go to one worker. Jobs
are `quick`, a `command` of an axis, which locks it, or `finish`, the callback
that the axis' control thread waits for while it may hold that same lock.
`Outstanding` is how many commands of one axis the host has open; the code sets
no bound to them. `Stuck` says that the pool has nothing more to do by itself
while commands wait for that lock.

### 3.5 The packet layer

`PacketWriter` and `PacketReader` share nothing and are separate modules. Their
variables have the names of the code's semaphores and deques; an action is what
a thread does from one semaphore call to the next. `TxSemaphore` follows the
vendored kernel: a put hands its unit to the first suspended thread, and the
ceiling is looked at only when nobody is suspended. That differs from a plain
counter: a put, a wakeup and a second put leave a unit behind.

`tWrite` may write less than it was given, which the class handles;
`SPI1_Write` never does. Room is for packets of up to 253 bytes; `send` refuses
larger ones, which are left out. In `PacketReader` bytes are small numbers
with a start and a stop byte among them, so that packets can hold either and a
size can look like either. Filler is anything but the start byte.

### 3.6 SPI1

`Spi1Receive`: the ring, its two indices, where `SPI1_Read` is and how many bytes
it has still to copy, and the semaphore by which the handler ends its wait. Bytes come to the fifo, the handler drains it, a byte that finds
the ring full is lost. `Spi1Transmit`: the pointer, size and index that
`SPI1_Write` shares with the transmit handler, the fifo that is topped up with
filler between packets, and the request line. The host is open: it selects,
clocks and deselects as it likes.

### 3.7 Stepper

The members of `stepper` under their names; `motor`, `origin`, `drive`, `count`
stand for the motor, its zero, the speed of the driver chip and the index
counter. An axis has an encoder or counts index pulses, and has a limit sensor
or not (`fitted`). `PxSync` gives a timed wait its true outcome: after a timeout
the control thread goes on without `lk`. Its later `wait`, which unlocks what it
does not own, is as the vendored code does it. Speeds are -1, 0, 1; times are
left out, so a wait with a deadline may end at any moment, and a motor with an
encoder may pass its target, and come to the end of its range, before the
control thread looks.

Datagrams for the driver chip leave in the order in which the threads called
(`bus`: the mutex of the port is first come, first served), with the speed as it
was then (`sending`). `setFreewheel(false)` is `SetFreewheel`, `Halted` and
`Enabled`, all under `lk`; `setFreewheel(true)` is `Release` and `Released`,
without it: the pin of the driver is set at once, and the motor does not turn
before it is enabled. Setting the greatest speed and acceleration is left out
with the speeds.

### 3.8 Drivers

`I2cMaster`: the transfer state machine step by step with refused bytes and bus
collisions, two callers under the mutex, the notify semaphore. `SpiMaster`:
write-read of every relation of sizes, counts shared with both handlers, fifo
levels at which the transmit interrupt comes. `Uart`: the transmit ring with its
two semaphores, the handler byte by byte, and the drivers that share the mutex
of a port. The line is one wire: every byte sent is heard, and the reader has to
take the echoes of its request off the receive ring before the reply. A driver
sleeps 1 ms before each write and each byte read, in which the fifo empties (the
guard `fifo = <<>>` of those actions). `UART1_Read` compares copies of the
indices taken at its start, so a read of an empty ring never returns ("lost").

Only constructors read, one after another and after they have written some
fourteen registers (`Before`). The parts that `plib_i2c2`, `plib_spi5`,
`plib_spi6` and `plib_uart2` to `plib_uart6` repeat with other register names
are mapped once.

`I2cSensors` stands on the bus drivers: an action is one transfer, which may
fail, after which whoever it was for may have taken it or not. The limit sensors
have the same address on lines of their own; a line that stays selected is what
`PCA9546::initialized` is for. It is not set by the constructor, so the model
starts with either value, with any lines selected, as the program that ran
before left them. A proximity sensor loses its setup only where a transfer to it
fails. A reading of it takes the lock of the sensor and then that of the
multiplexer, always in this order.

`Encoder` has the shaft in quarters of a period of its pins. Of the two pins one
interrupts, at either edge, and the handler runs before the next quarter. All
encoders are built with `direction` 1.

## 4. What is checked

Ten runs finish with no error and two show what the code does against what one
of its messages says. Every property has a mutant, a plausible bug in a mapped
definition with which TLC finds it violated. The mutants stand beside the
definitions they change.

| Run | Bounds | Shows |
|---|---|---|
| `earpc_calls` | 3 calls, 3 ids, 1 worker, 1 payload | `TypeOK`, `OneAtATime`, `UniqueIds`, `Resent`, `ParkedEnds` |
| `earpc_live` | 2 calls, 2 ids, 1 worker, a good and a bad payload, notifies that may be missed, fair | `ToldOnce`, refinement `ServesCallers`, `Completes` |
| `link` | 2 calls of the host, 1 of the device, 2 ids, link of 1, an early expiry | `AtMostOnce`, `Genuine`, `NothingRejected` |
| `link_settles` | 2 calls, of one endpoint or one of each, or 1 call with an early expiry; link of 1, fair | `Settles` |
| `writer` | 3 senders, room for 2, 4 sends, at most 1 short write, fair | `Exclusive`, `RoomKept`, refinement `KeepsOrder`, `AllWritten` |
| `reader` | 4 frames, 1 filler, 1 lost byte, deque of 2, fair | `Framed`, `Latest`, `Drains`, `Accepts` |
| `stepper` | range of 7 positions, all fittings, 2 workers, 2 commands of any of five kinds, fair | `ReportOnce`, `Ends`, `Comes`, `Served` |
| `stepper_arrived` | 5 positions, 2 target commands | `Arrived` is violated (4.2) |
| `threads` | 4 workers, 4 commands, 4 jobs; 1 caller, 2 ids, calls of 1 tick, 1 incoming call, fair | `Awake`, `Told`, `QueuesWake`, `InTime`, `Yields`; no deadlock but that of `Told` |
| `threads_missed` | the second half of the same | `NothingToDo` is violated (4.2) |
| `spi1` | ring of 3, reads of 1 to 3, 6 bytes; fifo of 2, 3 writes of 1, 2 or 4 bytes, fair | `Intact`, `NotAsleep`, refinement `IsQueue`, `TxWhole`, `TxAnnounced`, `TxReturns` |
| `drivers` | I2C: 2 callers, 0 to 2 bytes out, 0 to 3 in; SPI: 0 to 4 bytes each way, fifo of 2; UART: 2 drivers, ring of 3, fifo of 2, datagrams of 2 and 5, request and reply of 3; 2 threads that read, 3 lines, a setup of 3 transfers; a shaft of 19 places; fair | `Truthful`, `OneNotice`, `ReadsTrue`, `UartWhole`, `AllReturn`; no deadlock |

### 4.1 The bounds

Three calls are needed to have two parked ones and a choice of which to resume;
three ids let all be on the table at once, and an id be used again after a call
has ended. `MaxQueue` only keeps the open peer from filling queues: a packet is
not taken while the feedback or job queue is at the bound, and calls are not
while the send queue is longer; the threads themselves are not bound by it. On
the link, a packet under way and one in the receiver's hand make room for a late
copy. `Lapses` bounds the early expiries, each of which lets a call be served
again. In `link_settles` there are two calls in all, which the endpoints share as
they like: both of one, so that one is parked and resumed, or one of each, so
that calls, returns and their signals cross. A record expires early only where
one call is made in all (`AloneLapses`); both together are not covered. Ids are
drawn in order there, as they are used once and all alike.

The writer has more senders than room and more packets than both. Its short
write stands for what the class allows; `SPI1_Write` always writes all, so the
mutants of `writer` are on the way without one. The reader's deque overflows with
three frames, and a fourth shows what comes after.

In `threads` the pool is as large as the code's, and as many commands of an axis
may be open as there are workers, so that they can all wait for the lock that a
report holds, with nobody left to run its callback: the code deadlocks there.
`Told` says that this is what it takes. A report that the host has answered ends,
or the pool is `Stuck`; if jobs keep coming, it ends unless every worker is
blocked. The first may come with fewer commands: where two notifies went to one
worker and that worker blocked on the axis' lock, the callback that ends the
report lies in the buffer until the next notify wakes another. In the code the
report's call still expires, but its callback needs a worker as well. In
`Stopped` the pool stands still, so that the deadlock check of the run goes on
to exclude every other standstill. A call of one tick and a clock that runs while
threads wait is enough for every order of expiry, answer and notify.

Rings and fifos are smaller than the transfers, so that every one of them fills,
wraps and empties; in SPI1 and UART the sizes include less than, exactly and
more than a fifo. Where a request and a fifo of UART stand in a special relation
this is said: `UART1_Flush` is put only where the handler finds the ring empty
*and* room in the fifo, so after a write whose last bytes exactly fill the fifo
a flush that waits is never woken. The code's requests of 4 bytes do not meet
that case, as their fifo of 8 is empty after the sleep; those of the run, of 3
bytes, do not as they are larger than its fifo of 2. So `AllReturn` says nothing
about a write that exactly fills the fifo. `Before` has to
be 2 or more: the flush does not wait for the fifo, although the comment at its
calls says so (`drivers/TMC2209/TMC2209.cpp:768`, `785`), and with a receive
ring that is empty at the start of a request, echoes of an earlier datagram are
taken for those of the request, and echoes of the request for the reply. What
saves the constructor is that the echoes left over from its earlier writes make
it spend milliseconds clearing the ring. Datagrams are numbered modulo 2: one is
under way while another waits for the mutex, so a swapped or lost one shows.

The encoder's range is more than two periods of its pins to either side. A
reading over the multiplexer passes no point twice, so that it ends unless it
waits for a lock for ever, which the deadlock check excludes.

Symmetry is used for ids in the two safety runs of `Earpc` and `EarpcLink` only.
`CHECK_DEADLOCK FALSE` stands where calls, frames, bytes, writes or commands are
bounded: when all are done the system rightly stops. `threads` and `drivers` go
on for ever and have the check.

### 4.2 What two runs disagree with

- `stepper_arrived`. The control thread reports a move where its log says
  "Arrived at position" (`dev/stepper.cc:285`). After a timed wait it does not
  hold `lk`, a command that comes while the motor is being stopped sets a new
  target, and `departed` still belongs to the move before: the new move is
  reported at once and its own end is not.
- `threads_missed`. The expiry thread says "nothing to do" and waits without a
  deadline (`process/expiry.h:116`). Between its look at the outgoing table and
  the wait it takes the locks of the incoming table and of the send queue, which
  may be held across the transport; a call made then has notified it already.
  The call is active, and expires only if a later call notifies. `InTime` says
  that this window is the only way to sleep past an expiry.

### 4.3 Fairness

`EarpcExpiry`: workers run; a handler responds; the receive thread goes on with a
packet in hand; the feedback thread and the expiry of incoming records go on; a
call that the expiry thread can see again and again is ended. The scheduler is
cooperative with equal priorities and no thread here spins (`Yields`). That the
expiry thread is woken is not assumed: `Completes` excepts the behaviours in
which it sleeps for ever over a call that it missed. As a thread that waits for
the send queue waits for the transport with it, the peer is assumed to take what
is sent; it need not answer anything.

`EarpcLink`: threads go on, packets in the queues are sent by kind again and
again, as they are repeated every 40 ms, and what came is heard. The link may
lose any number of packets and in the end loses none. (Strong fairness of what is
sent and heard, with losses that go on, would allow that the same packet is lost
every time.) The device's sending is strongly fair because it waits for room.
Nothing is assumed of the expiry of either side; so `Settles` excepts a call
whose record was forgotten by the other side, which only its own expiry ends.

`EarpcThreads`: strong fairness of the expiry thread and of the clock, which
others may overtake but not stop. `CallbackPool`: workers run, and that is all;
whether the host goes on to make calls is a premise of the second half of `Told`.

`PacketWriter`, `PacketReader`: the threads run. `AllWritten` does not need
fairness of the room semaphore: its list of waiters is first come, first served.

`Spi1Receive`, `Spi1Transmit`: handlers and threads run, and the host polls:
it selects again and again and clocks while it has selected. `TxReturns` rests
on that, as a write whose last bytes fill the fifo returns only when the host
reads.

`Stepper`: threads run and the motor turns while it is driven and its driver is
on. That a report ends is not assumed, as it takes a worker of the pool
(`Told`): `Served` excepts a report that keeps `lk` for ever, `Ends` and `Comes`
have as a premise that each report is over in the end. Both are about an axis
with an encoder, a driver that is on and a target within reach, and leave out a
homing that goes on, which may swing about the zero for ever. `Comes` says that
the motor comes to the target, perhaps to pass it; `Ends` has the premise that
it does not go on passing it between two looks. TLC finds each of these premises
to be needed. An axis that
counts index pulses and is told to move by one from standstill never starts
(`dev/stepper.cc:245`: it waits near the target before a speed is ever sent).

Drivers: handlers are taken, units of the peripheral go on, the callers run. In
`Uart` threads run with strong fairness, because a thread is disabled whenever
an interrupt is outstanding.

## 5. What is proved

Every safety property and every refinement that a run of section 4 finds to
hold is also a theorem, for every value of the constants under the named
assumption of the module (`EarpcAssumption`, `LinkAssumption`,
`EarpcThreadsAssumption` and so on: sizes are naturals, threads are different
ones). TLC evaluates each assumption on its run.

| Module | Theorems | Inductive invariant |
|---|---|---|
| `EarpcProofs` | `TypeCorrect`, `OneAtATimeHolds`, `UniqueIdsHold`, `ResentHolds`, `ParkedEndsHolds`, `ToldOnceHolds`, `EarpcServesCallers` | `TypeOK`, `OneAtATime`, `UniqueIds`, `Resent`, `NamedKnown`; for the last two theorems `TypeOK`, `ToldOnce` |
| `EarpcWay`, `EarpcLinkProofs` | `Ways`, `ServedOnce`, `AnswersGenuine`, `NoneRejected` | `LinkType`, `WayD`, `WayH`, the ids of the endpoints are disjoint |
| `ThreadsProofs` | `AwakeHolds`, `QueuesWakeHolds`, `InTimeHolds`, `ReportOnceHolds` | `Typed`, `Lined`, `Awake`; `Woke`; `ExpiryInv`; `Counted` |
| `PacketWriterProofs` | `ExclusiveHolds`, `RoomKeptHolds`, `NotAsleepHolds`, `WriterKeepsOrder` | `TypeOK`, `Places`, `Hands`, `Lines`, `Lock`, `Announced`, `RoomKept` |
| `PacketReaderProofs` | `LatestHolds`, `NotAsleepHolds`, `FramedHolds` | `Typed`, `InHand`, `Newest`, `Telling`, `ToldOf`; for the last one `Framing` as well |
| `Spi1Proofs` | `IntactHolds`, `NotAsleepHolds`, `ReceivesAsQueue`, `TxWholeHolds`, `TxAnnouncedHolds` | `TypeOK`, `Lacks`, `Intact`, `NotAsleep`; `TxTyped`, `TxTurns`, `TxLinked`, `TxAnnounced` |
| `DriversProofs` | `TypeCorrect`, `OneNoticeHolds`, `TruthfulHolds`, `ReadsTrueHolds`, `UartWholeHolds` | `DriversInv`: one part for each driver, in `DriversInvariant` |

### 5.1 How they go

*Earpc.* None of `OneAtATime`, `UniqueIds` and `Resent` stands alone. When a
call ends, a removal by id takes the first packet with that id off the send
queue; that it is not another active call's needs `UniqueIds`, that the resumed
call's packet is put there needs `OneAtATime`. `NamedKnown` says that the calls
counted as named are on the table and that the packet in the receive thread's
hand has named the calls with its id: without it, `Resent` would break between
`RecvAnswer`, which removes the packet, and the handler that ends the call. Each
action has a step, and the actions that end a call share the lemmas `FinishType`
and `FinishSafe`. Lemmas about sequences (`LeastElement`, `RemoveAtKeeps`,
`UnqueueKeeps`, `UnqueueQueued`, `AppendQueued`) say what removing the first
packet of an id does. The refinement maps `parked`, `active` and `done` to
waiting, under way and ended; each action that ends a call is an `End`, `Report`
is a `Tell` (which needs `ToldOnce`), `DoCall` is a `Make`, and all others
stutter.

*The link.* `WayD` says what becomes of the calls of one endpoint, wherever they
are: on its table and send queue, on the link, in the peer's hand, on the peer's
table, in the peer's pool, and all the way back as returns and signals. The three
properties need three facts of it. `Returned` carries a handler's response back,
so that an answer is genuine (`AnswersGenuine`). `Signalled` says that a nak is
about a call that is over, so that none rejects a call (`NoneRejected`).
`ServedOnce` is the hard one: a record of a served call may be erased, after
which a copy of that call would be served again. It is erased by a signal that
the call is over, and `Ordered` and `Closing` say that no copy follows that
signal, on the link or in hand, because the links keep the order and `Once` says
that nothing of a call stays on the send queue when the call is over. That is
why an expired record (`lapsed`) is left out of `AtMostOnce`. What is
proved is that the device's calls keep `WayD` in every step of either endpoint
(`EarpcWay`); the same for the host's comes from an instance of `EarpcWay` with
the endpoints exchanged (`Swap`). For that the steps of the link have to look
alike from either end, so `Steps` relaxes `Next`: either link may drop its
oldest packet. That ids are drawn fresh is the assumption of the model.

*Threads.* `ExpiryInv` has the difficulty of `InTime`: the expiry thread
looks at the outgoing table, then at the incoming one, then at the send queue,
and sleeps until the deadline it found. From its first look on, that deadline
is not after the end of any active call (`OutAfter`) unless a notify is on its
way or was missed, although callers and the receive thread change the table
meanwhile. `Woke` is the same for the send and feedback threads, whose lock
covers the look and the sleep. `Lined` says that every blocked worker is in line
for the axis' lock, which is what `Awake` needs. `Counted` is that `pending`
means fewer reports than accepted moves, which survives every interleaving that
the lost lock allows.

*Packet layer.* The difficulty of the writer is the semaphores. `Lines` says who
may stand in which line, without repetition; `Lock` that the thread that holds
the deque's lock, or the unit that lies there, is one; `Announced` that for a
packet on the deque the writer is on its way, or a unit lies for it, or a sender
is about to put one. `RoomKept` counts units, threads with a unit in hand and
packets, so the proof has lemmas on cardinalities of the set of threads with
room. The reader's `Newest` says that the deque holds the last of the packets
put there, `InHand` which packet comes next, and `ToldOf` that a unit lies for
`recv()` before it waits for a packet that is there.

`FramedHolds` needs to know how the bytes on the wire are to be read. `Framing`
says that there is a way to place the frames of all packets that were sent and
not accepted: each lies whole where it is placed, they lie one behind the other,
every start byte is inside of one (`Spread`), and `read_process` stands before,
or one or two bytes into, the first of them (`Heads`). So the start byte it
finds next is not one that a packet contains, and the size byte behind it is a
size. The host's step places a frame more, a byte read moves all places, and a
packet accepted takes the first away; the proof goes over the places as an
unknown function, and no recursion over the bytes is needed.

*SPI1.* `Intact` relates ring indices, which wrap, to the sequence of bytes
received and not read; a part of the proof are lemmas on remainders. `Lacks`
says that `SPI1_Read` has something left to copy as long as it goes on; without
it a copy could be of nothing and a wait could not be ended by the next byte.
On the other half, `TxTurns` says whose turn the buffer is (`SPI1_Write`'s or the
handler's) and `TxLinked` that what was clocked out last, the fifo and what the
buffer still has are one line of bytes in which each follows the one before.
`TransmitAssumption` asks for a fifo of more than one byte; the chip's has 16.

*Drivers.* The parts of `DriversInv` do not touch each other: each driver leaves
the variables of the others alone. I2C: `Asked`, `Took` and `Gave` say for each
state of the transfer what the bus may be doing and how many bytes it has moved,
`EndsWell` that a transfer without an error has moved them all, and `Turns` whose
transfer it is and that a unit is on the semaphore only when it is over. SPI: a
word in is a word clocked out, one for one. UART: wire, fifo and ring are
one line of bytes (`Flight`), in which each byte follows the one before; who
pushes goes on where the newest one ends, and only the holder of the mutex does
(`UOrder`, `UHolds`). `Pump` says that bytes on the ring have an interrupt
enabled, or a thread that will enable it. `Cleared` is the argument of section
4.1 for the constructor's request: after two datagrams the receive ring is never
empty, so clearing it takes until all echoes have come. `Exchange` then counts:
of the request each byte pushed is in flight, heard, or read; behind the
echoes comes the reply. Sensors: who has the locks of the multiplexer and the
sensor, which line is selected and which setup is done. Encoder: the position
follows the shaft but for the quarter that is still to be seen.

TLC checked the strengthened invariants on the instances of section 4 before they
were proved.

### 5.2 Model-checked only

Liveness (`Completes`, `Settles`, `AllWritten`, `Drains`, `Accepts`, `Ends`,
`Comes`, `Served`, `Told`, `Yields`, `TxReturns`, `AllReturn`): the prover has no
fairness and no ENABLED. That there is no deadlock, in `threads` and `drivers`.
`Arrived` and `NothingToDo` are false, and their runs show how.

## 6. What is not modelled, and limits

Abstracted in what is modelled:

- Times. That a call expires after 320 ms and is resent every 40 ms is "at any
  moment" in `Earpc`; `EarpcThreads` has ticks.
- A call that is active while the expiry thread sleeps for ever (4.2), a report
  whose callback finds no worker, and a move on an axis whose driver was switched
  off: the code ends none of them, and the liveness properties except them.
- With calls made without end the oldest parked call may wait for ever, as
  parked calls are resumed newest first; runs have a bounded number of calls.
- Damaged packets. The checksum covers the header only; a lost byte can make
  the reader take parts of several packets for one. `Framed` is stated for a
  line that loses nothing.
- An id used again while an answer to its first use is under way completes the
  wrong call. `Fresh` excludes it; nothing in the code does, except that ids are
  random.
- The speed profile of an axis is one step per turn of its loop; StallGuard and
  currents are register writes.

Left out, with the reason:

- *Host service.* `log` formats text, calls, and waits as
  `stepper_finish_callback` does, which `CallbackPool` models. Its wait has no
  predicate (`io/host/service.hh:67`, and `WML.cc:20`), and `call()` returns 0 without running a
  callback where a text does not serialize (`earpc/earpc.h:287`), after which the
  wait would not end.
- *Servos, valves, PWM, DC motors.* One register each, and a servo's ramp under
  its own lock.
- *Other SPI and I2C device drivers.* Bus transactions under the lock of the bus;
  a model of them shows that the lock is held and no more. Read from the code:
  `PCA9536` locks again the mutex it owns in `pin_value`
  (`drivers/PCA9536/PCA9536.cc:71`), a temperature may be read while it is
  written (`drivers/MAX31865/MAX31865.cc:44`), the reading of a limit sensor
  ignores that its transfer failed, so that homing may go by a value that was
  never set, and command 203 (`init.cc:289`) selects a channel, sleeps and reads
  without a lock.
- *What sensors do on their own.* A proximity sensor that is reset between two
  readings answers as if it were set up, and nothing notices. An encoder whose
  handler runs a quarter too late counts the wrong way; that of axis Y interrupts
  on a pin whose handler does not look for it (`drivers/encoder.h:35`,
  `drivers/hpint.cc:99`), and no axis is built with it. The handlers read the change status
  before they read the port, which clears it (`drivers/hpint.cc:59`): a change of
  another pin in between is not notified.
- *Setup of a port.* `begin()` (`drivers/uart.hh:31`) reconfigures a UART, which
  switches it off, without the mutex: when the axes of one port are constructed
  after another the first one's control thread may be sending. What the
  peripheral does with a byte that is cut off is not in the code.
- *Serializer, checksum, addresses, types.* Pure conversions and compile-time
  code. Payloads have a size that fits or not; a packet's checksum fits or not.
- *Memory and threads.* `malloc` moves a pointer and never gives back (it counts
  bytes in a region of longs, `memory_extra.cc:46`); threads are started once.
- *ThreadX and Harmony.* Vendored or generated, except for the calls whose
  behaviour the firmware depends on (`TxSemaphore`, `PxSync`).

A large part of the repository's lines is of the last kinds: register
definitions of the pins and interrupts, type lists, and five further copies of
the UART driver and more of the others. What they hold is not behaviour that
could be modelled a second time.
