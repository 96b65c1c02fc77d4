# A TLA+ model of RPiDrivers

RPiDrivers is a small C++ library of drivers for the Raspberry Pi: motors,
lamps, buttons, encoders, buses and a TCP server. Most of the drivers are short,
and most of them are used by more than one thread at a time: the pigpio alert
thread, a detached listener, a `select()` worker, and the program's own thread.
These are the parts a unit test does not reach, and this directory is about them.

It comes with a vendored spdlog, through which its programs log.

All paths below are relative to `src/include/drivers/`, those of spdlog to
`src/include/spdlog/`. Every model describes
the build with the macro `PIGPIO`: without it each wrapper in `Hal.h` returns -1,
no pin moves and nothing is left to say.

## 1. The system

| Component | State it keeps | Operations | Concurrency and failure |
|---|---|---|---|
| `SharedQueue.h` (and its copy in `CAN/CPP/SocketCAN.h:24-80`) | a deque, a mutex, a condition variable | `push_back` (two overloads), `front`, `pop_front`, `size` | any threads; `front()` gives out a reference; the notification is sent after the unlock |
| `SocketCAN` (`CAN/CPP`) | descriptor, `IsConnected`, a `SharedQueue` of frames | constructor, `WriteFrame`, `Reconnect`, `IsAvailable`, `ReadFrame` | one detached listener thread per successful `InitSocket`; descriptor replaced under a running listener; exceptions in a detached thread |
| `Stepper` | run state, steps to do and done, PWM settings, callback | `RunSteps`, `Run`, `Stop`, `PwmConfig`, `SetDirection`, `SetStepsDoneCallback` | the alert thread runs `internal_step_callback` without a lock, some pulses late |
| `TcpServerAsync` | status, listening socket, slots, `fd_set`, receive buffer | constructor, `Start`, `Stop`, three callbacks, `Client::Disconnect` and `Write` | a detached worker in `select()`; `Stop` and `Disconnect` on other threads |
| `GpioPooling`, `PushButton`, `Encoder` | debounced level and timer; button state and callback; step count | `Tick`, `ReadState`, `SetReversedPolarity`, `Reset`, ... | one thread, but a bouncing wire sampled at the main loop's pace, and a clock |
| `GpioInterrupt`, `EncoderInterrupt` | level, one static tick for *all* pins, step count | the alert handler, `Reset` | alert thread against client thread; 32-bit ticks |
| `DcMotor` | run state, direction, enable polarity, duty | `Run`, `Stop`, `SetSpeed`, `PwmConfig`, `SetDirection`, ... | one thread; sequences of calls with early returns |
| `Led`, `Relay` | state, time of switching on, interval, polarity | `On`, `Off`, `Tick`; `OpenCircuit`, `CloseCircuit` | one thread and a clock |
| `Spi` | a descriptor; the device keeps mode bits, word size and speed | setters of the mode that read, modify and write it; `SetBitsPerWord`, `SetSpeedHz`; `Read`, `Write`, `Transaction`, `Transfer` | any threads without a lock; each `ioctl` may fail and the failure is thrown |
| spdlog, asynchronous loggers (`details/circular_q.h`, `mpmc_blocking_q.h`, `thread_pool.h`, `async_logger_impl.h`, `periodic_worker.h`, `registry.h`) | a ring with one spare slot, its mutex and two condition variables; the pool's threads and references | log calls that block or overrun, `flush`, the periodic flusher, `shutdown` | loggers' threads, pool threads, flusher, and the destruction of the pool by whoever drops the last reference |
| spdlog, rotating file sink (`sinks/rotating_file_sink.h`, `details/file_helper.h`) | a row of files, `current_size_`, the stream's buffer | constructor, `sink_it_`, `flush_`, `rotate_` | one call at a time under the sink's mutex; failing writes, renames and opens; the process killed in the middle |
| spdlog, daily file sink (`sinks/daily_file_sink.h`) | the open file, named after a day; `rotation_tp_` | constructor, `sink_it_`, `next_rotation_tp_` | a message carries the time it was logged and is handled later, by a thread that waited for the mutex or by a pool; failing opens |
| `I2cMaster`, `m24512` (`src/src/main.cpp`) | descriptor | register selection in two transactions | a failure between the two |
| `C_SocketCAN` | a descriptor | open, read, write, close | none of its own |
| `PID` | two floating-point accumulators | `Compute` | none |
| `GpioBase`, `Hal.h`, `Exception`, `time_utils`, the rest of spdlog | a pin number; text; a clock | wrappers, formatting | see "Not modelled" |

How they interact: `SocketCAN` owns a `SharedQueue` through which its listeners
hand frames to the readers. `PushButton` and `Encoder` derive from `GpioPooling`,
`EncoderInterrupt` from `GpioInterrupt`, and are called back from the base class's
handler; `GpioPooling` measures time with `TimeUtils::Timer`. `Stepper`,
`DcMotor` and `Led` drive pins through `Hal.h`. The programs log through spdlog: a
logger hands messages to its sinks, at once or through the pool's queue. Nothing
else is shared, so the models compose exactly along these lines.

What is hard, and what makes each component correct:

* **SharedQueue**: no lost wake-up although `notify_one()` comes after the unlock
  and a waiter in `front()` swallows a notification without popping; with one
  reader, the reference given out stays valid and the queue is FIFO.
* **SocketCAN**: `IsConnected` is honest through failing reconnects; nobody sleeps
  in `ReadFrame()` after `IsAvailable()`; frames are not lost, duplicated or
  reordered while there is one socket, and still arrive after a reconnect.
* **Stepper**: the motor stops when it says so, no move is short but one that `Stop()`
  cut, which is reported as 0 steps, its end is reported once, each move ends, and pulses
  never go to a disabled driver.
* **TcpServerAsync**: slots and descriptors match, a silent peer holds up nobody,
  the application is told everything about a peer in order, everyone is served.
* **Inputs**: bounces are filtered and real changes noticed, counts and callbacks
  agree with the level.
* **Outputs**: members and pins agree after any sequence of calls, a lamp goes out
  in time; on the SPI device no mode bit is lost but to an overlapping setter, and a
  transfer has the words that were asked for, to the nearest byte, although their size is
  asked for in another call.
* **Asynchronous loggers**: the ring is a bounded FIFO queue, each message that got
  in is handled or overrun, also during `shutdown()`, which returns, and nobody
  depends on the ten seconds' timeout of the worker's wait.
* **Rotating file**: a closed file is never written, the size is bounded, and what is
  lost is the oldest, through failures, crashes and restarts.
* **Daily file**: no message is in the file of a day to come, none is written past the
  rotation the sink has reckoned, and none to a file that could not be opened.

`PROJECT.json` lists the hazards with the line where each bites and the
properties that would catch it.

## 2. The modules

| Module | What it models | Extends, instantiates |
|---|---|---|
| `FrameChannel` | abstract: a FIFO channel, every item sent is delivered once and in order | |
| `SharedQueue` | `SharedQueue.h`, producers and consumers with their program counters | `FrameChannel` (refinement) |
| `SharedQueueProofs` | theorems about it, for any threads and for one consumer | `SharedQueue`, `TLAPS` |
| `SocketCAN` | owner, listeners, readers, kernel sockets | `SharedQueue` as `RecvBuffer`, `FrameChannel` as `Line` |
| `SocketCANProofs` | theorems about it, for any sockets and frames | `SocketCAN`, `SharedQueueProofs` as `Buffer`, `TLAPS` |
| `Stepper` | client and alert thread | |
| `StepperProofs` | theorems about it, for any moves | `Stepper`, `TLAPS` |
| `TcpServerAsync` | owner, worker, disconnecting thread, kernel descriptors, peers | |
| `TcpServerProofs` | theorems about it, for any peers and slots | `TcpServerAsync`, `TLAPS` |
| `GpioPooling` | the debouncer, wires and clock | |
| `PolledInputs` | `PushButton` and `Encoder` | `GpioPooling` |
| `InputsProofs` | theorems about them, for any inputs | `PolledInputs`, `TLAPS` |
| `EncoderInterrupt` | `GpioInterrupt` with `EncoderInterrupt` | |
| `EncoderProofs` | theorems about it, for any encoders | `EncoderInterrupt`, `TLAPS` |
| `DcMotor`, `Led`, `Spi` | one object each | |
| `Outputs` | a program with one of the three | `DcMotor`, `Led`, `Spi` |
| `OutputsProofs` | theorems about motor, lamp and SPI device | `Outputs`, `TLAPS` |
| `BoundedQueue` | abstract: a FIFO queue of limited length that displaces its oldest item when overrun | |
| `CircularQueue` | `circular_q` | |
| `AsyncLog` | loggers' threads, pool, flusher, `shutdown()` | `CircularQueue`, `BoundedQueue` (refinement) |
| `RotatingFile` | the rotating file sink and the file system | |
| `DailyFile` | the daily file sink and the clock | |
| `LoggingProofs` | theorems about all three, for any queue, loggers and pool, and any files, sizes and lengths of a day | `AsyncLog`, `RotatingFile`, `DailyFile`, `TLAPS` |
| `Logging` | a program that uses one of the three | `AsyncLog`, `RotatingFile`, `DailyFile` |
| `MC...` | constants and symmetry for TLC | the module named |

Conventions. Variables have the name of the member they model. A call that runs
under a lock, or on the only thread, is one action; where two threads touch the
same members without a lock, each statement that reads or writes shared state is
an action. Variables marked *history* are not in the code: they record what
happened so that a property can speak of it; guards read them only to bound a run
and to keep the main loop of the inputs from falling asleep (`lastTick`). `Bug<n>_X` is a plausible fault in the operation `X`; no
specification uses it, each shows that a property can fail.

**SharedQueue.** `pc` says where a thread is: a producer between its unlock and
`notify_one()` is at "notify", a consumer of `ReadFrame()` is at "front", "copy"
or "pop". `PushBack`, `Front`, `Wait` and `PopFront` are the critical sections
(a `Wait` in either loop); `NotifyOne` wakes *any* one sleeper, or nobody;
`SpuriousWakeup` is what C++ permits. `ref` is the ordinal of the element that
`front()` returned a reference to, and `Copy` yields that element as long as it is
in the deque and `Garbage` after it was popped. `empty()` is declared in the
source and defined nowhere.

**SocketCAN.** `OpenSocket` and `BindSocket` are `InitSocket()`, split where
`sockfd` changes under the listeners; both may throw. Descriptor *k* is the *k*-th
`socket()`; none is ever closed, as in the code. A listener's `read()` takes the
descriptor at the time of the call (`lfd`), so that one blocked on the replaced
socket stays there. `ListenerFails` is an exception in a detached thread and ends
the process (`alive`). `poll` says which readers call `IsAvailable()` first, as
`CAN/CPP/test.cpp` does, and who was told to read; both kinds are explored.

**Stepper.** A client's call is a sequence of statements, `call` holds what is
left of it. The alert thread runs `internal_step_callback` with its
`StepsDone++` as a load and a store; `pending` counts pulses made and not yet
reported. The test for the last step (line 155) reads `StepsToDo`, and then `StepsDone`
and `StepsToDo` in either order: `CallbackTests`, `CallbackReads`, `CallbackCompares`, with
a `Stop()` possible between any two. The statements of one thread are taken in source
order. `StepsDoneCb`
has no initial value, so it may be garbage, and calling it is `crashed`. `careful`
records whether the client so far started a move only when the last one had ended
and its callback had returned.

**TcpServerAsync.** Each line of the worker that reads a member which another thread may
change is an action. The set is built by `TestServer`, `AddServer`, `MaxServer` (lines 106,
108, 109) and, for each slot, `TestSlot`, `AddSlot`, `CompareSlot`, `MaxSlot` (116 to 121);
then `Select` fails or waits until it `Wakes`, `StdinWakes` or is `Interrupted`; then come
`Check`, `Accept` or `Refuse`, `ClientConnected`, and for each slot `Scan`, `CallsRead`,
`ReadReturns`, `DataReceived` or `ClientDisconnected`. `Stop()` takes four steps,
`Disconnect()` on a thread three (`Disconnect`, `DisconnectCloses`, `DisconnectReturns`).
Descriptors are reused, lowest first, as POSIX says. `Uses` says how a server is
used: whether it is stopped, whether `select()` is interrupted, and who may call
`Disconnect()`: nobody, the callbacks, or a thread. An exception in the worker,
a closed descriptor in `select()` for instance, ends the process. At the edges:

* A `ServerSocket` that `Stop()` zeroes between lines 106 and 108 puts descriptor 0, the
  standard input, into the set. The worker then takes it for its socket; `accept(0)` fails if
  a slot is free, and ends the process. (`select()` with 0 as the largest descriptor is
  taken to watch it.)
* `FD_SET(-1)` and `FD_ISSET(-1)`, after a `Disconnect()`, are undefined. They set and find a
  bit, or none, in the build without `_FORTIFY_SOURCE` (`CMakeLists.txt` asks for no
  optimisation, without which it has no effect); with it the process aborts.
* A `read()` that sleeps stays with the socket it was called on (`reading`) when another
  thread closes the descriptor.
* The terminating zero at index -1 falls into the member `Readbytes`, which lies before the
  buffer. The length that `DataReceived()` is given is still -1 where `ssize_t` is wider
  than an `int`, and 0x00FFFFFF in an unoptimised build for 32 bits (`garbled`). At index 256
  it falls into the thread's number, which `detach()` has already zeroed.

**GpioPooling, PolledInputs.** The wire changes at any time, `TimePasses` advances
a clock of `MsUs` units per millisecond, and the main loop calls `Tick()` at least
every `MaxGap` units. `millis()` and `micros()` round the same clock differently and
differences are modulo `Width`, as in the code. The clock may be set back once.
One input is built per behaviour (`Programs`): inputs share nothing.

**EncoderInterrupt.** Edges queue up as alerts with a wrapped tick; the alert
thread handles them, `Steps++` again as load and store; `LastTicks` is one variable
for all encoders. `CurrentState` starts with any value.

**DcMotor, Led, Outputs.** One action per method. `CurrentDirection` has no initial
value. `Outputs` runs one of its three objects.

**Spi.** Each `ioctl` is an action and may fail, which ends the call. `Sets` reads the
mode into `snapshot`, and the next step writes it back with `change` applied;
`asked` is the mode as the setters meant it to be, `since` what others wrote after a
thread's reading, and `lost` what that thread then wrote over. A transfer reads the
word size (`GetBitsPerWord`), computes its bytes from it and sends (`Message`). `Count` is
the number of words the call works with: `Transfer()` takes it as a `char`. `Made` is the
message, and what the call returns: the words received, but 1 for `Write()`. The setters'
reading back of what they wrote only forms the value they return. The size rounding is the
code's integer arithmetic; that it could overflow an `int` for more words than any buffer
holds is not modelled.

**AsyncLog.** Critical sections of the queue's mutex are actions, and so are the
notifications that follow them. `pc` and `item` are a posting thread and what it
posts: a client, the flusher, or the one that destroys the pool. `holders` counts the
references to the pool. `Timeout` and `SpuriousWakeup` may end a wait, and nothing
relies on them. `Setting` chooses the pool and each logger's policy.

**RotatingFile.** A file is a set of numbered messages and a size; `buffered` are the
messages that are not yet on disk and that a crash loses. A rotation is one action
per file operation (`Close`, `Skip`, `Remove`, `Rename`, `Reopen`), each of which the
system may refuse, and `Crash` may come between any two. The file helper's five
attempts at opening are one.

**DailyFile.** A message is the time at which it was logged, `waiting` are those that
nobody has handled yet, and `inOrder` says whether they are handled as they were logged.
`sink_it_()` is one action under the sink's mutex: `RotateDaily`, `RotateDailyFails` or
`WriteDaily`. The constructor reads the clock for the name of the file (`StartDaily`) and,
after up to five attempts to open it, once more for the next rotation (`ReckonDaily`): time
may pass in between. The clock goes forward, and every day has `DayLength` units: no
daylight saving. `reckonedAt` is the time at which the rotation from each day's file was
reckoned. What the stream has not written yet counts as written.

## 3. The runs

| Run | Instance | Shows |
|---|---|---|
| `queue_fifo` | 2 producers, 1 consumer, 2 values, 4 pushes | `ChannelSpec`: with one consumer the queue *implements* `FrameChannel`, liveness included; `RefIsHead`: why the reference is good |
| `queue_many` | 2 producers, 2 consumers, 4 pushes | `NoLostWakeup` and `EveryItemPopped` |
| `can` | 1 reader, 2 sockets, 2 frames of others, 1 own | `ConnectedMeansServed`, `PollNeverBlocks`, `CopiesBounded`, `LineSpec` (refinement while there is one socket), `FrameReachesReader` |
| `stepper` | moves of 2 steps, 3 pulses, 1 late | the promises to a careful client; `EnabledWhenDriven` for any client; `MoveFinishes` |
| `tcp_serve` | 3 peers, 2 slots, nobody stops it | `SlotsMatchFiles`, `SleepsOnlyInSelect`, `StoryComplete`, `RefusedOnlyWhenFull` |
| `tcp_stop` | 2 peers, 1 slot; `Stop()` between any two lines of the worker, or `Disconnect()` on a thread and interrupts | `StoryComplete`; `EverybodyServed` for the former |
| `tcp_stop_race` | 1 peer, `Stop()` | `OnlyOpenAdded` is **violated**: a closed descriptor, or the standard input, is added (finding 1) |
| `tcp_terminator` | 1 peer | `TerminatorInBuffer` is **violated** (finding 2) |
| `polled_inputs` | a button or an encoder, debouncing of 2 ms | `Debounced`, `Responsive`, `ListenerKnows`, `StepsParity` |
| `encoder_interrupt` | one encoder with, one without debouncing | `Spaced`, `FollowsPin`, `CountExact` |
| `outputs` | a motor with any wiring, a lamp of 0 or 1 ms, or two threads on one SPI device | `MotorAgrees`, `OnInTime`, `OnlyOverlapsLose`, `WordsAsAsked` |
| `logging` | two loggers, a pool of one or two threads, a queue of 2; or log.txt with 2 files behind it and 6 messages; or a daily file, 3 days, 2 messages waiting | `NothingLeft`, `OneThreadInOrder`, `RingSpec`, `ShutdownEnds`, `EverythingHandled`; `NeverWritesClosed`, `SizeBounded`, `OnlyOldestLost`; `EachDayItsFile` |

Each property of a passing run has at least one mutant in `PROJECT.json` that
breaks it. Type invariants are conjuncts of the inductive invariants in the proof
modules.

**Bounds.** They are constants, and appear only in guards.
`MaxPushed = 4` lets two producers push twice, so that both sleepers are woken and
a push falls between a wake-up and its waiter. Two sockets are the fewest with a
reconnect; two bus frames and one own are enough to reorder and to fill the
receive queue. Two steps, three pulses and one late pulse give a move with a
middle, one pulse more than ordered and a report that reaches into the next move.
Three peers compete for two slots, so that one is refused and a descriptor is
reused; two bytes of each and `BufferSize = 2` make full and short reads. In `tcp_stop` a
buffer and a peer have one byte, so that every read is a full one. `Wrap = 4` with `MaxTime = 6`
wraps the tick; `MsUs = 2` is the least with a difference between rounding and
truth. `MaxTime` covers two debouncing periods, and three lamp intervals. The
values of data are symmetric. Two threads with two calls each let a setter overlap
two others; four bytes at most, and three words of 8, 9 or 16 bits, make transfers
below and beyond the limit, of words that are no whole bytes, and of no words at all;
`CharRange = 2` cuts a `Transfer()` of three words to one, as 256 cuts one of 300 to 44. A queue of two is full after two
messages, wraps around with the third, and is overrun by the fourth message (a
flush, a terminate); the settings of `MCLogging` combine one blocking logger with a
flusher, a blocking and an overrunning one, and two threads in the pool. Two files
behind log.txt give the rotation a middle; messages of 1 and 3 with a limit of 2 fill a
file exactly, overflow it, and are too long for any; six messages rotate more
often than there are files. A day of two units has a beginning and a middle to rotate at;
time 4 is in the third day; of two messages that wait, one may overtake the other, and
both may wait past a rotation, and the constructor may wait past two.

**Deadlock** is checked in every run but those whose program may legitimately come
to rest: a process that has terminated, a server that was stopped, a pool that was shut
down, or a bound on frames, peers, pulses, calls or messages that is used up. In
`logging` the two liveness properties say that no thread hangs.

**Fairness.** Weak fairness on the threads, which the scheduler justifies: each
producer's and consumer's started call (`SharedQueue`), each listener and reader
and a started `InitSocket()` (`SocketCAN`), the client's started call, the PWM
hardware and the alert thread (`Stepper`), the worker (`TcpServerAsync`), a posting
thread inside its call, the pool's threads, a round of the flusher and a `shutdown()`
that has begun (`AsyncLog`). Nothing is assumed of those who may simply not call: pushes, bus traffic, peers, new
client calls, log calls, timeouts, interrupts and spurious wake-ups. `EverybodyServed`
speaks of what is owed to each peer (`Owed`), and is not claimed of a worker whose `select()`
is interrupted, which may sleep in `accept()` or `read()`. A woken consumer needs the mutex, held only in finite sections; no
strong fairness is assumed. Safety runs have none.

## 4. What is proved

`SharedQueueProofs` proves, for any finite sets of producers and consumers, any
elements and any number of pushes (`QueueAssumption`):

* `TypeCorrect`: `Spec => []TypeOK`.
* `WakeupInvariant`: `Spec => []WakeupInv`.
* `WakeupSafe`: `Spec => []NoLostWakeup`.

`NoLostWakeup` ("if elements lie there and someone sleeps, someone is on the way")
is not inductive: after a pop, one active thread fewer remains, and nothing says
that another one is left for the next element. `EnoughActive` counts: while anyone
sleeps, there are at least as many active threads (a push not yet notified, an
awake consumer inside `front()`...`pop_front()`) as elements. A push adds an element
and an active thread; a notification that wakes someone replaces the producer by
the consumer; a pop takes one of each; a consumer only falls asleep on an empty
deque. This holds because both loops re-test the deque under the mutex, and would
not if a push did not notify. `Contents`, `RefInRange` and `Sleepers` are the facts
the argument and the types need. TLC checks `NoLostWakeup` in `queue_many`.

and, for any producers, elements and number of pushes but one consumer
(`OneConsumer`):

* `RefIsHeadSafe`, `OneReaderSafe`: `RefIsHead` and `OneReader` are invariants. They
  are inductive together with the types and `Contents` ("the deque is what was
  pushed and not yet popped"): only the consumer pops, so what its `front()` found
  stays at the head until its own `pop_front()`.
* `Refinement`: `Spec => Channel!Spec`. `Copy` is the channel's `Deliver`, because the
  reference designates the element after the last one delivered; `PushBack` is
  `Send`; every other step is a stutter.

`SocketCANProofs` proves, for any number of sockets, readers and frames, any capacity of
the receive queues, and through failing connects and listeners that end the process
(`CanAssumption`; it says that frames are finite in number, that threads have names of
their own, and that freed storage does not look like a frame):

* `ServedSafe`: `ConnectedMeansServed`. `Served` says more than the property: it is the
  listener started last (`spawned`) that serves the socket in hand, and if it is in
  `read()` it is there with that socket. `Spawning` bounds sockets and listeners, so
  that the listener `BindSocket` starts is a new one.
* `BufferUsed`, `WakeupsInside`: the driver's behaviours are behaviours of `SharedQueue`
  on its buffer, so `WakeupSafe` holds inside it, by reference to the theorem and not by a
  second proof. `BufferAssumption` shows that what `SharedQueue` assumes is true of
  the listeners, readers and frames.
* `PollSafe`, `CopiesSafe`, `LineImplements`, for one reader (`OneReads`), as in the
  repository's programs: `PollNeverBlocks`, `CopiesBounded`, `LineSpec`. `Polling` is
  why a polling reader does not sleep: what `IsAvailable()` saw is still there, because
  nobody else pops. `FromSockets` counts, for every frame, the times it was pushed or is in
  a listener's hand, and the sockets it was read from; `Once` says that a socket queues it
  once. With `FifoInv` of `SharedQueueProofs` this bounds the copies. `InLine`: with a single
  socket the frames pushed are those read from it, in order, so `LineSpec` is the queue of the
  kernel followed by the queue of the driver.

`TcpServerProofs` proves, for any peers, slots, buffer, backlog and number of bytes
(`ServerAssumption`), any use of `Stop()`, of interrupts and of `Disconnect()` in the
callbacks, but for servers on which no other thread calls `Disconnect()` (`NoThread`):

* `SlotsSafe`: `SlotsMatchFiles`. A descriptor may be closed and given to the next peer, so
  the invariant must say of the descriptors what the property says of the slots:
  `Slotted` (used slots have different descriptors, a connection's descriptor is in a slot, a
  peer has one connection) and `Server` (the only other descriptor in use is that of the
  listening socket, and where the owner is in `Stop()` says in which state it is). `NewFd`
  then gives a number that is in no slot. The lines that build the set disturb none of this
  (`BuildingKeeps`). `Stdin` deals with descriptor 0: while it is in the set `ServerSocket`
  is 0, so `accept(0)` fails if any slot is free, and a pass that gets to the scan finds none.
* `StorySafe`: `StoryComplete`. `Announced` says what the application knows of the peer in
  each slot; `Counted` that what was given and what is in the worker's hand is what was
  read, and that the worker closes a connection only when its peer has ended and nothing is
  left to read; only then does it call `ClientDisconnected()`. `Garbled`: a length that
  `read()` did not return is given only for a connection that was reset.
* `SleepsSafe`, if signals do not interrupt `select()`: `SleepsOnlyInSelect`. `Ready` says of
  each descriptor that `select()` found and the pass has still to come to (`Ahead`) that it is
  still readable: only the worker reads and closes. It holds also of a server that is being
  stopped, which the run does not show.
* `RefusedSafe`: `RefusedOnlyWhenFull`.

The hypothesis `NoThread` is needed: `Disconnect()` on another thread closes the descriptor
before it clears the slot, and `SlotsMatchFiles` is false in between. `Untouched` is what it
gives: no such call is ever under way.

`OutputsProofs` proves, for any duty cycles, wiring, intervals, resolution and bound
of the clock (`MotorAssumption`, `LedAssumption`) and any sequence of calls:

* `TypeCorrect`: `TypeOK`.
* `MotorSafe`: `MotorAgrees`, which joins `DrivenSafe`, `FollowsSafe` and
  `DirectionSafe`: the pulse pin carries the duty exactly while the motor runs, the
  enable pin follows `Run()` and `Stop()`, the direction pin agrees with the member once
  it was written. The last one needs that a pin which is not wired is never written
  (`OnlyWired`), since `ReverseDirection()` changes the member without a pin.
* `InTime`: `OnInTime`. The invariant says that the time stamp is the time of the
  last `On()`, rounded; the lemmas `Rounding`, `Multiples` and `Monotonic` bound what
  the two roundings do to the difference.

and, for any threads, calls, word sizes, transfers and width of a `char` on an SPI device
(`SpiAssumption`):

* `OverlapSafe`: `OnlyOverlapsLose`. The invariant `ReadAsAsked` says of every thread
  between its two `ioctl`s that what it has read is as asked, but for the bits
  written since and those already lost; when it writes, exactly these are added to
  `lost`, and its own change is taken off.
* `WordsSafe`: `WordsAsAsked`. `DoneAsComputed` says that the last transfer is what the
  code's arithmetic makes of the word size *the thread has read*, which need no longer be the
  device's; the rest is arithmetic: what rounding a number of bits to the nearest byte, and
  then the bytes received down to words, can lose.

`LoggingProofs` proves, for any size of the queue, any loggers, pool and policies
(`RingAssumption`, `AsyncAssumption`), first `RingImplements`, `AsyncSpec => RingSpec`. The ring
has one slot more than it may hold items, so head and tail coincide only when it is
empty; `Content` reads the slots from head to tail, and each slot is reached once.
The lemmas on `PushBack` and `PopFront` show that a push into a full ring is
`Push` with the oldest displaced, everything else that a push or a pop; `RingOK` bounds
head and tail, and `Posting` and `Within` say that what the threads post are messages.

Then it proves what becomes of the messages:

* `NothingLeftSafe`: `NothingLeft`. `Accounted`: each message that was queued is handled,
  overrun, in the queue, or in the hand of a thread of the pool. That the queue is empty
  when the threads are gone needs counting. As long as somebody holds the pool nobody is told to
  end (`Lives`). From then on one thread posts at a time, and the terminate messages in
  the queue and those still to be posted are as many as the threads that have not taken one
  (`Ends`); those in the queue are behind all others, which is why a thread that takes one
  leaves no message behind that nobody will take. A terminate message that
  waits for room does not displace anything, and a queue in which blocking loggers alone
  post is never overrun (`NoOverrun`).
* `OneThreadSafe`: `OneThreadInOrder`. `InTurn` orders what lies in the queue, and says of a
  flush that all it was asked for is before it or already out of the queue; `OneByOne`
  orders the handled messages, the one in hand and the queue.

The last conjunct of `Ends` makes it inductive: once a terminate message was posted, a queue
that is not empty has one at its end. So the last thread, which takes the last of them,
takes it from a queue with nothing before it.

It proves, for any number and size of files, any messages, and through every failure and
crash (`RotatingAssumption`):

* `NeverClosedSafe`, `SizeSafe`: `NeverWritesClosed`, `SizeBounded`. The code does not
  test `fd_`: a sink whose file could not be reopened is safe only because its
  `current_size_` still exceeds the limit (`Counted`), so that it rotates again before it
  writes. `Counted` also says that `current_size_` is never less than the size of an
  open log.txt, and `DiskBounded` carries the bound through a crash, which shortens a file to
  what was on disk.
* `OldestSafe`: `OnlyOldestLost`. `Ordered`: a file with a higher index holds older
  messages. `Shifted`: a rotation that has come to an index below the highest has
  emptied the file there, and the file before is there while it is renamed or given up;
  a file that is absent has no messages. So the file that is removed is the
  oldest, or a gap.

and, for any length of a day, time to rotate and number of waiting messages
(`DailyAssumption`):

* `DaysSafe`: `EachDayItsFile`. `Starting` and `Opened`: nothing that still waits was logged
  before the day of the open file, and `rotation_tp_` is the rotation that was reckoned for
  this file, at whatever time (`reckonedAt`), and not for an earlier one; while no
  file could be opened, everything that waits will try again to open one, because
  `rotation_tp_` is set only after the opening. The theorem measures from the reckoning,
  because nothing bounds how late that is (section 5).

`InputsProofs` proves, for any inputs, debouncing times, gaps, clock resolution and
bounces (`PoolingAssumption`):

* `DebouncedSafe`, `ResponsiveSafe`: `Debounced`, `Responsive`. `Timed` says that the timer was
  restarted by the last `Tick()` that agreed with the debounced level, or no more than
  one gap before the first that did not; `Elapsed` turns the difference of rounded
  milliseconds into time.
* `ListenerSafe`, `ParitySafe`: `ListenerKnows`, `StepsParity`, from `Heard` and `Counted`.

`EncoderProofs` proves, for any encoders and debouncing times, any width of the tick, and
edges any time apart, many wraps of the tick included (`EncoderAssumption`):

* `SpacedSafe`: `Spaced`. `Remembered`: `LastTicks` is the tick of a time that is not before
  any accepted change, of whatever encoder, nor after an alert that still waits.
  `Difference`: the difference of ticks modulo the width is never more than that of
  the times.
* `FollowsSafe`, `CountSafe`: `FollowsPin`, `CountExact`. The alerts of a pin that wait
  alternate and the last has the level of the pin; the next is a change, unless none
  was ever handled (`NextIsChange`, `Untouched`), so every alert but perhaps the first
  is counted; `Counted` follows the value through the load and the store.

`StepperProofs` proves, for any moves and duty cycles and any number of pulses, however
late they are reported (`StepperAssumption`):

* `EnabledSafe`: `EnabledWhenDriven`, for any client.
* `StillSafe`, `ShortSafe`, `OnceSafe`: `StoppedMeansStill`, `NeverShort`, `ReportedOnce`, the
  promises to a careful client.

`CallOK` lists what can be left of a call. While a careful client's call leads to a
new move (`Starts`), the PWM is off and nothing is left to report, so the hardware and the
alert thread cannot interfere (`Busy`); in any other call (`Continues`) `Counting` holds: the
steps counted, the one in the callback's hands and those that wait are no more than
the pulses made. `Testing` says what the three reads of line 155 have in hand: between any
two of them the client can only call `Stop()`, which is remembered. So a callback that found
the last step has either seen all pulses, or has compared two members that `Stop()` had
zeroed, and then reports 0 steps (`Ends`). `Enabled` needs
the order of the statements: the driver is enabled last and disabled last.

Only model-checked: all liveness properties (`EveryItemPopped`, `FrameReachesReader`,
`MoveFinishes`, `EverybodyServed`, `ShutdownEnds`, `EverythingHandled`, and the fairness of
`ChannelSpec`), which are beyond the prover; and `StoryComplete` of a server with one slot on
which another thread calls `Disconnect()`, where the invariant of `TcpServerProofs` does not
hold. Every other property of a passing run is stated by a theorem.

## 5. Findings

1. `TcpServerAsync.cpp:105` says the listening socket is added to the set "only if
   it is open". `Stop()` closes it before it clears `ServerSocket`, without a lock, and the
   worker tests it at line 106 and reads it again at 108: it may add the closed
   descriptor, on which `select()` fails and the exception ends the process, or
   descriptor 0, the standard input. Run `tcp_stop_race`.
2. `TcpServerAsync.cpp:199-200` sets "the string terminating NULL byte on the end of
   the data read", at the index `read()` returned: -1 after an error, and
   `RECV_BUFFER_SIZE` after a full read; both lie outside the buffer, the former in the
   member `Readbytes` whose value is then passed to `DataReceived()`. Run `tcp_terminator`.

The following are limits; most were seen with TLC when the restriction named was lifted.
None is a disagreement with anything the repository says but those of the SPI rounding and
of the daily rotation, where a comment is quoted; no run is devoted to these two.

* With two consumers the queue is no FIFO: two `ReadFrame()` copy one head and pop
  two elements, or copy a popped one. `RefIsHead`, `OneReader`, `ChannelSpec` are for one.
* With two readers `IsAvailable()` promises nothing: the other one may pop before
  `ReadFrame()`, which then blocks. `PollNeverBlocks` is for one.
* A second listener after `Reconnect()` may push frames out of order, and a frame
  queued at both sockets arrives twice: `LineSpec` stops at the second socket.
* A stepper client that starts a move while the last callback still runs can get a
  motor that runs in state STOPPED, a short move, two reports or a move that never
  ends. `RunSteps(0)` runs for ever. To a careful client, a `Stop()` in the middle of
  the test for the last step (line 155) has the callback find 0 = 0 and report the end of a
  move that was cut short, as one of 0 steps.
* `Disconnect()` on another thread breaks `SlotsMatchFiles`, and with two slots
  `StoryComplete`: bytes of one peer are given in the name of another. It may also empty a
  slot between lines 120 and 121, so that `select()` waits with -1 as the largest
  descriptor, for nobody. After an interrupted `select()` the worker may sleep in
  `accept()` or `read()`.
* An encoder with debouncing on interrupts loses the last level of a bounce, and
  edges that follow another encoder's.
* The first change of a polled input is not debounced, nor is one after the clock
  was set back.
* A motor stopped by `PwmConfig()`, or whose polarity is set after construction,
  keeps its driver enabled until the next `Run()` or `Stop()` that has an effect.
* Two threads that set bits of the SPI mode may lose one of them.
* A transfer of one word of 9 bits sends one byte: the code rounds to the nearest byte where
  the comments at `SPI/Spi.cpp:54` and `:119` say "round up". `WordsAsAsked` states the
  rounding the code does, for words of any size. `Transaction()` receives one byte more than it
  computed, `Write()` returns 1 whatever it wrote, and `Transfer()` takes its number of
  words as a `char`: of 300 words it moves 44.
* A blocking logger's messages are displaced too when it shares a pool with one that
  overruns the oldest. With two threads in the pool a logger's messages may be
  handled out of order, and a flush before what was logged before it.
* When a file cannot be renamed twice in a row the rotating sink truncates log.txt.
* The daily sink names a file after the message, or after the constructor's first look at
  the clock, and reckons the next rotation from a later one. When a time to rotate lies
  between the two (a message that was queued past it, or a constructor that tries to open its
  file across it) a rotation is skipped, and the messages of the next day go to the file of
  the day before, where the comment at `sinks/daily_file_sink.h:44` says "rotates at
  midnight". `EachDayItsFile` says only that the rotation it has reckoned is kept.
* A message that was overtaken by one whose file could not be opened is written to a null
  pointer. With `truncate` and a time to rotate other than midnight, the rotation empties
  the file of the same day.

## 6. Not modelled

* Construction and destruction as object lifetime: `SocketCAN`, `TcpServerAsync` and
  the alert handlers use the object after a destructor; the repository's programs
  never destroy one.
* `TcpServerAsync::Start()` after `Stop()`: a second worker beside the first on torn
  `fd_set`s. `Client::Write()` changes no member.
* `Spi::BackgroundWork`, which does nothing as long as `IsAvailable()` returns 0.
* Members nothing reads (`PreviousState`, `Encoder::State`, the polarity of encoders,
  `Led::timer`), and watchdog alerts, which nothing asks for.
* Reordering of unsynchronised accesses by compiler or processor: the statements of
  a thread take effect in source order.
* `I2cMaster`, `m24512`: one thread and a descriptor. What half a register address leaves behind
  is decided by the slave chip, which is not in the repository, and
  `ReadRegister`/`WriteRegister` of `m24512` return no value.
* `C_SocketCAN`: four functions without state; the kernel's side of them is in
  `SocketCAN`. `PID`: floating point. `Relay`: a lamp without state. `GpioBase`, `Hal.h`,
  `Exception`: forwarding and text. `time_utils`: the timer is modelled where it is
  used.
* The rest of spdlog: text formatting (fmt and the pattern formatter, more than 7,000 lines),
  wrappers of the operating system, sinks that write what they are given, and the
  synchronous logger. Of the queue of the asynchronous loggers: levels, `set_tp()`, which replaces
  the pool, and the MinGW build, which notifies under the mutex.

Most of the source is vendored text processing: 13,600 of its 16,800 lines are spdlog
and its copy of fmt. The share that the map covers is therefore small and cannot
be otherwise without a model of string formatting; of the drivers, which are the
repository's own code, nearly all that changes state is modelled.

## 7. Plan

Done, in this order because the queue is the base of the CAN driver, and because
threads come first: `SharedQueue`, `SocketCAN`, `Stepper`, `TcpServerAsync`, inputs,
outputs, `Spi`, the asynchronous loggers, the rotating and the daily file; and the proofs of all
safety properties of these.

Next: the refinement of an abstract server by `TcpServerAsync`, with its proof; `StoryComplete`
with one slot and a thread that disconnects. Then the model: levels and the error handler
of the loggers.
