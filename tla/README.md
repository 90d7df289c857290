# Verification of mqmgateway

mqmgateway polls registers of modbus networks and publishes them as MQTT
topics; it writes registers on MQTT commands and serves RPC reads and writes.
This directory holds TLA+ models of its core, the TLC configurations that check
them on small instances, and proofs, checked by TLAPS, that hold for all
instances. `PROJECT.json` lists the components, the runs, the mutants that show
that each property can fail, the source lines of each definition, the findings
and the hazards. Paths below are relative to `src/libmodmqttsrv/`.

## The system

| Part | Source | Module |
|---|---|---|
| Queues of commands, one pair per slave | `modbus_request_queues.cpp` | `ModbusRequestQueues` |
| Executor: which command is sent next, silence on the bus, retries | `modbus_executor.cpp` | `ModbusExecutor`, `WriteService` |
| Executor: values read and messages sent to the main thread | `modbus_executor.cpp`, `register_poll.cpp` | `RegisterPolling` |
| Modbus thread: connection, waits, messages of the main thread | `modbus_thread.cpp` | `ModbusThread` |
| Scheduler: which registers are due, and when the next one is | `modbus_scheduler.cpp` | `ModbusScheduler` |
| Watchdog: reconnect after a period of errors | `modbus_watchdog.cpp` | `ModbusWatchdog` |
| MQTT objects: values, availability flag | `mqttobject.cpp` | `PolledRegisters`, `MqttObject` |
| MQTT client: what is published | `mqttclient.cpp` | `MqttClient`, composed in `Gateway` |
| MQTT client: the connection and its callbacks | `mqttclient.cpp`, `mosquitto.cpp` | `MqttConnection` |
| RPC: requests, pending map, replies | `mqttclient.cpp` | `Rpc` |
| Main thread: first connection, main loop, shutdown | `modmqtt.cpp`, `modbus_client.cpp` | `MainLoop` |
| Queues between the threads | `../readerwriterqueue/` | `ReaderWriterQueue`, `LightweightSemaphore`, `BlockingQueue` |
| Poll specification: merging declared ranges | `modbus_messages.cpp`, `modbus_types.cpp` | `PollSpecification` |
| Configuration: slaves, poll groups, objects, commands | `modmqtt.cpp` | `Configuration` |
| Converters and their arguments | `../stdconv`, `../libmodmqttconv`, `conv_name_parser.cpp` | `ConverterTools`, `Converters`, `ConverterArgParser`, `MapParser`, `Conversion` |

There is a main thread, one thread for each modbus network and the thread of
the mosquitto library. `ModMqtt::init` reads the configuration and builds a
poll specification for each network. The main thread sends it to the modbus
thread through `mToModbusQueue`; the library's thread adds MQTT commands, RPC
requests and the state of the broker. The modbus thread gives commands to its
executor, which talks to the bus and answers through `mFromModbusQueue`. The
main thread takes the answers, updates the MQTT objects, publishes, and replies
to RPC requests. Converters turn registers into payloads and payloads into
registers.

A module whose name begins with `MC` gives the constants of an instance; one
that ends in `Proofs` or `Invariant` holds theorems.

## The executor

`ModbusRequestQueues` has the two queues of each slave and the turn taking of
`popNext`; a command is the identity of its object, because the code compares
`shared_ptr`s. `ModbusExecutor` adds the state of the executor under the names
of the code. Its actions are the calls the modbus thread makes.

| Action | Code |
|---|---|
| `SetupInitialPoll`, `SchedulePolls` | `setupInitialPoll`, `addPollList` with its election of the first slave |
| `AddReadCommand` | `addReadCommand` (RPC) |
| `AddWriteCommand` | `addWriteCommand`: the fast path `WriteNow` and the queued path `WriteLater` |
| `ExecuteNext` | `executeNext` with `sendCommand`; the command succeeds or fails |
| `Tick` | time between two calls |

Time is the silence on the bus, `now() - mLastCommandTime`. `silence` stops at
`MaxSilence`, which `ExecutorAssumption` makes at least twice every delay: a
longer silence compares in the same way. The scan of `findForSilencePeriod` is
stated by the set of positions it remembers (`ScanHits`) instead of a loop. For
a slave without an entry in the map, `addWriteCommand` reads behind `end()`;
the model allows both outcomes that `resetCommandsCounter` can have.

`WriteService` is the abstract specification: the writes to a slave are tried
in the order they were accepted and leave only by success or after all their
retries. `ImplementsWriteService` maps the waiting command and the write queues
to it.

## The value path

`PolledRegisters` has register ranges and the poll groups. `MqttObject` has the
leaves of the data nodes (`mHasValue`, `mValue`, `mReadOk`) and the cached flag
`mIsAvailable`; the recursion over the tree of data nodes is a quantifier over
leaves. `MqttClient` has what `publishState` remembers and what the broker
retains. Converters and JSON are an arbitrary function `PayloadOf` from the
values of an object to its payload. `RegisterPolling` has the polling side.
`Gateway` composes them.

| Action of `Gateway` | Code |
|---|---|
| `PollSucceeds`, `PollFails` | `pollRegisters`, `handleRegisterReadError`, end of the initial poll in `executeNext` |
| `Write`, `Rpc` | `writeRegisters`; a poll or write made for an RPC request |
| `Connect`, `Disconnect` | the two ends of the connection in `ModbusThread::run` |
| `ProcessMessage` | one turn of `processModbusMessages` with `processRegisterValues`, `processRegistersOperationFailed` or `processModbusNetworkState` |
| `LoseLink`, `GainLink` | the broker goes away, possibly restarted; `onConnect` with `publishAll` |

History variables, which no action reads for anything else:

- `lastRead` and `fresh`: the values read last, and the groups read without error
  since anything failed.
- `silenced`: groups whose leaves were marked as failed while the poll has no
  reason to send its next good read: a failed command, a neighbour's failure, an
  error count that started anew, a network lost in the middle of the initial poll.
- `overlaid` and `rescued`: groups that a command or an RPC request has brought
  values for, since the poll's last message and since its last failure message.

`pollRegisters` compares what it reads with what it has sent itself. These
variables say where the objects may have heard something else since; the next
message of the poll takes the group out of them.

What the composition abstracts:

- A handler is one step. `publishAll` runs on the mosquitto thread and takes no
  lock; its race with the main thread is not modelled.
- There is one modbus network. The client is past its first connect and before
  its shutdown, which are in `MainLoop`. Publishing raises no exception.
- A group may be polled whenever the initial poll does not forbid it. The order
  is the matter of `ModbusExecutor`; losses in its election are not repeated in
  `Gateway`.
- The initial poll ends with its last group. An RPC read that prolongs it is
  ignored.
- The failure of an RPC request concerns only its caller.

## The modbus thread

`ModbusThread` is the loop of `ModbusThread::run` for one network, composed of
`ModbusScheduler` and `ModbusWatchdog`. `pc` is the place in the loop: `loop`
(connect), `work` (schedule), `execute`, `check` (watchdog), `wait` and
`dispatch`. There is one action for each branch of the loop and one for each
message of `dispatchMessages`. The main thread is `SendConfig`,
`SendSpecification`, `SendMqttNetworkIsUp`, `SendCommand` and `Stop`.

The scheduler has no registers until `SetPollSpecification` has set
`mRegisterMap`. Times are ages: `sinceRead` is `now() - mLastReadStartTime`, `untilPoll` is
`nextPollTimePoint - now()`. They stop where a larger value compares in the same
way. `Forever` is `duration::max()`; `now()` plus it wraps to a time that has
passed (`PollTimePassed`). A negative `idleWaitDuration` makes
`wait_dequeue_timed` wait without a limit, and so does the model. A wait may end
one unit late.

The executor is reduced to its pending commands, of which any may be next; a
command that fails is given up. Order and retries are in `ModbusExecutor`.
Messages arrive only while the thread waits or dispatches, and the device file
changes only before it is looked at: elsewhere the thread does not see it.

## The main loop and the connection

`MainLoop` is `ModMqtt::start`; `pc` is the place in it. `MqttConnection` has
`start`, `shutdown`, `onConnect` and `onDisconnect` of `MqttClient`, split where
another thread can see a difference: both threads read and write
`mConnectionState` and `mIsStarted` without a lock. `link` and `callback` are the
mosquitto library: `connect_async` drops an existing connection without a
callback, one callback runs at a time. `notifyQueues` and the waits hold a mutex
and are one step each. `asked` and `unsettled` are history variables.

## RPC

`Rpc` follows a request from `handleRpcRequest` over the modbus thread to
`publishRpcResponse` or `publishRpcError`. A request is what the validation asks
about its JSON document; `Rejected` has the conditions under which it throws.
`ModbusThread::run` executes commands only while the modbus network is connected
(`mConnected`, which comes and goes) and the thread believes that the broker is
there (`mMqttConnected`, which follows the link with a delay through
`mqttStates`); `Executing` is that condition.
Ids count down and wrap at `-MaxRpcId`. A write reports each failed try, a read
the last one. `onDisconnect` clears the pending map while commands are still on
their way. `cut` is a history variable: the requests whose answer a lost link
has prevented, or that have no Response Topic.

## The queue between the threads

`ReaderWriterQueue` is the vendored lock-free queue: `inner_enqueue` and
`try_dequeue` in steps with at most one access to memory the other thread uses.
`LightweightSemaphore` has the count, the semaphore of the operating system and
the timed wait that must give back a count it has taken. `BlockingQueue` is the
abstract specification, a sequence behind that semaphore;
`ImplementsBlockingQueue` maps the ring of blocks to it. Memory is sequentially
consistent: that the fences do their work is not checked. With one consumer
behind the semaphore the second look at the front block (`CheckFrontAgain`) is
never needed; it is modelled all the same.

## Configuration

`Configuration` reads the entries of a file in some order: `ReadSlaves` for an
entry of `slaves` or the poll groups of a network, `ReadObject` for an entry of
`objects`, which makes one object for each of its networks and slaves, and
`MapObjects` for the end of `init`. An entry that is invalid ends the program.
`PollSpecification` has the merging. Topics are a base and what the placeholders
were replaced with. `declared` is a history variable.

Left out: the YAML text, delays and retries, the check that an object has only
named or only unnamed registers, converters, two networks with one name, and
`group()`, which the program does not call.

## Converters

`Conversion` is the life of one converter. Its text is parsed character by
character by `ConverterArgParser` and, for a map, `MapParser`; then registers are
read, published and sent back as a command, or a command is written and
published again. `Converters` and `ConverterTools` have the conversions, with
words of two bytes of `Byte` values instead of 256: signs, overflow and byte
order behave alike. `host` is the byte order and the signedness of `char`, which
the string converter depends on. Characters that the parsers treat alike are one
symbol, such as `true`. The operators up to `Text` render the text of an entry.

Where the parser of a map looks at the top of an empty stack, which is undefined,
the model accepts or rejects.

## Runs

| Run | Shows |
|---|---|
| `executor` | Two polled slaves, one read by RPC, two writes, failing commands, silence. No poll is lost (`PollsNotLost`), writes keep order and retries (`ImplementsWriteService`), the count of writes covers the pending ones (`PendingWritesCounted`), counters stay in range (`TypeOK`), there is always a next command (`NextCommandFound`). With fairness each write is settled (`WritesSettle`), each poll is sent when writes cease (`PollsSent`), and an initial poll, during which nothing else is scheduled, ends when writes and RPC reads cease (`InitialPollEnds`). |
| `gateway` | An object with a state register and an availability register in two poll groups, under everything that can happen: read errors, long outages, commands and requests, losses of the network and the broker, interrupted initial polls. The cached flag is current (`FlagCurrent`); the broker retains the flag (`AvailabilityPublished`) and the state (`StatePublished`) whenever the link is up. When the queue is processed the object is available as its registers say if all of them were read well (`AvailableAfterReads`), unavailable if one failed too often (`UnavailableAfterErrors`), and holds the values read last (`ValuesFollowReads`), except for groups that are `silenced`, `overlaid` or `rescued`. |
| `modbus_thread` | A register polled with a delay, one of mode once, an RPC read that covers the first, a serial device that is unplugged, a broker that comes and goes. The wait before a reconnect is bounded (`ReconnectDelayBounded`), an idle thread does not sleep beyond the next poll (`NeverOversleeps`), the main thread knows the state of the network (`NetworkStateTold`). The watchdog leaves a healthy network alone (`HealthyNetworkKept`) and reconnects a dead one (`DeadNetworkReconnected`), each register is read again and again (`RegistersRead`), and the thread ends when it is stopped (`EndsAfterStop`). |
| `main_loop` | A connection that stands leads into the main loop (`EntersMainLoop`), no wakeup is lost (`MessagesProcessed`), no message is left when the networks are published as down (`QueuesDrained`), and `start()` returns after a stop request unless `shutdown()` meets a client that the library is reconnecting or a running callback (`ShutdownEnds`). |
| `rpc` | No request is answered twice (`RepliesOnce`), a pending request has its own command or message on the way (`PendingOnTheWay`), and each request with a Response Topic is answered if the modbus network is connected for good in the end, unless the link to the broker is lost (`RequestsAnswered`). |
| `queue` | The ring of blocks is a queue (`ImplementsBlockingQueue`), its threads never touch what the other owns (`BlocksHandedOver`), the asserts on success hold (`DequeueSucceeds`), a wakeup is neither lost nor left over (`WakeupsMatch`), an element is delivered (`ElementsDelivered`). |
| `configuration` | The poll specification is the union of what is declared, whatever the order of the file (`SpecificationIsUnion`); each register of an object is polled by exactly one entry, often enough, and the client finds the object under it (`RegistersServed`). |
| `converters` | A converter is set up as it is written or rejected (`ParsedAsWritten`), a published payload restores the registers (`PublishedRestores`; a map may refuse a text listed after a number and an unlisted number above `INT16_MAX`), a command that is accepted and fits reads back (`CommandReadsBack`). |

Four runs expect a violation. Each states what the documentation, a comment or
a named limit of the code says and what the code does not do.

| Run | What happens |
|---|---|
| `executor_stuck` | Two registers are queued and the first is sent. A write to a slave without polled registers comes while no command is waiting: it takes the fast path, the current queue becomes `end()`, and the write is sent. The other register is still queued, but there is neither a waiting command nor a current queue. `executeNext` does nothing until another write or RPC read arrives (`modbus_executor.cpp:146`). |
| `thread_command_only` | Without polled registers the initial poll never ends and the wait becomes negative. A reconnect that fails then waits for ever instead of trying again (`modbus_thread.cpp:279`). |
| `string_write` | On a little-endian host the string converter writes the bytes of a register in the other order than it reads them (`../stdconv/string.hpp:51`). A string of one character reads back empty. |
| `map_text` | With the map of the documentation's example, a register published as a text cannot be set with that text: a mapping to a number comes first, and `findVariant` asks the text for a number, which throws (`../stdconv/map.cpp:255`). |

### Bounds

- `MaxSilence` loses nothing (see above). The delays are 0 and 1, so a command
  can find too little silence, just enough, or more.
- `MaxWritesQueued` is 2 or 3, more than the writes of the instance: a write
  that is given up stays counted, and the count may run ahead of the queue.
- `MaxPollQueue` bounds the queue that writes push displaced polls to. With 2,
  a displaced poll may meet another one, or itself scheduled again.
- In `executor` both writes go to slave 1 and both slaves are polled. Networks
  that are written and not polled are covered by `TypeCorrect`, `WritesCounted`,
  `LastCommandAlwaysKnown` and `WriteServiceImplemented`, which hold for all
  constants, and by `executor_stuck`; `NextCommandAlwaysFound` assumes
  `WritesPolled`. The delays of the instance meet `DelaysRise`, the assumption
  of `PollsNeverLost`; what happens without it is under Known limits.
- One retry for each command gives success, retry and giving up.
  `WRITE_BATCH_SIZE` is 1 or 2, so that a share ends between two commands.
- `MaxFromModbus` bounds the queue to the main thread and is 1 in `gateway`: the
  main thread may be one message behind. Longer queues, in which the order of a
  failure and a value matters, are left to the theorems.
- `MaxReadErrors` is one above `DefaultReadErrorCount`, so that both sides of
  the threshold occur. The latter is 3 in the code, a constant of the model and 1
  in the instance.
- `gateway` has one object, retained and published on change; the commands and
  requests concern its state register. That is 1,413,805 states. The theorems
  hold for any number of objects, all publish and poll modes, and commands and
  requests to any register. (With requests to the availability register the
  properties hold as well, over 7,869,727 states, too many for a regular run.)
- The two groups are far apart. `FailsWith` has the `abs()` of
  `mqttobject.cpp:59`, which matters for adjacent groups; the instance has none.
- In `modbus_thread` periods are 1 and 2, the watch period 1, adjusted to 2,
  the reconnect delay 2 and 4 with a maximum of 3: a delay can be below and
  above the limit. The passing instance has no writes. `MaxLate` bounds how long a poll time has passed; it
  is 3 in `thread_command_only`, longer than `ReconnectStep`. `MaxToModbus` is 1:
  messages are dispatched one after another until none is left, and while one is
  dispatched the next may arrive.
- In `queue` there are blocks of 2 and 4 slots, three at most, and 6 elements:
  blocks are reused, linked in and refused.
- In `rpc` three requests and `MaxRpcId` 2 make ids wrap. `RequestAccepted`
  assumes that fewer than `MaxRpcId` requests arrive during one command; the
  program has 2^31. `MaxStates` 2 lets the link be lost and come back before the
  modbus thread has heard of either.
- In `main_loop`, `MaxMessages` is the number of messages of the modbus thread
  before the queue is found empty again: the bound assumes that a modbus command
  takes longer than the processing of its message.
- `configuration` has ten entries, among them overlapping and nested ranges,
  a range that joins two others, hexadecimal and decimal registers, two networks,
  a reversed range of addresses, a decimal register 0, a topic that is the same
  for two networks and a register in a network nobody declared. Every selection in every order is read.
- `converters` has bytes of four values, so that a register has 16 and two
  registers have 256; all register values are tried, and all numbers from the
  least of two signed registers to one above the greatest of two unsigned. Maps have one or two mappings.

Deadlock is checked in `executor` and `gateway`. In the other
runs the system really ends: the thread or the program is stopped, the requests
or the elements of the instance are used up, the file is read, the value is
converted; or the executor stalls, which is the finding of `executor_stuck`.

### Fairness

- `ModbusExecutor`: weak fairness of `ExecuteNext` and of `Tick`.
  `ModbusThread::run` calls `executeNext` in every turn of its loop while the
  network is connected and `allDone()` is false, waiting at most for the silence
  that `executeNext` asks for; time passes. Nothing is assumed about polls,
  reads, writes or whether commands succeed. `PollsSent` assumes that writes
  cease: the code says itself (`modbus_executor.cpp:139`) that writes in step
  with the bus starve the polls. `InitialPollEnds` assumes that RPC reads cease
  too, because the initial poll is over only when no read is pending either.
- `ModbusThread`: the thread runs (weak), time passes between its waits
  (strong), and the executor reaches each queued poll (strong), which is
  `PollsSent`. Nothing is assumed about connects, messages and success.
- `MainLoop`: the main thread runs; the modbus thread notifies after it has
  enqueued, and ends after `EndWorkMessage`, which is `EndsAfterStop`; the
  library goes on with its callbacks but need never establish a connection.
- `Rpc`: the threads run, a lost link is reported, and each command is executed
  when its turn comes (`WritesSettle`, `PollsSent`), which is fairness of an
  action that is enabled only while both networks are there. Nothing brings the
  modbus network or the broker back: `RequestsAnswered` has `<>[]mConnected` as a
  premise, and a request that a lost link has cut off counts as settled.
- `ReaderWriterQueue`: a call under way goes on, and the consumer calls
  `wait_dequeue_timed` again. The producer need not enqueue.

## Proofs

TLAPS checks these for every set of slaves, commands, objects and registers,
every delay, retry count, converter and bound that meets the assumptions of the
modules (`CommandAssumption`, `ExecutorAssumption`, `RegisterAssumption`,
`ObjectAssumption` and the like; TLC evaluates each of them in the runs). Where
a theorem needs more of the configuration, it says so with ASSUME, and the table
says why the code needs it. All theorems are about the specifications the runs
check.

| Theorem | Property | Assumes |
|---|---|---|
| `TypeCorrect`, `WritesCounted` | `TypeOK`, `PendingWritesCounted` of the executor | |
| `LastCommandAlwaysKnown` | `LastCommandKnown`: `run` finds the last command when it dereferences it after an `executeNext` that sent nothing, which happens where slaves are only written. No passing run has such a network. | |
| `WriteServiceImplemented` | `ImplementsWriteService` | |
| `NextCommandAlwaysFound` | `NextCommandFound` | `WritesPolled`: a written slave is also polled. `executor_stuck` lacks it. |
| `PollsNeverLost` | `PollsNotLost` | `DelaysRise`: no register has a shorter delay than one of an earlier slave, unless it has none. Otherwise the election drops a register. |
| `FlagAlwaysCurrent`, `FlagsAlwaysPublished`, `StatesAlwaysPublished` | `FlagCurrent`, `AvailabilityPublished`, `StatePublished` | |
| `GatewayTypeAlwaysOK` | `TypeOK` of the gateway | some group is polled |
| `ValuesAlwaysFollowReads`, `UnavailableAlwaysAfterErrors`, `AvailableAlwaysAfterReads` | `ValuesFollowReads`, `UnavailableAfterErrors`, `AvailableAfterReads` | some group is polled |
| `NetworkStateAlwaysTold`, `ThreadTypeAlwaysOK`, `ThreadNeverOversleeps` | `NetworkStateTold`, `TypeOK` of the thread, `NeverOversleeps` | |
| `ReconnectDelayAlwaysBounded` | `ReconnectDelayBounded` | some register is polled. `thread_command_only` lacks it. |
| `HealthyNetworkAlwaysKept` | `HealthyNetworkKept` | `PollingFeedsWatchdog`: some register that is not of mode once is polled at least once in a watch period, and no command waits longer than that |
| `QueuesAlwaysDrained` | `QueuesDrained` | |
| `RepliesAlwaysOnce`, `PendingAlwaysOnTheWay` | `RepliesOnce`, `PendingOnTheWay` | |
| `RingDequeueSucceeds`, `RingWakeupsMatch`, `RingBlocksHandedOver`, `RingIsBlockingQueue` | `DequeueSucceeds`, `WakeupsMatch`, `BlocksHandedOver`, `ImplementsBlockingQueue` | |
| `DequeueSucceedsHolds`, `AtMostOneWaiterHolds`, `WakeupsMatchHolds` | the same of the abstract queue | |
| `SpecificationAlwaysUnion`, `RegistersAlwaysServed` | `SpecificationIsUnion`, `RegistersServed` | |

What the modules assume and a reader should know: a write is not also a poll or
a read; the queue has room for one element at least (with a size of 0 the first
block would have a single slot, and an element stored in a block of one slot
that is used again would be lost); an entry of the configuration has its types
and a count of at least 1, which the program does not check; the default refresh
time is not 0; a poll time may be found to have passed by one unit
(`MaxLate` at least 1).

`ModbusExecutorProofs`. The inductive invariant `IInv` adds three facts to
`TypeOK` and `PendingWritesCounted`. Commands are queued only for slaves with an
entry in the map (`QueuesMapped`), so that `executeNext` selects an entry of it.
A pending write is in one place (`WritesApart`), or removing it would change the
number of pending writes by more or less than one. Before the first command
there is a current queue or a waiting command whenever there is work
(`StartsIdle`), which makes the last command known. `NextCommandAlwaysFound`
needs further that each polled slave has an entry (`PolledMapped`) and that a
queue is selected while there is work (`QueueSelected`). `PollsNeverLost` rests
on `OneElected`: with `DelaysRise` no later slave replaces the register that the
election of `addPollList` has popped, so that what leaves the queues is what
waits to be sent. `WriteServiceImplemented` shows that each step is a step of
the write service or a stutter. The fact behind it is `RetriesSplit`: the tries
of the waiting write and the retries left to it add up to its retries, and no
queued write is the command sent last, so that `sendCommand` sets its counters
up anew. The polls lack that fact: see the retries under Known limits.

`GatewayProofs`. For what is published the strengthening is `Remembered`: the
payload that `publishState` compares with is the current one for each available
object with a retained topic that is not in mode once, also while the link is
down. Without it a change back to an older payload might go unpublished. For the
path from the registers to the objects, the properties speak only of an empty
queue; the invariants `ValuesInv`, `ErrorsInv` and `ReadsInv` say for any queue
what its last message about a leaf will say, or, if there is none, what the leaf
holds. Which messages are about the leaves of a group is `ValuesFor` and
`FailuresFor`, by the same `Reached` that the history variables use: a message
that does not come from the group's own poll puts the group into `overlaid` or
`silenced`, for which the invariant promises nothing, and the group's own message
takes it out again. Sending makes a message the last one; receiving takes the
first; the two lemmas `SendLast` and `ReceiveFirst` are all that the order of the
queue is needed for, and `LeafUpdated` is what a message does to a leaf.
`FreshInv` ties the groups read without error to the values that the poll compares
with, and has the groups that an interrupted initial poll does not come back to
among the silenced ones.

`ModbusThreadProofs`. `NetworkStateAlwaysTold`: a connection has always been
told, and the thread leaves the first part of its loop for its work only with a
connection. `ThreadNeverOversleeps` needs `SleepInv`: the time of the next poll
is never after the time at which a register is due, unless its poll is pending
(`PollTimes`). `ReconnectDelayAlwaysBounded` needs that an initial poll has polls
pending that will end it (`InitialPollEnds`), or the wait becomes negative.
`HealthyNetworkAlwaysKept` adds how the age of the last command relates to the
reads (`WatchTimes`) and that the watch period is not adjusted below what polling
needs (`WatchPeriods`). The last three rest on the order of the messages at the
start (`SpecFirst`): nothing is polled or executed before the specification
has arrived.

`ReaderWriterQueueInvariant` and `ReaderWriterQueueProofs`. The invariant
`QueueInv(rank, first)` has two witnesses: the number of links from the front
block to each block, and the number of the element in the front slot of each
block. It says that the blocks from front to tail hold the numbers sent and not
delivered, in order, whatever each thread has cached of the other's indices; the
producer's steps are in the first module, the consumer's in the second. `SemaInv`
says what the count of the semaphore is in each place of the two threads: the
elements that are stored, less one for a consumer that waits, one for a consumer
that was let through and has not dequeued, and one for an element that is not
signalled yet. `ContentsIs` computes the recursive definition of `Contents` from
the invariant, and `RingIsBlockingQueue` follows step by step.

`RpcProofs`. `RepliesAlwaysOnce` needs `PendingUnanswered`: a request in the
pending map has no reply, and no two ids stand for one request. With it the
erasure before the reply is what makes a second reply impossible.
`PendingAlwaysOnTheWay` needs `IdsFollowRequests`: no more ids were given out
since a command's id than requests were received since its request, so that ids
that wrap do not meet a command that is still on its way. Fewer than `MaxRpcId`
requests arrive during one command (`RequestAccepted`, see Bounds).

`MainLoopProofs`. Once the thread is joined it has ended, so that the queue can
only become shorter.

`ConfigurationProofs`. `Union(spec, polls)` says that no two entries of a
specification meet, that each declared poll lies in one, and that each entry is
joined of the polls inside it, with the shortest of their periods and the
strongest of their modes. Most of the module shows that one call of `merge`
takes a union of `polls` to a union of `polls` and one more: the loop of `merge`
is followed entry by entry, and a poll that joins two entries is where the
argument is. `IInv` then says that the specifications of the objects
(`AllUnions`) and of the poll groups (`ApartInv`) are unions of what has been
declared, and `DoneInv` that this holds for the two merged at the end and that
their entries lead to the objects. `RegistersAlwaysServed` follows: the entry
that holds a node's poll is unique and its period is no longer than the node's.

The merge loops, `Contents` and the concatenations are recursive functions. The
library's induction theorems take an operator and cannot be used here; the proofs
use induction on a set instead (`UpTo`, from well-foundedness of the naturals)
and show that a function defined by a first value and a step exists
(`RecursionExists`), after which such a definition can be unfolded.

Only model-checked:

- liveness, which is beyond the prover: `WritesSettle`, `PollsSent`,
  `InitialPollEnds`, `DeadNetworkReconnected`, `RegistersRead`, `EndsAfterStop`, `EntersMainLoop`,
  `MessagesProcessed`, `ShutdownEnds`, `RequestsAnswered`, `ElementsDelivered`;
- `ParsedAsWritten`, `PublishedRestores` and `CommandReadsBack` of the
  converters. An invariant for the first would say what every prefix of every
  rendered entry parses to, its numbers included, which are read with a fold
  that the prover cannot unfold. The other two are division and remainder by
  products of constants, nonlinear arithmetic that the provers do not decide.

## Known limits of the code

Facts met while modelling; the findings of the violation runs come on top of them.
Where a property is said to fail, TLC found it violated with the change that is
named; the others were read from the code.

- A write that is given up stays counted, so the fast path for writes is not
  taken again (`modbus_executor.cpp:378`). In `executor` the count is above 0
  with no write pending.
- A register that used up its retries and is the next command again gets none
  (`modbus_executor.cpp:348`).
- The election drops a register that it popped when a slave later in the map
  has a register whose delay fits better (`modbus_executor.cpp:94`).
  In `executor`, `PollsNotLost` fails with delays 2 on slave 1 and 1 on slave 2,
  and with delay 2 and a delay of 1 before the first command on both; it holds
  with 1 and 2, and with 1 and a delay of 2 before the first command on both.
  `PollsNeverLost` states the condition.
- After a failed command polled objects stay unavailable until a value changes
  (`modmqtt.cpp:1000`); a connection lost in the middle of the initial poll has
  the same effect (`modbus_thread.cpp:253`), and so has an outage of more than
  five minutes, because the reset of the error count for the log also clears the
  reason to send the next good read (`modbus_executor.cpp:226`).
  These are the groups in `silenced`. `AvailableAfterReads` fails in `gateway`
  when any one of the three does not put its groups there.
- The values of a command or an RPC read replace those of a poll that keeps
  sending nothing, because what it reads has not changed: a value that changes and
  changes back is lost (`modbus_executor.cpp:178`). These are the groups in
  `overlaid` and `rescued`: without them `ValuesFollowReads` and
  `UnavailableAfterErrors` fail in `gateway`, and so does `AvailableAfterReads`
  once commands write the availability register.
- In mode `once` a value published while the broker is away is not published
  again (`mqttclient.cpp:214`); `StatePublished` leaves that mode out.
- While the broker is away nothing is polled and the watchdog reconnects an
  idle network (`modbus_watchdog.cpp:59`).
- An RPC request to a network that is down waits for it and is not answered
  before (`modbus_thread.cpp:259`): `RequestsAnswered` fails without its premise.
- RPC reads that never cease keep an initial poll going
  (`modbus_executor.cpp:330`): `InitialPollEnds` fails in `executor` with a second
  read and without the premise about reads.
- An RPC write whose first try fails is answered with an error, although a retry
  may succeed (`modbus_executor.cpp:263`).
- `shutdown()` that meets a client whose state is still CONNECTED while the
  library reconnects, or while a callback runs, may wait for a notification that
  never comes (`modmqtt.cpp:962`): `ShutdownEnds` fails without `unsettled`. In
  state CONNECTING it does not wait. A notification left over from a modbus
  thread may end the wait before the disconnect.
- A map publishes a register that it does not list as an unsigned number and
  refuses that number as a command above `INT16_MAX` (`../stdconv/map.hpp:34`).
- In a map a space between a number and the comma joins the mapping with the
  next one, and a number at the end of a list without braces is dropped
  (`../stdconv/map.cpp:98`).
- An `int32` command writes one register unless the count is two, and `int16`
  writes its value to every register (`../libmodmqttconv/convtools.hpp:64`,
  `../stdconv/int16.hpp`).
- `getInt` cuts a number to 32 bits without a check
  (`../libmodmqttconv/mqttvalue.hpp:142`); `CommandReadsBack` is about numbers
  that are not cut.
- A register below a failed range counts as failed, because the distance is taken
  with `abs()` (`mqttobject.cpp:59`); the groups of the instances are far apart.
- An RPC read defers every poll it covers (`modbus_scheduler.cpp:104`), also
  polls whose objects it does not update; `RegistersRead` counts the deferral as
  a read.
- A converter that gives an empty text makes an empty RPC reply
  (`mqttclient.cpp:634`).
- A register may name a network that is not configured (`modmqtt.cpp:884`); its
  object never becomes available, and `RegistersServed` is about the others. A
  retry count of 0 set for a slave is taken for not set (`register_poll.cpp:9`).
- `signal_handler` locks `gQueueMutex` (`modmqtt.cpp:35`): a signal handled by a
  thread that holds it waits for itself. A signal is a step of its own in
  `MainLoop`.

## Not modelled

- Data races on objects and containers that two threads use without a lock: the
  objects (`publishAll` against the main thread), the pending map, the list of
  modbus clients, and the second producer of `mToModbusQueue` at shutdown. What
  the build makes of them cannot be told from the code; handlers are atomic.
- Exceptions from publishing, and those that end a modbus thread
  (`modbus_thread.cpp:340`): the code has no recovery to check.
- `int8`, `bit` and `bitmask` (one expression each, only for reading), scaling
  and floating point converters and the expression library (floating point is
  out of TLC's reach).
- The YAML text, the regular expressions, serial and broker settings, delays and
  retries of the configuration: input with no state beyond the value read.
- Weak memory in the lock-free queue: TLC interleaves steps in one order.
- libmodbus and mosquitto, except for what the code relies on.
- Daemon start, logging and plugin loading: input and output only.
