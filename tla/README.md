# f007th-rpi: TLA+ models, checks and proofs

The program receives the pulses of 433 MHz weather sensors on a GPIO pin,
decodes them, keeps the latest readings and their history, sends them to a
server, answers HTTP requests, and applies rules that publish MQTT messages or
run commands. This directory models the parts of it that run concurrently or
keep state over many steps. Paths are relative to the repository.

## 1. Inventory

### Data flow

    GPIO edges ──handleInterrupt──► pool + descriptors ──createNewMessage──► decoders
       (or kernel driver ──readSequences──►)                                    │
    1-wire files ──pollW1──────────────────────────────► message queue ◄────────┘
                                                              │ waitForMessage
                                                          main loop
                               ┌─────────────┬────────────────┼──────────────┐
                          SensorsData     upload (curl)     rules ──► MQTT, commands
                               ▲
                          HTTP server threads

### Components

| Component | Where | State | Operations | What makes it correct |
|---|---|---|---|---|
| Interrupt handler, sequence buffers | `Receiver.cpp` 628-776, 1034-1075 | `pool`, ring of descriptors, indices, noise filter | `handleInterrupt` (interrupt thread), `createNewMessage` (decoder thread), no lock | no cell is overwritten while it is read; sequences arrive complete and in order; intervals are within limits and alternate in level |
| gpio-ts reader | `Receiver.cpp` 515-624, 802-854 | the same buffers, one thread | `readSequences`, `decoder` | no interval of a batch is lost; the pool is not used up |
| Decoders | `protocols/`, `utils/Bits.hpp` | none between messages | `decode`, getters, `equals`, `update`, `adjustLimits` | what is accepted was sent, what was sent is accepted; `update` reports what has changed |
| Message queue | `Receiver.cpp` 845-850, 931-1020, 1081-1118 | linked list, `timerEvent` | append by decoder and pollster, `waitForMessage`, `raiseTimerEvent` | FIFO, no loss, no lost wakeup, memory has one owner |
| Life cycle | `Receiver.cpp` 24-377, 863-909; `f007th_send.cpp` | `stopped`, `stopDecoder`, `isEnabled`, ..., chain of receivers | `enableReceive`, `stop`, `close`, `closeAll`, signal handlers | stop ends the program; nothing is used before it is initialised |
| Sensor store | `SensorsData.hpp` 768-1002 | `items` sorted by definition, the stored readings | `add`, `find`, `update` | each sensor once, in the order of the configuration; a new sensor is added; the last reading is stored |
| History | `SensorsData.hpp` 478-631 | list of records, `first`, `last`, `count` | `add`, `truncate`, `get` | linked, ordered, current; a request gets its range |
| Rules and schedules | `SensorsData.hpp` 60-280, 710-750, `Config.cpp` 1137-1531, `ConfigParser.cpp` 657-721 | `isLocked`, `selfLocks`, lock lists, schedules | `checkRule`, `checkBounds`, `execute`, `applyLocks` | what is published follows the readings; the named rules are locked; bounds change when the schedule says |
| MQTT publisher | `utils/MQTT.hpp`, `MQTT.cpp` | `connected`, `instance` | `create`, `start`, `stop`, `destroy`, `publish`, callbacks | the flag follows the connection; it can be taken down |
| HTTP server | `utils/HTTPD.cpp` | the daemon, lazily made error responses | one thread per connection | reads a consistent snapshot |
| Main loop, upload | `f007th_send.cpp` | the current message | receive, update, upload, rules | the server has the last valid reading |
| Configuration | `Config.cpp`, `ConfigParser.cpp` | definitions, options | one handler per command | definitions are unambiguous, limits do not shut a protocol out |
| Formats, logger, utilities | `SensorsData.cpp`, `utils/` | none that others rely on | formatting | not modelled |

### What is hard here

* The handler and the decoder share two rings without a lock. `createNewMessage`
  gives the descriptor back before it copies the intervals.
* The handler returns from the middle of a sequence when no descriptor is free
  and continues that sequence with the next edge.
* The noise filter spreads one decision over several interrupts.
* `lastMessagePtr` points into the list, so the one who pops and the ones who
  append touch the same link.
* `stopped`, `timerEvent` and the like are written without the lock of the wait.
* The signal handler calls `stop` on the thread it interrupts.
* The pollster waits with a mutex that it never locks or unlocks itself, and
  `stop` locks it.
* `SensorsData::update` is several critical sections; requests come in between.
* A rule that locks itself relies on a message sent long before, which may have
  been dropped; its bounds change with the time of the day in between.
* A decoder makes several attempts on one sequence and one buffer; what a failed
  attempt leaves behind is there in the next one.
* TX7U sends temperature and humidity in messages of their own: what is stored
  is put together from several.
* A signal, a failing read or a broken connection may come at every step of the
  start and of the end of the program.

`PROJECT.json` lists every hazard at its line, with the properties that cover it.

## 2. Modules

| Module | Models | Run with |
|---|---|---|
| `SequenceChannel` | abstract: what the two rings promise, a FIFO of sequences | as a property |
| `SequencePool` | handler, noise filter, both rings, `createNewMessage` | `MCSequencePool`: `pool`, `noise_filter` |
| `GpioTsReader` | `decoder`, `readSequences`, `createNewMessage` of the gpio-ts build | `MCGpioTsReader`: `gpio_ts` |
| `MessageChannel` | abstract: what the message queue promises | as a property |
| `MessageQueue` | producers, queue, main loop, timer, `stop`, signal | `MCMessageQueue`: `message_queue`, `signal_handler`, `pollster_lock` |
| `Bits` | operators: bit fields, parities, checksums, the bit buffer | through `Reception` |
| `Protocol` | operators: pulse width, pulse position and Manchester decoding, the limits of the receiver | through `Reception` |
| `Decoders` | operators: `decode` of every protocol, with its attempts and checks | through `Reception` |
| `Readings` | operators: identifiers, getters, `equals` and `update` of every protocol | through `Reception` |
| `Sensors` | operators: the sensors and what reception does to their pulses (external) | through `Reception` |
| `Reception` | decoder thread, main loop, stored data, upload, composed of the five above | `MCReception`: `reception`, `repetition` |
| `History` | operators for `History::add`, `truncate`, `get` | through `SensorsData` |
| `SensorsData` | `update` by the main loop, requests of the HTTP server | `MCSensorsData`: `sensors`, `capacity` |
| `Schedule` | operators: `compileBoundSchedule`, `checkBounds` | through `Rules` |
| `Rules` | lock lists from the configuration, the rules in the main loop, the connection, the clock | `MCRules`: `rules` |
| `Lifecycle` | start and end of the program: main, signals, decoder, pollster, publisher | `MCLifecycle`: `lifecycle` |
| `SequencePoolProofs`, `GpioTsReaderProofs`, `MessageQueueProofs`, `SensorsDataProofs`, `ReceptionProofs`, `RulesProofs`, `LifecycleProofs` | the proofs | TLAPS |
| `DataLemmas` | lemmas: the least and the greatest element of a set of numbers; numbers as strings of bits, and the fields in them | the proofs |

`Protocol` extends `Bits`, `Decoders` and `Readings` extend `Protocol`,
`Sensors` extends `Readings`, and `Reception` extends them all. `SensorsData`
extends `History`, `Rules` extends `Schedule`; `SequencePool` and `MessageQueue`
instantiate their channels. Operators whose names end in `Mutant` are no part of
a specification: each is a plausible mistake in one definition, and the named
property must fail with it.

### How they correspond to the code

**SequencePool.** Variables have the names of the members. `HandleInterrupt` is
the handler up to the label `end_of_sequence` and its drop branch, one disjunct
for each way through it; `FillDescriptor` and `PublishSequence` are the rest,
cut where `iSequenceWrite` becomes visible, and `SequencePoolOverflow` is its
early return. The decoder is four actions, since each of them reads or writes
what the handler looks at. Time is the interval since the previous edge, an
input, and `goodAge`, the time since `nLastGoodTime`; it saturates above
`MAX_PERIOD`, and the filter's counter above its limit keeps only its parity.
Memory is sequentially consistent. `volatile` does not give that on ARM, so the
results say that the algorithm is right, not that the compiled program orders
its accesses.

**GpioTsReader.** An item of the driver is its status. `EndOfSequence` is the
code from "End of sequence" on with its three outcomes. The driver is external:
any statuses in any batch, failures and timeouts at any time.

**MessageQueue.** `lastMessagePtr` is the message whose `next` it points to, or
`FIRST` for `&firstMessage`. The sections of `messageQueueLock` are cut into their
assignments; `Broadcast` moves the main thread from the wait to the lock.
`pollsterLock` is a variable of its own: `pthread_cond_timedwait` (`TimedWait`) is
called without it in the first round, which has no defined outcome, so that it may
unlock the mutex of whoever has it or fail; it returns with the mutex (`Wake`),
and the pollster keeps it while it polls and when its thread ends (`EndThread`).
`stop` locks it (`LockPollster`) before it notifies the main loop. The signal
handler is a thread that stops the main one (`MainAt`). That is the gpio-ts build,
where the signal handler calls `closeAll` and returns; the pigpio build exits in
its handler. Allocation does not fail; `Messages` bounds the memory.

**SensorsData.** The sensors are DS18B20, whose `update` is the simplest:
`UpdateSame` and `UpdateChanged` are its two branches that change something.
`update` is cut between its critical sections. HTTP requests are
`FindByDefinition` and `GetHistory`, which deletes what is too old. What a request
without `from` gets is looked at by `LatestIsCopied` in every state and for every
`to`; with `from` the code returns the wrong records (finding 10), and no property
is about it. The clock never goes back. `truncate` and `add` are two critical
sections in the code and one step here (`TruncateHist`): between them a request
could only delete what `truncate` has left, which it may do after the step, too.

**Reception.** A message is a record with the protocol, its data as bits, the
variant (`u32.hi` or the file of a DS18B20) and the low byte of its decoding
status. A waveform is made once per reading and kind of disturbance, and decoded
by the operators of `Decoders` in the order of the protocols' indices; `Heard`
keeps of it what the properties look at. Each protocol class is one operator
(`ClassF007TH` and so on) whose CASE has its methods: identifier, fields, getters,
features, and the words that `update` compares. `Receive`, `HandleValid`,
`HandleCorrupted` and `HandleUndecoded` are the decoder thread and the three ways
through the main loop. An upload may fail and is not tried again, as in the code.
`HandleCorrupted` sends what a decoder has left in a message in spite of a failed
check: under the identifier of the sensor where the protocol is set, which is so
when the second copy of a 00592TXR is good after the first has failed
(`AcuRite00592TXR.cpp` 173-184, 302-306) and for an F007TH message without its
hash (`AmbientWeatherF007TH.cpp` 193, 226-230), and as UNKNOWN where it is not.
The server's data has a field `unchecked` for the values that came last in such a
message. All that the server has is told in degrees Celsius. `LONG_BITS` is the
width of `long`, on which the Fahrenheit value of TFA303049 depends
(`ConvertedTFA303049`). Left out, because nothing looks at them: the special
values that TX7U has for a reading that is missing, and that `copyFields` gives
data of a type it does not know no time of its own. One message is on its way at a
time; how many are queued is the subject of `MessageQueue`.

**Schedule, Rules.** `arguments` are fixed in the initial state, every combination
the run allows. `LockList` and `Locks` are what the commands make of them. A turn
of a rule is `SkipRule` or `ApplyRule`; `TimePasses` may come between two of them,
since every rule reads the clock for itself. A schedule is a sequence whose first
item is the one `firstScheduleItem` points to; one item stands for
`RuleBoundFixed`. All rules are about the temperature. `Message` is a message for
which `update` reports a change of the temperature. `published` is the last
message of a rule that the program handed to a connected publisher, or the last
command that was run; `fork` may fail.

**Lifecycle.** The gpio-ts build with its one receiver. Every thread has a label,
and `stop` is one procedure of two threads: that of the decoder, and the main one
while it handles SIGINT (`CanRun`). It is cut at every flag that the other may
look at, so that both may be in it at once (`Disable` has the reads and writes of
`pause`, which nothing comes between that matters). `pollsterLock` and the
pollster's waiting are as in `MessageQueue`. `initialized` is what a thread may
use; the flags that `stop` relies on are variables of their own. Options that only
decide whether a part is started (the pollster, the publisher, the statistics) are
choices at that step. `stopMessageReader` and the wait of the main loop are left
to `MessageQueue`, whose `StopEndsMainLoop` is what allows `LeaveLoop` to be one
step here. `link` is the connection as libmosquitto sees it; its thread reports
with `OnConnect` and `OnDisconnect`, and `loop_stop` without `force` waits until
the thread ends, which it does after `disconnect` only (`JoinNetwork`).

## 3. Runs

| Run | Instance | Shows |
|---|---|---|
| `pool` | 8 cells, 3 descriptors, sequences of 2 or 3 intervals | `RegionsInOrder`, and the rings implement `SequenceChannel`. With 8 cells both the pool and the descriptors fill up, and every sequence position wraps around |
| `noise_filter` | 6 cells, 2 spikes in a row, intervals that are a spike, short, good and far too long | `IntervalsWithinLimits`, `LevelsAlternate`, `NoOverflow` |
| `gpio_ts` | 9 cells, 2 descriptors, batches up to 4, sequences up to 4; configurations where the descriptors suffice and where they do not | `NothingLost`, `AllFreeWhenTaken` |
| `message_queue` | 2 messages, lists up to 2, one timer event, stop by the decoder and by a signal | the queue implements `MessageChannel`, `MemoryIsOwned`; `QueuedIsReceived` and `StopEndsMainLoop` under fairness |
| `signal_handler` | 1 message, signals at any time | **violated**: `StopEndsMainLoop` |
| `pollster_lock` | 1 message | **violated**: `StopNotifiesMainLoop` |
| `reception` | 10 models of sensors alone, 3 pairs of neighbours and a pair of twins, 1 to 3 readings each, 8 kinds of disturbance, 4 configurations, uploads that fail | nothing is accepted that was not sent and nothing refused that was (`AcceptedIsSent`, `SentIsReceived`, `LimitsAdmitAll`); items are sensors (`ItemsAreSensors`, `EqualsIsIdentity`); store and server have the last valid reading (`LatestIsStored`, `ServerIsCurrent`, `ReportedInTime`) |
| `repetition` | the same | **violated**: `RepetitionIsUsed` |
| `sensors` | 3 sensors, one without a definition, 2 values, times 1 to 3, depth 1 | order of the items, the history's links, contents and counter |
| `capacity` | the same, capacity 2 | **violated**: `NewObjectIsAdded` |
| `rules` | 2 rules of 2 sensors that may lock each other and themselves, fixed bounds and 4 schedules, 3 temperatures, a day of 3 times | `PublishedFollowsReading`, `LocksFollowSimpleArguments`, `BoundsSwitchOnTime` |
| `lifecycle` | one receiver, 2 signals, a read, a connection and a start that may fail at any step | `UsedIsInitialized`, `FlagFollowsLink`, `StopEndsProgram` |

**Bounds.** Rings: the smallest sizes with several sequences queued, one copied
and one recorded at once, and a wrap inside a sequence; the proofs cover the other
sizes. `MAX_PERIOD`, `SkipLimit` and the durations keep the order of the real
constants. `MAX_DEVICES` 2 is the shortest list with an inner link; 2 messages
are a list of the pollster, or one of each producer, in memory that is used again
and again; what a third one adds, a list behind one of two, is left to the theorems,
which are about any number. `QueuedIsReceived` looks at one message, as they are
interchangeable. `MAX_TICKS` bounds timer
events: a second one finds the program as the first did. `MAX_TIME` 3 with depth 1
has records that are young, at the limit and outdated, and `MAX_RECORDS` 3 keeps
histories as long as that.

`reception` has the real durations, lengths and fields of all protocols. Times are
0, 30 and 60 seconds, with `max_unchanged_gap` 0 (off) and 30, so that a repeated
reading comes at once, at the limit and after it. Disturbed messages are received
at time 0 only (`NOISE_END`): a decoder keeps nothing from one message to the next,
so they cannot meet another state there. The flipped bits are one in the
identifier, one in the temperature and one near the end. The readings are one
value, the same with another humidity, and a negative one (a low one for WH2 and
FT007TH, which do not see a minus) with a low battery. Twins are a WH2 and an FT007TH
with the same rolling code. `LONG_BITS` is 64, the case in which the exception of
`LatestIsStored` is needed; with 32 it is not. All protocols are enabled, so that
`LimitsAdmitAll` says nothing of a subset of them. The sensors do not vary the bits
that only one of `getId` and `equals` reads; `IdentityIsEquality` is about those.

`DAY` is 3, which is the smallest day with a time before, between and after the two
of a schedule. `BoundsSwitchOnTime` is about two items: with three the search in
the ring ends too early or too late (its comment says where), and no text of the
repository says what was meant.

`MAX_SIGNALS` 2 is a SIGINT with another one or a SIGUSR1, also one within the
other; a third SIGINT finds an empty chain as the second did. Two signals are
left out, both on the thread that holds the mutex they need: the one that meets
`messageQueueLock` (`SignalAnywhere`, see the run `signal_handler`) and the SIGUSR1
that meets `receivers_chain_mutex` (`StatisticsAnywhere`; with TRUE
`StopEndsProgram` fails). SIGINT within the handler of SIGUSR1 is left out, too.

Where a run may stop (receiver stopped, program ended, time at its bound) its cfg
says so.

**Fairness** (`MessageQueue`, `Lifecycle`). Every thread continues what it has begun
(weak fairness of its steps): the scheduler of the system gives every thread its
time. A thread that waits for `messageQueueLock` gets it in the end (strong fairness
of the locking steps, but for the timer's, which nothing waits for), as others take
and release it over and over and its critical sections are short. Of `pollsterLock`
and `receivers_chain_mutex` it is enough that a mutex is got when it stays free: the
pollster is told to stop before `stop` locks the first, and signals, which alone
take the second again, are bounded. The pollster's turns are fair, as `pollW1` ends
and the waiting does, after 15 s. In `Lifecycle` libmosquitto calls back and ends its
thread once it was told to disconnect. Producing a message, a tick, a signal, a
spurious wakeup of the main loop, a failing read, and losing or making a connection
are not fair.

## 4. Findings

Shown by a run that must be violated:

1. **SIGINT in the main thread** (`Receiver.cpp:363`): when the signal arrives
   while `waitForMessage` holds the lock, `stop` waits for its own thread.
2. **Full store** (`SensorsData.hpp:817`): the result of `realloc` is tested the
   wrong way round; the 33rd sensor is not added and `update` uses NULL.
3. **Second copies** (`AcuRite00592TXR.cpp:175`, `Bits.hpp:38`): a message whose
   first copy has a wrong bit is lost although its second copy is right, because
   the status, or the bits, of the first attempt stay. Of a 00592TXR it goes to a
   REST server all the same (finding 14).
4. **The pollster's mutex** (`Receiver.cpp:345`): `pthread_cond_timedwait` returns
   with `pollsterLock`, and the thread ends with it at line 890 or 899. When it sees
   `stopPollster` (set at 343) before `stop` has come to line 345, `stop` waits for
   ever, before it has set `stopMessageReader` or notified anyone. This is the
   exception `PollsterLockLost` of `StopEndsMainLoop` and `StopEndsProgram`.

Modelled, and named by a property as its exception, without which it is violated:

5. **Rule locks** (`Config.cpp:1336`, `1451`, `1480`): `lock_in` is stored for
   the lower bound, and an unlock list replaces the lock list. The property
   `LocksFollowSimpleArguments` is about the arguments without either.
6. **The publisher's thread** (`utils/MQTT.hpp:104`): `force` is ignored, and a
   connection that breaks between two checks of `connected` makes `loop_stop` wait
   for ever, the exception `LoopStopHangs` of `StopEndsProgram`.
7. **Twins** (`WH2.cpp:91`): `equals` compares the rolling code only, while `getId`
   (line 56) tells a WH2 from an FT007TH. Two such sensors with the same code are
   one item, which takes the readings of both, has the name of the one heard first
   and the identifier of the last reading. `Singles` are the other sensors.
8. **Fahrenheit below zero** (`TFATwinPlus.cpp:90`): the sign is extended with an
   unsigned literal of 32 bits. With a `long` of 64 bits (x86_64 and aarch64 of
   `build.sh`) a negative temperature becomes one near 2^32, and its Fahrenheit value
   an `int` far below absolute zero: the exception `FahrenheitIsWrong` of
   `LatestIsStored`. With 32 bits it is right.

Met while modelling, and part of the models:

9. `Receiver.cpp:728`: the test for a skipped interruption is dead code, since
   `oldLevel` is read again after `lastLevel` was assigned. With
   `MissedInterrupts = TRUE` `LevelsAlternate` fails; both runs have FALSE.
10. `SensorsData.hpp:565`: a request with `from` gets the records before it.
11. `SensorsData.hpp:153`: a schedule of three items (as in the sample
    configuration) has the wrong one in force for a part of the day.
12. `utils/HTTPD.cpp:613`: `start` returns its object also when the daemon has not
    started, so that main's test for NULL never fires.
13. `Receiver.cpp:321`: `disableReceive` looks at a new local variable `fd`, so
    that the descriptor is never closed; `Receiver.cpp:908`: the pollster clears
    the decoder's flag. Neither does harm before the program exits.
14. `f007th_send.cpp:159`: without `changes_only` a message that has failed a check
    is sent to a REST server, without being stored. It is sent as sensor UNKNOWN, or
    under the identifier of its sensor when its protocol is set: a 00592TXR whose
    second copy is good (`AcuRite00592TXR.cpp` 173-184, 302-306) and an F007TH
    without its hash (`AmbientWeatherF007TH.cpp` 193, 226-230). `ServerIsCurrent`
    excepts the values that came in such a message.
15. `Config.cpp:635`: the loop over the letters of a protocol's name never ends.
16. `SensorsData.hpp:561`: `get` decrements its argument `count` and not the member,
    which is therefore too large after a request has removed records.
    `CountIsEnough` is only about its being too small.
17. `AmbientWeatherF007TH.cpp:126`: the battery status is tested with a bit of the
    humidity, so that its change alone is not reported. No property is about it.
18. `WH2.cpp:66`, `Receiver.cpp:989`: a negative temperature of a WH2 is read as a
    positive one, that of a DS18B20 is an error.
19. `AcuRite00592TXR.cpp`, `AuriolHG02832.cpp:84`: `getId` reads bits that `equals`
    does not, and the reverse. `IdentityIsEquality` (section 5) names them.

## 5. Proofs

All are machine-checked for every value of the constants that satisfies the named
assumptions, which TLC evaluates in every run: `PoolAssumption`,
`FilterAssumption` (a longest duration that fits into `int16_t`, since
`enableReceive` limits it to 10000), `ReaderAssumption`, `PoolSuffices`,
`QueueAssumption`, `StoreAssumption`, `LongAssumption` (`LONG_BITS` is 32 or 64),
`ReceptionAssumption`, `SensorsAssumption` (the sensors in range have different
identifiers, since with the same one they are one sensor to the program),
`ReadingsAssumption` (channels and readings for which the message of the model has
room, `Temperatures` and `Humidities`), `ScheduleAssumption`, `RulesAssumption`,
`LifecycleAssumption`.

**`SequencePoolProofs`** goes in three layers.

* Where the sequences are: `Inv == TypeOK /\ RegionsInOrder /\ HandlerInv /\
  DecoderInv`. `RegionsInOrder` is not inductive: it says nothing of the descriptor
  that is filled and not yet published (`HandlerInv`), nor of the copies of a
  descriptor that the decoder has not yet given back (`DecoderInv`). The lemmas on
  `Wrap` and `Distance` turn positions around the ring into distances from
  `iPoolRead`. Theorems `TypeCorrect`, `RegionsStayInOrder`.
* What the cells hold: `ContentInv`. A published sequence is no shorter than
  `min_sequence_length` (`LengthInv`), the next interval goes right behind the
  recorded ones (`WriteInv`), what the decoder has copied is the front of its
  sequence (`CopyInv`), and all intervals but the first are within the limits
  (`LimitInv`). Every way through the handler has one of three effects on the pool
  (`Keeps`, `Stores`, `Drops`), so that this part of the proof is about three cases
  and not about each branch. Theorem `LimitsHold`. From the lengths follows
  `StartIsFar`: the p-th published sequence begins at least (p - 1) *
  `min_sequence_length` cells behind the first, by the least p for which it does not;
  therefore the pool is full before the descriptors are (`DescriptorsSuffice`).
* What the parity tells: `LevelInv` relates the level of the last edge to the number
  of intervals and the counter of the noise filter, in which an ignored spike is two
  edges. `LevelsKeepAlternating` has two hypotheses. No edge is missed; and
  `MAX_CHAINS` sequences of the least length do not fit into the pool, since the
  early return without a free descriptor leaves a sequence open whose next interval
  does not belong to it. TLC shows a violation without either.

`RingsImplementChannel` is the refinement of `SequenceChannel` under the mapping of
`SequencePool`: publishing appends the intervals that the handler has recorded, the
decoder's `advance` takes the first of the queue, and copying an interval is a
stutter, because `CopyInv` says that the cells still hold what was published.

**`GpioTsReaderProofs`**: `TypeCorrect`, `NothingIsLost`, `AllIsFreeWhenTaken`. A
batch is read only when the queue is empty; from there `BatchUse` counts: the cells
in use and the items left do not exceed the longest open sequence and one batch, and
each published sequence has used at least `min_sequence_length` cells, which bounds
the descriptors. `Contiguous` ties the open sequence to the last queued one, so the
cells given back are those before it.

**`MessageQueueProofs`**: `TypeCorrect`, `MemoryCorrect`, `QueueImplementsChannel`.
`Queue` follows the links with a recursive function. `QueueIsChain` shows that
whatever sequence the links lead through is its value, so that a step is reasoned
about by naming the sequence afterwards. The invariant says that the links from
`firstMessage` are a chain without a repetition, that `lastMessagePtr` is behind its
end except while a producer moves it (`QueueInv`), that the list of each producer is
a chain of its own until it is linked (`ListInv`), who is inside of the lock
(`LockInv`), and that every allocated message has exactly one owner (`OwnerInv`).
The steps of `MessageChannel` are then those that link a list and that pop.

**`SensorsDataProofs`**: `TypeCorrect`, `StaysSorted`, `NewestIsStored`,
`StaysLinked`, `CountIsNeverTooSmall`, `RequestIsAnswered`, for any sensors, and
histories of any length. The first part is about one list: `AddRecord` and
`Truncate` keep it `Linked`, which is sorted, ending with `last`, counted by `count`
from above and no younger than the stored reading. The invariant adds what the main
loop holds between two critical sections of `update` (`MainInv`), in which a request
may delete records: the newest record is the stored reading unless the main loop has
yet to add it (`CurrentInv`).

**`ReceptionProofs`**: `TypeCorrect`, for any decoders; `IdentityIsEquality`, for any
data of any protocol; and `SensorsHaveItems`, `LatestStored`, `ServerStaysCurrent`,
`ReportsComeInTime`, for any sensors, readings, times and options. These four start
from `AcceptedIsSent`, that a valid message is the one the sensor has sent, and from
nothing else about a decoder. They are about the sensors without a twin in range
(`Singles`); twins may be there, too, and the invariant says what may be stored of
them. `LatestStored` excepts the Fahrenheit of a TFA303049 below zero where `long` has
64 bits, and `ServerStaysCurrent` the values whose last request has failed or came
from a message that had failed a check. The argument has four layers.

* What a message says. `DataOf` puts the values of a sensor into its message, and the
  class of its protocol takes fields out of it. `DataLemmas` shows that a string of
  bits is the digits of its number and that different strings are different numbers
  (`ValueInjective`); from that, one lemma for each protocol says which number each
  field is (`LayoutWH2`, `LayoutHG02832`, ..., with the check bits, two's complement,
  decimal digits and offsets they have).
* Who says it. `IdentityIsEquality` assumes nothing of where data comes from: two
  data of one protocol are the same sensor to `equals` exactly if they are to
  `getId`, up to the bits that only one of the two reads (`OnlyInId`: the status
  of 00592TXR, the type of WH2, bit 14 of HG02832; `OnlyInEquals`: two bits of
  00592TXR). A message of a sensor has these bits from its model (`BitsOfSensor`),
  which leaves the twins as the only sensors that share an item. What a TX7U
  merges of two messages has still the identifier of its sensor (`MergedBits`).
* What `update` compares. It compares words or parts of words, not values. A reading
  that differs in temperature or humidity differs in a field it compares, and is
  reported with the flag of that field (`WordDifferences`); what it does not report
  has the same values.
* The invariant `TypeInv /\ SensorInv /\ DataInv`. `SensorInv`: a sensor has an
  item as soon as it was heard and not before, and an item is never younger than
  the last upload of its sensor (`DueInv`). `DataInv` adds that a message on its
  way was sent as a sensor may send (`HeardInv`), that every item has the bits of
  a sensor in range (`NamedInv`), that all models but TX7U tell whole readings
  (`LastInv`), that an item has the last valid values of its sensor and an age
  that `update` leaves it with (`StoredInv`), and that the server has these values
  or `LOST` (`ServedInv`). `LatestIsStored` and `ServerIsCurrent` are not
  inductive without `NamedInv`: they are about what getters return, and say
  nothing of the bits that `update` looks at next.

**`RulesProofs`**: `TypeCorrect`, `PublishedIsCurrent`, `LocksAreApplied`,
`BoundsSwitch`. A rule that is skipped sends nothing, so the step alone does not show
what the broker has; the invariant `SelfLockIsPublished` says that the message for
the bound a rule has locked itself for was sent or dropped. `BoundsSwitch` rests on
`CurrentOfTwo`, which says for two items which is in force at which time; a step of
the clock then changes it at the two times only.

**`LifecycleProofs`**: `TypeCorrect`, `NothingUsedEarly`, `FlagCorrect`, for any
number of signals. Where `stop` uses a lock, only a flag tells that main has
initialised it: `Started` relates the flags and main's label to what is initialised.
That a callback cannot come before `start` has set the flag is `NetworkIsLate`. One
lemma for each group of actions.

Where a proof needs induction over positions, or over the bits of a number, it takes
the least counterexample instead (`DataLemmas`), since the prover cannot instantiate
the induction theorems. That this is enough for `Value` is due to its definition as a
recursive function with one argument; a decoder, which folds over pulses with a
buffer, an attempt and an error in its state, would take an invariant for each.

**Model-checked only.**

* Liveness: `QueuedIsReceived`, `StopEndsMainLoop`, `StopEndsProgram`. It and ENABLED
  are beyond the prover.
* `EqualsIsIdentity`: for the sensors of the run; what is proved instead is
  `IdentityIsEquality`.
* `AcceptedIsSent`, `SentIsReceived`, `LimitsAdmitAll`: what the decoders make of
  pulses and the receiver of limits is defined by folds over them. `AcceptedIsSent`
  also depends on which bits are wrong: there are messages with several wrong bits
  that pass the checksums, so it holds of the disturbances that the run has, and not
  of all.
* The violated properties of section 4.

## 6. What is left

1. `SentIsReceived` for one protocol and all readings, by an invariant of its fold
   over the pulses.
2. Rules about humidity and battery status; lock lists that name rules defined
   later.
3. The pigpio build's end, whose handler exits instead of returning.
4. Several messages on their way in `Reception`, composed with `MessageQueue`.

## 7. Not modelled

* Text: JSON, InfluxDB lines, message templates, the web pages, logging, and the
  tokenizer of the configuration. It has no state that others rely on; what is
  sent is modelled, not how it is written.
* The build for tests that reads a log file: one thread fills the same buffers as
  the gpio-ts reader.
* The kernel driver, libmosquitto, libmicrohttpd, curl and the sensors are external
  and modelled from their use, as far as they call back or decide.
* Weak memory. Data races on the fields of an item between the main loop and the
  HTTP threads: the readers format field by field, and nothing relates the fields
  of one answer.
* The log file, which main closes while the decoder may still write to it.
