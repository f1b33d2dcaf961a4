# HDMI-CEC library: TLA+ models and proofs

This directory holds a formal model of the CEC library in `../src`: TLA+ modules
for its queues, threads, driver, synchronous send, addresses, listener dispatch
and message codec, the TLC configurations that check them on small instances, and
TLAPS proofs of all their safety invariants and refinements, for every value of the
constants. `PROJECT.json` maps every
definition to the source lines it stands for and lists the runs, the mutants,
the findings and the hazards.

## 1. The system

| Component | State | Operations | Talks to |
|---|---|---|---|
| `EventQueue` (osal) | deque, capacity, mutex, a `ConditionVariable` with its own mutex and flag | `offer`, `poll`, `size` | producers and consumers in any thread |
| `Thread`, `Stoppable` (osal) | `RUNNING / STOPPING / STOPPED`, unsynchronised | `start`, `runStarted`, `stopStarted`, `stopCompleted` | `Bus::Reader`, `Bus::Writer` |
| `LibCCEC` | `initialized`, a mutex held for the whole call | `init`, `term` | `Driver`, `Bus` |
| `Bus` | `started`, `rMutex`, `wMutex`, `wQueue`, `listeners` | `start`, `stop`, `send`, `sendAsync`, `poll`, `ping`, `add/removeFrameListener`; reader and writer thread | `Driver`, `Connection` |
| `DriverImpl` | `status`, `rQueue`, `logicalAddresses`, a mutex | `open`, `close`, `read`, `write`, the receive callback, addresses | HAL, `Bus` |
| `Connection` | `source`, the filter's copy of it, `frameListeners`, a mutex | `open`, `close`, `add/removeFrameListener`, `send*`, `setSource` | `Bus`, application listeners |
| `CECFrame`, `Operands`, `Messages`, `MessageDecoder`, `MessageEncoder` | byte buffers | encode, decode, dispatch | application |
| HAL (outside the repository) | | `HdmiCecOpen/Close/Tx`, the receive callback | `DriverImpl` |

A frame to send goes from an application thread into `wQueue` and from there, in
the writer thread, through `DriverImpl::write` to `HdmiCecTx`; or, synchronously,
from `Bus::send` to the same `write` under `rMutex` and `wMutex`. A received frame
comes in a HAL thread, is offered to `rQueue`, taken out by the reader thread in
`DriverImpl::read` and handed to the connections and their listeners with `rMutex`
held. Both queues are shut down with a null pointer as sentinel.

What is hard here: the two mutexes and the flag of the event queue; the handshake
that ends the two threads (a sentinel in a bounded queue, a state read without a
lock, a status that changes again); waiting with locks held; HAL calls that fail in
the middle of `init` and `term`; retries that hold no lock between attempts;
listeners that change the lists they are notified from; a source address that is
read three times without a lock while frames are altered to match it; operands cut with unsigned
arithmetic out of frames of any length. The correctness properties
of each component are listed with its runs in section 3, and `hazards` in
`PROJECT.json` says at which line each difficulty sits.

## 2. The modules

| Module | Models | Correspondence |
|---|---|---|
| `QueueContract` | what `EventQueue` promises | a bounded FIFO; a poll *observes* an element and *takes* the front in a later step, or gets null if another consumer was faster |
| `EventQueue` | `EventQueue`, `ConditionVariable` | one action per lock acquisition, push, flag update and wakeup; spurious wakeups included |
| `EventQueueProofs` | | theorems about `EventQueue` |
| `Bus` | `LibCCEC::init/term`, `Bus::start/stop/sendAsync`, both threads, `DriverImpl::open/close/read`, the receive callback | `lc` is the position of the current `init` or `term` call (`LibCCEC::mutex` admits one); `rpc`, `wpc` the positions of the threads; a step is what runs between two points where another thread can interfere |
| `BusProofs` | | theorems about the threads and queues of `Bus` |
| `FrameChannel` | what the library promises of a stream of frames | frames are accepted, and each comes out once, behind no younger one, or is lost for good; `Bus` instantiates it for the frames from `sendAsync` to `HdmiCecTx` and for those from the receive callback to the listeners |
| `FrameChannelProofs` | | what the channel means to its user |
| `BusChannelProofs` | | both directions of `Bus` implement `FrameChannel` |
| `BusSend` | `Bus::send/poll/ping`, `DriverImpl::write` | an attempt is one step (both bus mutexes and the driver's are held); sleeps are steps of their own |
| `BusSendProofs` | | theorems about `BusSend` |
| `Addresses` | `add/remove/isValidLogicalAddress` of the driver, `Connection::setSource/sendTo/send/sendToAsync/sendAsync/matchSource` | the list as the number of its entries of each address; the reads and the write of `matchSource` are steps of their own; a frame is an object in memory (the application's, a local one of `sendTo`, or a queued copy) with the initiator in its header |
| `Connection` | the receiving half of `Connection`, the listener lists, the dispatch in `Bus::Reader::run` | list nodes with growing ids; the reader's two iterators are ids |
| `AddressesProofs`, `ConnectionProofs` | | theorems about the two modules above |
| `Operands` | `Operands.hpp`, the parts of `CECFrame` it needs | constructors and getters as operators on byte sequences; `CECBytes` returns the bytes or the exception |
| `MessageCodec` | `MessageEncoder`, `MessageDecoder`, `Messages.hpp` | a message is encoded and decoded by a peer, or a frame of another device passes the callback's length test and is decoded; `process()` may throw; an outcome is delivered, dropped, ignored or an escaped exception |
| `MessageCodecProofs` | | theorems about the decoder, and about encoder and decoder together, and the lemmas about `Operands` they need |
| `MC*` | | values of the constants, and symmetry, for TLC |

`Bus` uses its two queues as `QueueContract` describes them: `ReadObserve` and
`WriterObserve` are the contract's Observe, `ReadTake` and `WriterTake` its Take.
That `EventQueue` implements the contract is checked by TLC and proved
(`Refinement`), so the composition rests on a theorem. `BusSend` and `Connection`
see the bus through its `started` flag (and the driver's status) only, which
`Toggle`, `BusStart` and `BusStop` change as `Bus` does. `Addresses` ends where the
frame reaches `Bus::send` (module `BusSend`) or the queue of `Bus::sendAsync`
(module `Bus`).

Abstractions. Frames are numbers in the order they enter the library, or, in
`BusSend`, the four kinds that `write` distinguishes (one of them
the empty frame, whose first byte the logging asks for). `CLOSING` is visible only
to a thread without the driver's mutex, which treats it like `CLOSED`. A call that
only throws changes no state and is no action. A HAL call may succeed or fail
whenever the code makes it. Logging, telemetry and the log prefix are left out.

Definitions marked `Mutant` are altered copies of the definition that follows
them. They are used by no specification; `PROJECT.json` says which property each
of them breaks when it takes the original's place.

## 3. The runs

| Run | Shows | Instance |
|---|---|---|
| `event_queue` | `FlagTracksQueue`, `NoLostWakeup`, the refinement `ImplementsContract`, and `QueueDrains` under fairness | 2 producers, 2 consumers, capacity 2, 2 elements and the null sentinel |
| `bus` | `SingleWorkers`, `ReaderNeverStranded`, `FlushIsSafe`, `WriterNeverStranded`, `TransmitFIFO`, `DeliverFIFO`, `QuiescentAfterTerm`, and the refinements `TransmitChannel` and `DeliverChannel` | 2 slots for each kind of thread, capacity 2, 2 sessions, 3 sends, 2 receptions, 2 reopenings |
| `bus_live` | `TermReturns`, `AsyncSettles`, `ReceiveSettles` under fairness | 1 slot each, capacity 1, 2 sessions |
| `bus_send` | `OutcomeIsTrue`, `SleepIsBounded`, `RetryAccount`, and `SendEnds` under fairness | 2 senders, timeouts -1, 249 and 500 ms |
| `addresses` | `ListIsRegistered`, `InitiatorAuthentic`, `SourceEnforced`, `QueuedUnaltered` | 2 threads, 2 connections, 1 frame object both may send, addresses and destinations 4 and 21, each added up to twice, 1 queued copy |
| `connection` | `IteratorValid`, `ClosedIsSilent`, `ClosedIsUnreferenced`, `EveryoneNotified`, and `NoCircularWait` under fairness | 2 connections, 2 listeners, 1 thread and the reader, 3 list nodes, 1 frame |
| `codec` | `EncodeDecodeInverse`, `OnlyPollingEscapes`, `OperandsCoverFrame`, `CompleteFramesAreDelivered`, `ExtensionBitDelimits` | every message class with operands at their limits, 3 headers; every opcode with every run of up to 4 operand bytes (6 for the messages of variable length) out of 3 values; frames of 128 and 129 bytes |

The bounds. Two thread slots are one more than the code intends, so a second
thread would show. Capacity 1 and 2 make a full queue common; the code's 32 only
makes it rare, and three sends are one more than the queue holds. Two sessions are needed for anything left over from the first. In
`connection` three nodes are two registrations of a connection and a listener, or
a connection and two listeners; listeners and application thread act between any
two steps of the walk, and walks do not influence each other. In `addresses` a
second thread is all it takes to alter a frame under a call, or to change a source
or a registration between two reads of `matchSource`; `LogicalAddress`
accepts 21, which the half byte of a header turns into 5 as a source, and which as a
destination sets a bit of the initiator. Timeouts below one
step, and of two steps, cover `timeout / 250` giving 0 and more than 1. In
`codec` the three byte values are one with the extension bit, one without, and
latency flags 3; four bytes are as many as a message of fixed layout other than the
texts can have, six are two descriptors, or two profiles and two features; the texts
have frames around their 13 and 14 bytes and one that does not fit a frame.

Runs that show a disagreement between the code and what the repository says of it
(each is a finding in `PROJECT.json` with the quotation):

| Run | Property that fails | Why |
|---|---|---|
| `bus_hasty` | `QuiescentAfterTerm` | `term()` ahead of a spawned thread's `runStarted()` waits for nothing |
| `bus_reopen` | `TermReturns` | a reopening consumes the sentinel that should end the reader |
| `bus_send_failures` | `FailuresAreReported` | three HAL codes are not looked at |
| `connection_late_close` | `ClosedIsSilent` | `close()` on a stopped bus throws half way |
| `codec_absent_address` | `EncodeDecodeInverse` | the decoder drops the requests the encoder writes without an address |

Smaller differences, which the models follow without a run of their own: the sleeps
of a `send` exceed its timeout by 1 ms per attempt if the timeout is a multiple of
250 ms (`SleepIsBounded` states the exact bound); `Bus::send` retries, although the
README of the library says that callers do; a listener that throws
`InvalidStateException` keeps the frame from the listeners after it
(`ListenerThrow`, and the last clause of `EveryoneNotified`); the filter of a
connection has its own copy of the source, which `setSource` does not change;
`README.md:142` of the library says that all API calls are protected by mutexes,
but `setSource` and `matchSource` have none (`InitiatorAuthentic` and
`SourceEnforced` say what is left); its line 255 speaks of the address mapping after
successful HAL calls, while `addLogicalAddress` takes every answer but two for a
success (`AddRefused`) and `removeLogicalAddress` does not look at the answer; an
empty frame makes `write` throw `std::out_of_range` while it logs the header, before
anything is handed to the HAL, and in the writer thread that ends the process;
`Bus::Writer::stop` announces the stop before it offers the null that is to wake the
writer, and a writer that sees the announcement first drains its queue, ends, and
leaves the null in `wQueue` after `term()` (`StopWriter` and `StopOffer` are two
steps; `QuiescentAfterTerm` says that this null is all that is left, and the writer
of the next session takes it for nothing); the comment in the constructor of
`CECBytes` (`Operands.hpp:67-72`) says that an OSD name or string consumes all
remaining bytes in the frame, but the classes pass `MAX_LEN` and texts are cut at 14
and 13 bytes (`CompleteFramesAreDelivered` states both the full and the cut length);
`Header::serialize` ORs the source into the destination's whole byte
(`Header.hpp:60-63`), so that a destination above 15 changes the initiator: `sendTo`
from 4 to 0x15 makes the header 0x55, and `matchSource` puts the initiator right only
if the connection's source is registered (`HeaderInitiator`); an exception of
`process(Polling)` leaves `decode()`, others derived from `std::exception` do not; five messages can be encoded but have no case in
`decode()` (`EncodeOnly`); `ReportShortAudioDescriptor` never sets its count and
keeps four bits of each byte, and its `serialize` may read behind the vector, which
`Serialized` leaves out; a truncated physical address is delivered.

`Bus` has two constants for the environment these findings need. `HastyCalls`
allows `init` and `term` to be called before threads spawned earlier have run;
`ReopenDuringTerm` allows `Driver::open` by the application while `term()` runs.
The passing runs and the proofs (where they say `ASSUME ~HastyCalls`) are about an
application that does not. In `Connection`, `CloseBeforeStop` plays the same part;
in addition listeners are assumed not to remove themselves inside `notify()`
(`Forbidden`), against which the code has no protection.

Deadlock is not checked in the runs of `Bus` and `Connection`: an application that
has used up its bounded calls leaves a library in which nothing has to happen.
That nothing is stuck is what the liveness properties say.

Fairness. Threads that can run do run (weak fairness of each thread and of the
call under way), which pthreads give. Weak fairness is enough for the mutexes,
because the bounded numbers of frames and calls mean that nobody re-acquires one
for ever; starvation by an endless stream of frames is out of scope. A listener
returns (strong fairness of `ListenerReturn`): it is application code and the
library cannot help it. Nothing is assumed of the application's calls, of the HAL's
frames, or of a driver being reopened.

## 4. The proofs

All theorems hold for any sets of threads, any capacity and any bounds.

*`EventQueueProofs`.* `NoLostWakeup` and `FlagTracksQueue` are not inductive by
themselves. `IInv` adds who owns the mutex at which point (`LockDiscipline`) and
what deque and flag look like half way through `offer` and `poll` (`InsideCS`):
the flag lags behind after a push and before a reset, and only there.
`SoleConsumer` follows from `IInv` and says why `Bus` may take a null for its
sentinel.  `Refinement` maps the deque and the positions to the contract; the last element
counts as queued until the flag is reset, because until then another consumer may
still get past `wait()`. Each step is then a step of the contract or a stutter.

*`BusProofs`.* The safety properties of the shutdown follow from one invariant:
`ReaderInv` and `WriterInv` say that a `STOPPED` Stoppable has no thread beyond the
first lines of `run()`, and none while a call relies on it; that a writer which is
`STOPPING` finds its queue non-empty unless the stop has yet to offer the null (`lc`
is `stop.offer`); that after the drain the queue is empty and accepts no frame,
because `started` is false, so that nothing but that null can still come in
(`Drained`). `TypeCorrect` needs no assumption on the
callers, everything else assumes `~HastyCalls`, and `bus_hasty` shows why.
The lemmas are split by who moves: `ReaderStepInv`, `DriverStepInv` (open and close
against `ReaderNeverStranded` and `FlushIsSafe`) and `WriterStepInv`.

*`BusSendProofs`.* `RetryAccount` ties the attempts made and the time slept to the
one local counter the code has; `OwnStep` shows that a sender keeps its account
and `OtherStep` that it cannot disturb another's.

*`FrameChannelProofs` and `BusChannelProofs`.* `ChannelIsOrdered` says what
`FrameChannel` is good for: what comes out was accepted and its numbers increase.
`TransmitIsChannel` and `DeliverIsChannel` show that the bus implements it, for the
frames to be sent with `wframe` and `wQueue` as what is under way, for the received
ones with `rframe`, `rQueue` and the frame of a callback between its test of the
status and its offer. The invariants behind them, `TransmitInv` and `DeliverInv`,
say that a thread holds a frame exactly while it writes or dispatches, that the
queue is ordered behind that frame, sentinels anywhere between, and that everything
under way is younger than everything that has come out. They rest on
`SingleWorkers` (through `SoleHolder` and `SoleReceiver`): a second reader could
overtake the first between taking a frame and dispatching it. The lemmas
`OrderedAppend`, `OrderedTail`, `OrderedTake` and `OrderedRelease` are about one
direction's queue and hands, whichever it is; `TransmitCases` and `DeliverCases`
name the few steps that matter to each. `TransmitIsFIFO` and `DeliverIsFIFO` follow.

*`ConnectionProofs`.* The reader's iterators stand on nodes that others may want to
erase. `WalkInv` says which mutexes the reader holds where, and that a listener in
the middle of a `close()` closes another connection than the one it is called from;
with `NodesInv` (ids are unique and grow) this makes `IteratorValid` inductive.
`EveryoneNotified` speaks of the end of a walk only; `OwedInv` says for its middle
that every listener still owed the frame is on its list and in front of the reader:
on a connection ahead, or further down the list of the current one. `ClosedIsSilent`
and `ClosedIsUnreferenced` come from `ClosedInv`, under `CloseBeforeStop`:
`connection_late_close` shows that they fail without it. The proof
has a lemma for the calls that change the lists (`CallStep`), one for the steps that
change neither lists nor walk (`QuietStep`), and one for each kind of step of the
walk (`StartStep`, `NextConnStep`, `InConnStep`, `EndStep`). `MutexesAreOrdered`
(the invariant `LockOrder`) is the safety half of `NoCircularWait`: it follows from
`WalkInv`, because `close()` has given the connection's mutex back before it asks for
`rMutex`. The calls that only
change a list under the mutex are one step of the model, so the theorem is about
threads that keep a mutex while they wait, not about the time a `push_back` takes.

*`AddressesProofs`.* A call of `matchSource` looks at source and list four times
without a lock. `MatchInv` says what it may conclude in between: the frame is as it
was given until the write, and after the driver's answer the source is registered,
unless somebody changed source or registration meanwhile. This holds only of frames
no other call is sending: `AloneInv` keeps track of those and `CallInv` of which object
a call works on. `Authenticity` is about shared frames, too: `ShareInv` says that
calls with the same frame object have seen the sources of each other's connections,
from which `AuthInv` follows, the same statement at every step of `matchSource`; a
header that `sendTo` made for a destination below 16 has its connection's source in
it because ORing a zero changes nothing (`OrZero`, `HeaderFacts`). `QueueInv` says that what is queued is a copy of its own, which
is why `QueuedUnaltered` holds although `matchSource` writes to the caller's object.

*`MessageCodecProofs`.* `DecodeInv` says that what became of a frame is `Decoded` of
the bytes on the wire, so that the theorems are about this function and every frame
of up to 128 bytes. `ClippedFacts` and `CECBytesFacts` follow the unsigned
arithmetic: an operand is a piece of the frame, or an exception, whatever start and
length are; `ConstructedType` and `DecodedCases` carry this through all cases of
`decode()` (`NothingElseEscapes`), `LayoutType`, `FixedDelivered` and
`TextDelivered` give `NothingCompleteIsLost`. For `OperandsAreTheFrame` each operand is shown to start
where the one before it was meant to end (`Laid`); if the next one could be had, the
one before was not cut short, so they join (`Covered`). `FlattenSeq` is a recursive
function; `Flattened` shows that its equation has only one solution, by looking at
the smallest index where two would differ, which takes the place of an induction.
`ExtendedShape` does the same for the extension bits: the bytes that have them are
an interval that ends at the first one without, from which `ChainsAreDelimited`
follows, including that a chain which runs to the end of the frame leaves no room
for the next operand and makes the message be dropped.

`PeersUnderstand` is about both ends: what process() is handed at the peer has the
addresses, the opcode and, through the getters, the values the application put in.
Its hypothesis is `Regular` for every message an application encodes: if the message
fits a frame, its values are those its operands' classes are made for (`Values`:
nibbles, strings of 1 to `MAX_LEN` bytes, flags, at most four audio formats, a volume
up to 127, an audio output delay if and only if the latency flags are 3, no F.F.F.F
in an optional address). Outside these the code need not have the property:
`codec_absent_address` shows it for F.F.F.F, and the hazard at `Messages.hpp:878` is
about latency flags whose two low bits are set.
`MCMessageCodec` assumes `Regular` of the messages of the run, so TLC evaluates it.
`SentInv` says that what is on the wire is one of the encodings of what was sent.
`Framed` finds header, opcode and operands in such a frame; the lemmas that end in
`Packed` turn each operand's packing around (`ByteOfBits` gives the byte that a list
of flags stands for); `CutAt`, `OneTaken`, `TwoTaken` and `FourTaken` show that
operands are cut out where they were put together; and one lemma for each kind of
message, those that end in `Understood`, combines them. `Arrives` puts frame and
message together, with a `process()` that may throw.

Assumptions on constants: `CodecAssumption` (headers are half bytes, frames of other
devices are bytes, and so is what serialising an application's message gives) and
`ObjectsAssumption` (threads, frame objects and queued copies are different
things); both are evaluated by TLC in the runs.

Only model-checked: the liveness properties `QueueDrains`, `TermReturns`,
`AsyncSettles`, `ReceiveSettles`, `SendEnds` and `NoCircularWait` (liveness under
fairness is beyond the prover). Every invariant and every refinement that a passing
run checks is a theorem as well.

## 5. Not modelled

- logging, formatting and the log prefix; the `Host` declarations; static
  destruction at exit;
- `DriverImpl::writeAsync`, the timed `ConditionVariable::wait` and `notify()`, which
  have no caller in the library;
- a failing `pthread_create`, which the code ignores, and `term()` called from a
  listener, which waits for its own thread: nothing in the repository says what the
  library owes in either case, and a property would fail in the first state;
- `getLogicalAddress` and `getPhysicalAddress`, which hand on the HAL's answer and
  keep no state;
- addresses above 15 in the headers of `MessageCodec`, whose `Headers` are half bytes
  (what `Header::serialize` makes of others is in `Addresses`), and the length of the
  frames in `Bus`;
- an exception of `process()` that is not derived from `std::exception`, which would
  pass both handlers of `decode()` (`MessageDecoder.cpp:190-201`);
- bit 0 of [Device Features], which `getDeviceFeatures` lists as "Reserved";
- the string constructor of `PhysicalAddress`, `toString` and `print` of operands and
  messages, and `ReportFeatures` with several profile operands.
