-------------------------------- MODULE Bus --------------------------------
(***************************************************************************)
(* The running library: LibCCEC::init/term, the Bus with its reader and    *)
(* writer threads, and the part of DriverImpl they talk to (its status,    *)
(* the receive queue, the HAL callback).  The two EventQueues appear as    *)
(* what QueueContract says of them: a poll first observes an element and   *)
(* takes the front in a later step.                                        *)
(*                                                                         *)
(* Actors: one lifecycle caller at a time (LibCCEC::mutex serialises init  *)
(* and term), any number of reader and writer threads (the code means to   *)
(* have one of each), the HAL thread that delivers received frames, and    *)
(* application threads that call Connection::sendAsync and Driver::open /  *)
(* close.  A call that only throws changes nothing and is no action.       *)
(***************************************************************************)
EXTENDS Naturals, Sequences, FiniteSets, Functions

CONSTANTS Readers,           \* thread slots for Bus::Reader::run
          Writers,           \* thread slots for Bus::Writer::run
          Cap,               \* EventQueue::cap of rQueue and of wQueue
          MaxInits,          \* bound: calls of LibCCEC::init
          MaxSends,          \* bound: frames accepted by sendAsync
          MaxReceives,       \* bound: frames the HAL hands to the callback
          MaxReopens,        \* bound: Driver::close calls of the application
          HastyCalls,        \* init/term may be called before the spawned threads ran
          ReopenDuringTerm   \* Driver::open may be called while term() runs

ASSUME BusAssumption ==
    /\ Readers # {} /\ Writers # {}
    /\ Cap \in Nat \ {0}
    /\ MaxInits \in Nat /\ MaxSends \in Nat /\ MaxReceives \in Nat /\ MaxReopens \in Nat
    /\ HastyCalls \in BOOLEAN /\ ReopenDuringTerm \in BOOLEAN

(* Frames are numbered in the order they enter the library; 0 is the null  *)
(* pointer, which both queues use as their sentinel.                       *)
Nil == 0

VARIABLES
    lc,            \* where the current LibCCEC::init or term call is, or "idle"
    initialized,   \* LibCCEC::initialized
    started,       \* Bus::started
    status,        \* DriverImpl::status; CLOSING is not told apart from CLOSED
    rState,        \* Stoppable::state of Bus::reader
    wState,        \* Stoppable::state of Bus::writer
    rQueue,        \* DriverImpl::rQueue
    wQueue,        \* Bus::wQueue
    rpc, rframe,   \* each reader thread: where it is, the frame it holds
    wpc, wframe,   \* each writer thread: where it is, the frame it holds
    rx,            \* the frame of a HAL callback past its status check, or Nil
    delivered,     \* history: frames the listeners were notified of
    transmitted,   \* history: frames HdmiCecTx sent
    inits, sends, receives, reopens   \* the bounded counters

lifecycle == <<lc, initialized, started>>
queues == <<rQueue, wQueue>>
readerVars == <<rpc, rframe, delivered>>
writerVars == <<wpc, wframe, transmitted>>
counters == <<inits, sends, receives, reopens>>
vars == <<lifecycle, status, rState, wState, queues, readerVars, writerVars, rx, counters>>

(* Who holds which mutex.  Bus::start keeps rMutex and wMutex while it     *)
(* opens the driver, Bus::stop while it stops the writer; a reader         *)
(* keeps rMutex while it notifies, and the driver's mutex while it flushes.*)
BusLocked == lc \in {"start.open", "stop.offer", "stop.wwait"}
RMutexFree == ~BusLocked /\ \A r \in Readers : rpc[r] # "notify"
WMutexFree == ~BusLocked
DriverMutexFree == \A r \in Readers : rpc[r] \notin {"flush", "fpoll", "ftake"}

(* The Bus has been constructed: both threads exist and have not run yet.  *)
Init ==
    /\ lc = "idle" /\ initialized = FALSE /\ started = FALSE
    /\ status = "CLOSED"
    /\ rState = "RUNNING" /\ wState = "RUNNING"
    /\ rQueue = <<>> /\ wQueue = <<>>
    /\ \E r \in Readers : rpc = [x \in Readers |-> IF x = r THEN "new" ELSE "none"]
    /\ \E w \in Writers : wpc = [x \in Writers |-> IF x = w THEN "new" ELSE "none"]
    /\ rframe = [r \in Readers |-> Nil] /\ wframe = [w \in Writers |-> Nil]
    /\ rx = Nil
    /\ delivered = <<>> /\ transmitted = <<>>
    /\ inits = 0 /\ sends = 0 /\ receives = 0 /\ reopens = 0
-----------------------------------------------------------------------------
(* Mutant: the sentinel ignores the capacity.                              *)
OfferSentinelAnyway(q) == Append(q, Nil)

(* EventQueue::offer of the null sentinel: a full queue throws, and every  *)
(* caller that offers a sentinel swallows that.                            *)
OfferSentinel(q) == IF Len(q) = Cap THEN q ELSE Append(q, Nil)

(* What poll() returns when it takes: the front, or null if nothing is left.*)
Polled(q) == IF q = <<>> THEN Nil ELSE Head(q)
Rest(q) == IF q = <<>> THEN q ELSE Tail(q)

(* DriverImpl::open under the driver's mutex.  `ok' is the HAL's answer.   *)
DriverOpened(ok) ==
    /\ DriverMutexFree
    /\ ok \in BOOLEAN
    /\ status = "OPENED" => ok
    /\ status' = IF ok THEN "OPENED" ELSE status

(* Mutant: close() does not wake the reader.                               *)
DriverClosedSilently(ok) ==
    /\ DriverMutexFree
    /\ ok \in BOOLEAN
    /\ status = "CLOSED" => ok
    /\ status' = "CLOSED"
    /\ rQueue' = rQueue

(* DriverImpl::close: nothing unless OPENED; the status is CLOSED and the  *)
(* sentinel is queued even if HdmiCecClose fails and close() throws.       *)
DriverClosed(ok) ==
    /\ DriverMutexFree
    /\ ok \in BOOLEAN
    /\ status = "CLOSED" => ok
    /\ status' = "CLOSED"
    /\ rQueue' = IF status = "OPENED" THEN OfferSentinel(rQueue) ELSE rQueue
-----------------------------------------------------------------------------
(* LibCCEC::init and Bus::start                                            *)

(* A spawned thread that has not announced itself in Stoppable::state yet. *)
ThreadsPending ==
    \/ rState = "STOPPED" /\ \E r \in Readers : rpc[r] \in {"new", "begin"}
    \/ wState = "STOPPED" /\ \E w \in Writers : wpc[w] \in {"new", "begin"}

InitCall ==
    /\ lc = "idle" /\ ~initialized
    /\ HastyCalls \/ ~ThreadsPending
    /\ inits < MaxInits
    /\ inits' = inits + 1
    /\ lc' = "init.open"
    /\ UNCHANGED <<initialized, started, status, rState, wState, queues, readerVars, writerVars,
                   rx, sends, receives, reopens>>

InitOpen ==
    /\ lc = "init.open"
    /\ \E ok \in BOOLEAN : DriverOpened(ok) /\ lc' = IF ok THEN "start.spawn" ELSE "idle"
    /\ UNCHANGED <<initialized, started, rState, wState, queues, readerVars, writerVars, rx, counters>>

(* Mutant: start() spawns without asking whether the old threads stopped.  *)
StartSpawnAlways ==
    /\ lc = "start.spawn" /\ RMutexFree
    /\ \E r \in Readers : rpc[r] = "none" /\ rpc' = [rpc EXCEPT ![r] = "new"]
    /\ \E w \in Writers : wpc[w] = "none" /\ wpc' = [wpc EXCEPT ![w] = "new"]
    /\ lc' = "start.open"
    /\ UNCHANGED <<initialized, started, status, rState, wState, queues, rframe, delivered,
                   wframe, transmitted, rx, counters>>

(* Each thread that has stopped gets a successor.                          *)
StartSpawn ==
    /\ lc = "start.spawn" /\ RMutexFree
    /\ \/ rState # "STOPPED" /\ UNCHANGED rpc
       \/ /\ rState = "STOPPED"
          /\ \E r \in Readers : rpc[r] = "none" /\ rpc' = [rpc EXCEPT ![r] = "new"]
    /\ \/ wState # "STOPPED" /\ UNCHANGED wpc
       \/ /\ wState = "STOPPED"
          /\ \E w \in Writers : wpc[w] = "none" /\ wpc' = [wpc EXCEPT ![w] = "new"]
    /\ lc' = "start.open"
    /\ UNCHANGED <<initialized, started, status, rState, wState, queues, rframe, delivered,
                   wframe, transmitted, rx, counters>>

StartOpen ==
    /\ lc = "start.open"
    /\ \E ok \in BOOLEAN : /\ DriverOpened(ok)
                           /\ lc' = IF ok THEN "init.done" ELSE "idle"
                           /\ started' = (ok \/ started)
    /\ UNCHANGED <<initialized, rState, wState, queues, readerVars, writerVars, rx, counters>>

InitDone ==
    /\ lc = "init.done"
    /\ initialized' = TRUE
    /\ lc' = "idle"
    /\ UNCHANGED <<started, status, rState, wState, queues, readerVars, writerVars, rx, counters>>
-----------------------------------------------------------------------------
(* LibCCEC::term and Bus::stop                                             *)

TermCall ==
    /\ lc = "idle" /\ initialized
    /\ HastyCalls \/ ~ThreadsPending
    /\ lc' = "stop.flag"
    /\ UNCHANGED <<initialized, started, status, rState, wState, queues, readerVars, writerVars,
                   rx, counters>>

StopFlag ==
    /\ lc = "stop.flag" /\ RMutexFree
    /\ started' = FALSE
    /\ lc' = "stop.reader"
    /\ UNCHANGED <<initialized, status, rState, wState, queues, readerVars, writerVars, rx, counters>>

(* Stoppable::stopStarted                                                  *)
StopStarted(state) == IF state = "RUNNING" THEN "STOPPING" ELSE state

(* Reader::stop: rMutex, stopStarted.                                      *)
StopReader ==
    /\ lc = "stop.reader" /\ RMutexFree
    /\ rState' = StopStarted(rState)
    /\ lc' = "stop.close"
    /\ UNCHANGED <<initialized, started, status, wState, queues, readerVars, writerVars, rx, counters>>

(* Reader::stop closes the driver to wake the reader; it swallows errors.  *)
StopClose ==
    /\ lc = "stop.close"
    /\ \E ok \in BOOLEAN : DriverClosed(ok)
    /\ lc' = "stop.rwait"
    /\ UNCHANGED <<initialized, started, rState, wState, wQueue, readerVars, writerVars, rx, counters>>

(* Mutant: Reader::stop does not wait.                                     *)
StopReaderNoWait ==
    /\ lc = "stop.rwait"
    /\ lc' = "stop.writer"
    /\ UNCHANGED <<initialized, started, status, rState, wState, queues, readerVars, writerVars,
                   rx, counters>>

(* Reader::stop polls isStopped() every 50 ms.                             *)
StopReaderWait ==
    /\ lc = "stop.rwait"
    /\ rState = "STOPPED"
    /\ lc' = "stop.writer"
    /\ UNCHANGED <<initialized, started, status, rState, wState, queues, readerVars, writerVars,
                   rx, counters>>

(* Writer::stop, with rMutex and wMutex kept until the writer has stopped: *)
(* stopStarted(), which the writer may read at once, ...                   *)
StopWriter ==
    /\ lc = "stop.writer" /\ RMutexFree
    /\ wState' = StopStarted(wState)
    /\ lc' = IF wState = "RUNNING" THEN "stop.offer" ELSE "stop.wwait"
    /\ UNCHANGED <<initialized, started, status, rState, queues, readerVars, writerVars, rx, counters>>

(* Mutant: the writer is not sent a sentinel.                              *)
StopOfferNothing ==
    /\ lc = "stop.offer"
    /\ lc' = "stop.wwait"
    /\ UNCHANGED <<initialized, started, status, rState, wState, queues, readerVars, writerVars,
                   rx, counters>>

(* ... and then the sentinel, by which time the writer may have drained    *)
(* the queue, or be gone, and nobody takes it.                             *)
StopOffer ==
    /\ lc = "stop.offer"
    /\ wQueue' = OfferSentinel(wQueue)
    /\ lc' = "stop.wwait"
    /\ UNCHANGED <<initialized, started, status, rState, wState, rQueue, readerVars, writerVars,
                   rx, counters>>

StopWriterWait ==
    /\ lc = "stop.wwait"
    /\ wState = "STOPPED"
    /\ lc' = "stop.closed"
    /\ UNCHANGED <<initialized, started, status, rState, wState, queues, readerVars, writerVars,
                   rx, counters>>

(* Bus::stop closes the driver again.  Here the exception of a failing     *)
(* HdmiCecClose leaves term() with `initialized' still set.                *)
StopCloseAgain ==
    /\ lc = "stop.closed"
    /\ \E ok \in BOOLEAN : DriverClosed(ok) /\ lc' = IF ok THEN "term.close" ELSE "idle"
    /\ UNCHANGED <<initialized, started, rState, wState, wQueue, readerVars, writerVars, rx, counters>>

TermClose ==
    /\ lc = "term.close"
    /\ \E ok \in BOOLEAN : /\ DriverClosed(ok)
                           /\ initialized' = IF ok THEN FALSE ELSE initialized
    /\ lc' = "idle"
    /\ UNCHANGED <<started, rState, wState, wQueue, readerVars, writerVars, rx, counters>>
-----------------------------------------------------------------------------
(* Bus::Reader::run and DriverImpl::read                                   *)

RGoto(r, l) == rpc' = [rpc EXCEPT ![r] = l]
RHold(r, f) == rframe' = [rframe EXCEPT ![r] = f]

(* Nothing but a reader thread moves.                                      *)
ReaderOnly == UNCHANGED <<lifecycle, status, wState, wQueue, writerVars, rx, counters>>

(* if (isStopped()) runStarted(): the test and the write are two steps.    *)
ReaderEnter(r) ==
    /\ rpc[r] = "new"
    /\ RGoto(r, IF rState = "STOPPED" THEN "begin" ELSE "loop")
    /\ UNCHANGED <<rState, rQueue, rframe, delivered>> /\ ReaderOnly

ReaderRunStarted(r) ==
    /\ rpc[r] = "begin"
    /\ rState' = "RUNNING"
    /\ RGoto(r, "loop")
    /\ UNCHANGED <<rQueue, rframe, delivered>> /\ ReaderOnly

ReaderLoop(r) ==
    /\ rpc[r] = "loop"
    /\ RGoto(r, IF rState = "RUNNING" THEN "read" ELSE "exit")
    /\ UNCHANGED <<rState, rQueue, rframe, delivered>> /\ ReaderOnly

(* Mutant: the exception of read() ends the reader.                        *)
ReadCheckGivesUp(r) ==
    /\ rpc[r] = "read" /\ DriverMutexFree
    /\ RGoto(r, IF status = "OPENED" THEN "poll" ELSE "exit")
    /\ UNCHANGED <<rState, rQueue, rframe, delivered>> /\ ReaderOnly

(* read() throws InvalidStateException unless the driver is open.          *)
ReadCheck(r) ==
    /\ rpc[r] = "read" /\ DriverMutexFree
    /\ RGoto(r, IF status = "OPENED" THEN "poll" ELSE "loop")
    /\ UNCHANGED <<rState, rQueue, rframe, delivered>> /\ ReaderOnly

(* rQueue.poll(), in read() and in its flush loop: wait for an element ... *)
ReadObserve(r) ==
    /\ rpc[r] \in {"poll", "fpoll"} /\ rQueue # <<>>
    /\ RGoto(r, IF rpc[r] = "poll" THEN "take" ELSE "ftake")
    /\ UNCHANGED <<rState, rQueue, rframe, delivered>> /\ ReaderOnly

(* Mutant: the frame that was read stays in the queue.                     *)
ReadTakeKeeps(r) ==
    /\ rpc[r] = "take"
    /\ rQueue' = rQueue
    /\ RHold(r, Polled(rQueue))
    /\ RGoto(r, IF Polled(rQueue) = Nil THEN "null" ELSE "dispatch")
    /\ UNCHANGED <<rState, delivered>> /\ ReaderOnly

(* ... and take it, if it is still there.                                  *)
ReadTake(r) ==
    /\ rpc[r] = "take"
    /\ rQueue' = Rest(rQueue)
    /\ RHold(r, Polled(rQueue))
    /\ RGoto(r, IF Polled(rQueue) = Nil THEN "null" ELSE "dispatch")
    /\ UNCHANGED <<rState, delivered>> /\ ReaderOnly

(* Mutant: a sentinel ends read() without another look at the status.      *)
ReadNullAlwaysFlushes(r) ==
    /\ rpc[r] = "null" /\ DriverMutexFree
    /\ RGoto(r, "flush")
    /\ UNCHANGED <<rState, rQueue, rframe, delivered>> /\ ReaderOnly

(* A null from the queue: back to poll() if the driver is open (again),    *)
(* else flush with the driver's mutex held.                                *)
ReadNull(r) ==
    /\ rpc[r] = "null" /\ DriverMutexFree
    /\ RGoto(r, IF status = "OPENED" THEN "poll" ELSE "flush")
    /\ UNCHANGED <<rState, rQueue, rframe, delivered>> /\ ReaderOnly

(* while (rQueue.size() > 0); at the end the exception releases the mutex. *)
FlushSize(r) ==
    /\ rpc[r] = "flush"
    /\ RGoto(r, IF rQueue # <<>> THEN "fpoll" ELSE "loop")
    /\ UNCHANGED <<rState, rQueue, rframe, delivered>> /\ ReaderOnly

FlushTake(r) ==
    /\ rpc[r] = "ftake"
    /\ rQueue' = Rest(rQueue)
    /\ RGoto(r, "flush")
    /\ UNCHANGED <<rState, rframe, delivered>> /\ ReaderOnly

(* The reader takes rMutex and walks the listeners.                        *)
NotifyLock(r) ==
    /\ rpc[r] = "dispatch" /\ RMutexFree
    /\ RGoto(r, "notify")
    /\ UNCHANGED <<rState, rQueue, rframe, delivered>> /\ ReaderOnly

Notify(r) ==
    /\ rpc[r] = "notify"
    /\ delivered' = Append(delivered, rframe[r])
    /\ RHold(r, Nil)
    /\ RGoto(r, "loop")
    /\ UNCHANGED <<rState, rQueue>> /\ ReaderOnly

(* stopCompleted(); the thread ends.                                       *)
ReaderExit(r) ==
    /\ rpc[r] = "exit"
    /\ rState' = "STOPPED"
    /\ RGoto(r, "none")
    /\ UNCHANGED <<rQueue, rframe, delivered>> /\ ReaderOnly
-----------------------------------------------------------------------------
(* Bus::Writer::run                                                        *)

WGoto(w, l) == wpc' = [wpc EXCEPT ![w] = l]
WHold(w, f) == wframe' = [wframe EXCEPT ![w] = f]

(* Nothing but a writer thread moves.                                      *)
WriterOnly == UNCHANGED <<lifecycle, status, rState, rQueue, readerVars, rx, counters>>

WriterEnter(w) ==
    /\ wpc[w] = "new"
    /\ WGoto(w, IF wState = "STOPPED" THEN "begin" ELSE "poll")
    /\ UNCHANGED <<wState, wQueue, wframe, transmitted>> /\ WriterOnly

WriterRunStarted(w) ==
    /\ wpc[w] = "begin"
    /\ wState' = "RUNNING"
    /\ WGoto(w, "poll")
    /\ UNCHANGED <<wQueue, wframe, transmitted>> /\ WriterOnly

(* wQueue.poll(), in the loop and in the drain: wait for an element ...    *)
WriterObserve(w) ==
    /\ wpc[w] \in {"poll", "dpoll"} /\ wQueue # <<>>
    /\ WGoto(w, IF wpc[w] = "poll" THEN "take" ELSE "dtake")
    /\ UNCHANGED <<wState, wQueue, wframe, transmitted>> /\ WriterOnly

(* ... and take it.  A null is the sentinel and goes to the loop test.     *)
WriterTake(w) ==
    /\ wpc[w] = "take"
    /\ wQueue' = Rest(wQueue)
    /\ WHold(w, Polled(wQueue))
    /\ WGoto(w, IF Polled(wQueue) = Nil THEN "check" ELSE "write")
    /\ UNCHANGED <<wState, transmitted>> /\ WriterOnly

(* Mutant: the exception of a failed write is not caught and ends the      *)
(* thread.                                                                 *)
WriterWriteUncaught(w) ==
    /\ wpc[w] = "write" /\ DriverMutexFree
    /\ \/ /\ status = "OPENED" /\ transmitted' = Append(transmitted, wframe[w])
          /\ WHold(w, Nil) /\ WGoto(w, "check")
       \/ UNCHANGED <<transmitted, wframe>> /\ WGoto(w, "none")
    /\ UNCHANGED <<wState, wQueue>> /\ WriterOnly

(* Mutant: a frame the driver refused is queued again.                     *)
WriterWriteRequeues(w) ==
    /\ wpc[w] = "write" /\ DriverMutexFree
    /\ \/ status = "OPENED" /\ transmitted' = Append(transmitted, wframe[w]) /\ UNCHANGED wQueue
       \/ Len(wQueue) < Cap /\ wQueue' = Append(wQueue, wframe[w]) /\ UNCHANGED transmitted
    /\ WHold(w, Nil) /\ WGoto(w, "check")
    /\ UNCHANGED wState /\ WriterOnly

(* DriverImpl::write: refused unless open, and HdmiCecTx may fail; the     *)
(* exception is swallowed and the frame deleted either way.                *)
WriterWrite(w) ==
    /\ wpc[w] = "write" /\ DriverMutexFree
    /\ \/ status = "OPENED" /\ transmitted' = Append(transmitted, wframe[w])
       \/ UNCHANGED transmitted
    /\ WHold(w, Nil)
    /\ WGoto(w, "check")
    /\ UNCHANGED <<wState, wQueue>> /\ WriterOnly

(* Mutant: the loop does not test whether it should stop.                  *)
WriterCheckNever(w) ==
    /\ wpc[w] = "check"
    /\ WGoto(w, "poll")
    /\ UNCHANGED <<wState, wQueue, wframe, transmitted>> /\ WriterOnly

(* while (isRunning())                                                     *)
WriterCheck(w) ==
    /\ wpc[w] = "check"
    /\ WGoto(w, IF wState = "RUNNING" THEN "poll" ELSE "leave")
    /\ UNCHANGED <<wState, wQueue, wframe, transmitted>> /\ WriterOnly

(* if (!isRunning()), a second read of the state.                          *)
WriterLeave(w) ==
    /\ wpc[w] = "leave"
    /\ WGoto(w, IF wState # "RUNNING" THEN "drain" ELSE "exit")
    /\ UNCHANGED <<wState, wQueue, wframe, transmitted>> /\ WriterOnly

(* while (wQueue.size() > 0)                                               *)
DrainSize(w) ==
    /\ wpc[w] = "drain"
    /\ WGoto(w, IF wQueue # <<>> THEN "dpoll" ELSE "exit")
    /\ UNCHANGED <<wState, wQueue, wframe, transmitted>> /\ WriterOnly

DrainTake(w) ==
    /\ wpc[w] = "dtake"
    /\ wQueue' = Rest(wQueue)
    /\ WGoto(w, "drain")
    /\ UNCHANGED <<wState, wframe, transmitted>> /\ WriterOnly

WriterExit(w) ==
    /\ wpc[w] = "exit"
    /\ wState' = "STOPPED"
    /\ WGoto(w, "none")
    /\ UNCHANGED <<wQueue, wframe, transmitted>> /\ WriterOnly
-----------------------------------------------------------------------------
(* The HAL and the application                                             *)

(* DriverReceiveCallback: getIncomingQueue reads the status with no lock.  *)
RxCheck ==
    /\ rx = Nil /\ receives < MaxReceives
    /\ status = "OPENED"
    /\ receives' = receives + 1
    /\ rx' = receives'
    /\ UNCHANGED <<lifecycle, status, rState, wState, queues, readerVars, writerVars,
                   inits, sends, reopens>>

(* Mutant: the frame overtakes the ones already queued.                    *)
RxOfferFront ==
    /\ rx # Nil
    /\ rQueue' = IF Len(rQueue) = Cap THEN rQueue ELSE <<rx>> \o rQueue
    /\ rx' = Nil
    /\ UNCHANGED <<lifecycle, status, rState, wState, wQueue, readerVars, writerVars, counters>>

(* ... and the frame is offered later; a full queue discards it.           *)
RxOffer ==
    /\ rx # Nil
    /\ rQueue' = IF Len(rQueue) = Cap THEN rQueue ELSE Append(rQueue, rx)
    /\ rx' = Nil
    /\ UNCHANGED <<lifecycle, status, rState, wState, wQueue, readerVars, writerVars, counters>>

(* Mutant: the frame overtakes the ones already queued.                    *)
SendAsyncFront ==
    /\ WMutexFree /\ started
    /\ sends < MaxSends /\ Len(wQueue) < Cap
    /\ sends' = sends + 1
    /\ wQueue' = <<sends'>> \o wQueue
    /\ UNCHANGED <<lifecycle, status, rState, wState, rQueue, readerVars, writerVars, rx,
                   inits, receives, reopens>>

(* Bus::sendAsync: throws when not started or when the queue is full.      *)
SendAsync ==
    /\ WMutexFree /\ started
    /\ sends < MaxSends /\ Len(wQueue) < Cap
    /\ sends' = sends + 1
    /\ wQueue' = Append(wQueue, sends')
    /\ UNCHANGED <<lifecycle, status, rState, wState, rQueue, readerVars, writerVars, rx,
                   inits, receives, reopens>>

(* Driver::close called by the application, under a running bus or not;    *)
(* the exception of a failing HdmiCecClose is the application's to handle. *)
AppClose ==
    /\ status = "OPENED" /\ reopens < MaxReopens
    /\ reopens' = reopens + 1
    /\ \E ok \in BOOLEAN : DriverClosed(ok)
    /\ UNCHANGED <<lifecycle, rState, wState, wQueue, readerVars, writerVars, rx,
                   inits, sends, receives>>

Terminating ==
    lc \in {"stop.flag", "stop.reader", "stop.close", "stop.rwait", "stop.writer", "stop.offer",
            "stop.wwait", "stop.closed", "term.close"}

(* Driver::open called by the application; a failure changes nothing.      *)
AppOpen ==
    /\ status = "CLOSED"
    /\ Terminating => ReopenDuringTerm
    /\ DriverOpened(TRUE)
    /\ UNCHANGED <<lifecycle, rState, wState, queues, readerVars, writerVars, rx, counters>>
-----------------------------------------------------------------------------
LifecycleStep ==
    \/ InitOpen \/ StartSpawn \/ StartOpen \/ InitDone
    \/ StopFlag \/ StopReader \/ StopClose \/ StopReaderWait
    \/ StopWriter \/ StopOffer \/ StopWriterWait \/ StopCloseAgain \/ TermClose

ReaderStep(r) ==
    \/ ReaderEnter(r) \/ ReaderRunStarted(r) \/ ReaderLoop(r)
    \/ ReadCheck(r) \/ ReadObserve(r) \/ ReadTake(r) \/ ReadNull(r)
    \/ FlushSize(r) \/ FlushTake(r) \/ NotifyLock(r) \/ Notify(r) \/ ReaderExit(r)

WriterStep(w) ==
    \/ WriterEnter(w) \/ WriterRunStarted(w) \/ WriterObserve(w) \/ WriterTake(w)
    \/ WriterWrite(w) \/ WriterCheck(w) \/ WriterLeave(w)
    \/ DrainSize(w) \/ DrainTake(w) \/ WriterExit(w)

Next ==
    \/ InitCall \/ TermCall \/ LifecycleStep
    \/ \E r \in Readers : ReaderStep(r)
    \/ \E w \in Writers : WriterStep(w)
    \/ RxCheck \/ RxOffer \/ SendAsync \/ AppClose \/ AppOpen

Spec == Init /\ [][Next]_vars

(* Threads and calls under way keep running.  No call, no reopening by the *)
(* application and no received frame is owed.                              *)
FairSpec ==
    /\ Spec
    /\ WF_vars(LifecycleStep) /\ WF_vars(RxOffer)
    /\ \A r \in Readers : WF_vars(ReaderStep(r))
    /\ \A w \in Writers : WF_vars(WriterStep(w))
-----------------------------------------------------------------------------
(* Properties                                                              *)

StoppableState == {"RUNNING", "STOPPING", "STOPPED"}
LifecyclePc == {"idle", "init.open", "start.spawn", "start.open", "init.done", "stop.flag",
                "stop.reader", "stop.close", "stop.rwait", "stop.writer", "stop.offer",
                "stop.wwait", "stop.closed", "term.close"}
ReaderPc == {"none", "new", "begin", "loop", "read", "poll", "take", "null", "flush", "fpoll",
             "ftake", "dispatch", "notify", "exit"}
WriterPc == {"none", "new", "begin", "poll", "take", "write", "check", "leave", "drain", "dpoll",
             "dtake", "exit"}

(* The variables have their types and no queue outgrows its capacity.      *)
TypeOK ==
    /\ lc \in LifecyclePc /\ initialized \in BOOLEAN /\ started \in BOOLEAN
    /\ status \in {"OPENED", "CLOSED"}
    /\ rState \in StoppableState /\ wState \in StoppableState
    /\ rQueue \in Seq(Nat) /\ Len(rQueue) <= Cap
    /\ wQueue \in Seq(Nat) /\ Len(wQueue) <= Cap
    /\ rpc \in [Readers -> ReaderPc] /\ rframe \in [Readers -> Nat]
    /\ wpc \in [Writers -> WriterPc] /\ wframe \in [Writers -> Nat]
    /\ rx \in Nat /\ delivered \in Seq(Nat) /\ transmitted \in Seq(Nat)
    /\ inits \in 0 .. MaxInits /\ sends \in 0 .. MaxSends
    /\ receives \in 0 .. MaxReceives /\ reopens \in 0 .. MaxReopens

LiveReaders == {r \in Readers : rpc[r] # "none"}
LiveWriters == {w \in Writers : wpc[w] # "none"}

(* start() never leaves two readers or two writers running, across any     *)
(* number of sessions: the queues are polled by one thread each, on which  *)
(* FIFO order and the flush in read() rest.                                *)
SingleWorkers ==
    /\ \A r1, r2 \in LiveReaders : r1 = r2
    /\ \A w1, w2 \in LiveWriters : w1 = w2

(* A reader that waits for frames on a driver that is no longer open has   *)
(* something in the queue to wake it: the close sentinel cannot be lost to *)
(* a full queue, a flush, or a reopening in between.                       *)
ReaderNeverStranded ==
    \A r \in Readers : rpc[r] = "poll" /\ status # "OPENED" => rQueue # <<>>

(* The flush loop of read() polls with the driver's mutex held, where a    *)
(* wait would block every open, close and write; and it only ever discards *)
(* frames of a driver that is closed.                                      *)
FlushIsSafe ==
    \A r \in Readers : /\ rpc[r] = "fpoll" => rQueue # <<>>
                       /\ rpc[r] \in {"flush", "fpoll", "ftake"} => status # "OPENED"

(* A writer told to stop has something in its queue to wake it, or is      *)
(* about to get it: once Writer::stop is past its offer, which a full queue*)
(* refuses, no writer waits on an empty queue; and its drain loop never    *)
(* waits, whatever it may have drained.  Bus::stop holds rMutex and wMutex *)
(* meanwhile.                                                              *)
WriterNeverStranded ==
    \A w \in Writers : \/ wpc[w] = "poll" /\ wState # "RUNNING" /\ lc # "stop.offer"
                       \/ wpc[w] = "dpoll"
                       => wQueue # <<>>

(* Frames reach HdmiCecTx in the order sendAsync accepted them.            *)
TransmitFIFO == \A i, j \in DOMAIN transmitted : i < j => transmitted[i] < transmitted[j]

(* Listeners see frames in the order the HAL handed them over.             *)
DeliverFIFO == \A i, j \in DOMAIN delivered : i < j => delivered[i] < delivered[j]

(* The frames a thread of one kind holds, or a queue does.                 *)
FramesIn(frame, queue) == (Range(frame) \cup Range(queue)) \ {Nil}

Transmission == INSTANCE FrameChannel WITH
    accepted <- sends, pending <- FramesIn(wframe, wQueue), out <- transmitted
Reception == INSTANCE FrameChannel WITH
    accepted <- receives, pending <- FramesIn(rframe, rQueue) \cup ({rx} \ {Nil}), out <- delivered

(* From sendAsync to HdmiCecTx, and from the callback to the listeners,    *)
(* the bus is a channel that loses but neither reorders nor repeats, across*)
(* stops, restarts, full queues and a driver that closes and reopens.      *)
TransmitChannel == Transmission!Spec
DeliverChannel == Reception!Spec

(* Frames are queued in the order of their numbers, behind the frame that  *)
(* a thread holds.                                                         *)
Ordered(frame, queue) ==
    /\ \A i, j \in DOMAIN queue :
           i < j /\ queue[i] # Nil /\ queue[j] # Nil => queue[i] < queue[j]
    /\ \A x \in DOMAIN frame, i \in DOMAIN queue :
           frame[x] # Nil /\ queue[i] # Nil => frame[x] < queue[i]

(* The inductive invariants behind the two channels: who holds a frame, and*)
(* that what is under way is in order and younger than what has come out.  *)
TransmitInv ==
    /\ \A w \in Writers : wframe[w] # Nil <=> wpc[w] = "write"
    /\ Ordered(wframe, wQueue) /\ TransmitFIFO
    /\ \A f \in FramesIn(wframe, wQueue) : f <= sends
    /\ \A i \in DOMAIN transmitted :
           transmitted[i] <= sends /\ \A f \in FramesIn(wframe, wQueue) : transmitted[i] < f

DeliverInv ==
    /\ \A r \in Readers : rframe[r] # Nil <=> rpc[r] \in {"dispatch", "notify"}
    /\ Ordered(rframe, rQueue) /\ DeliverFIFO
    /\ rx <= receives
    /\ \A f \in FramesIn(rframe, rQueue) : f <= receives /\ (rx # Nil => f < rx)
    /\ \A i \in DOMAIN delivered :
           /\ delivered[i] <= receives /\ (rx # Nil => delivered[i] < rx)
           /\ \A f \in FramesIn(rframe, rQueue) : delivered[i] < f

(* A Stoppable that is STOPPED has no thread beyond the first lines of     *)
(* run(), and none at all while init or term relies on that.               *)
ReaderInv ==
    /\ \A r1, r2 \in LiveReaders : r1 = r2
    /\ \A r \in Readers : rpc[r] = "begin" => rState = "STOPPED"
    /\ rState = "STOPPED" => \A r \in Readers : rpc[r] \in {"none", "new", "begin"}
    /\ rState = "STOPPED" /\ (lc \in {"init.open", "start.spawn"} \/ Terminating) =>
           \A r \in Readers : rpc[r] = "none"
    /\ lc \in {"stop.writer", "stop.offer", "stop.wwait", "stop.closed", "term.close"} =>
           rState = "STOPPED"

(* What a writer that has drained its queue leaves in it: nothing, or the  *)
(* sentinel of the stop that ended it, if that came later.                 *)
Drained == wQueue = <<>> \/ (wQueue = <<Nil>> /\ lc # "stop.offer")

(* The same for the writer, and what its queue holds around a stop.        *)
WriterInv ==
    /\ \A w1, w2 \in LiveWriters : w1 = w2
    /\ \A w \in Writers : wpc[w] = "begin" => wState = "STOPPED"
    /\ wState = "STOPPED" => \A w \in Writers : wpc[w] \in {"none", "new", "begin"}
    /\ wState = "STOPPED" /\ (lc \in {"init.open", "start.spawn"} \/ Terminating) =>
           \A w \in Writers : wpc[w] = "none"
    /\ wState = "STOPPING" => lc \in {"stop.offer", "stop.wwait"}
    /\ lc = "stop.offer" => wState # "RUNNING"
    /\ lc \in {"stop.closed", "term.close"} => wState = "STOPPED"
    /\ Terminating /\ started => lc = "stop.flag"
    /\ \A w \in Writers : wpc[w] \in {"leave", "drain", "dpoll", "dtake", "exit"} => wState = "STOPPING"
    /\ \A w \in Writers : wpc[w] \in {"new", "poll"} /\ wState = "STOPPING" =>
           wQueue # <<>> \/ lc = "stop.offer"
    /\ \A w \in Writers : wpc[w] = "dpoll" => wQueue # <<>>
    /\ \A w \in Writers : wpc[w] = "exit" => Drained
    /\ wState = "STOPPED" /\ LiveWriters = {} => Drained
    /\ wState = "STOPPED" /\ (started \/ lc = "start.open") => LiveWriters # {}

(* The inductive invariant behind the safety properties above.             *)
IInv == TypeOK /\ ReaderInv /\ WriterInv /\ ReaderNeverStranded /\ FlushIsSafe

(* When term() succeeds no reader or writer thread is left and no frame    *)
(* waits to be sent: a frame accepted in one session is never transmitted  *)
(* in the next.  What may be left is one sentinel, offered to a writer that*)
(* had already seen STOPPING; the next session's writer finds it, and it is*)
(* never more than one however many sessions there are.                    *)
QuiescentAfterTerm ==
    [][initialized /\ ~initialized' =>
           LiveReaders' = {} /\ LiveWriters' = {} /\ wQueue' \in {<<>>, <<Nil>>}]_vars

(* term() returns: neither of its two waits is for ever, whatever frames   *)
(* arrive and however full the queues are.                                 *)
TermReturns == (lc = "stop.flag") ~> (lc = "idle")

(* A frame accepted by sendAsync leaves the queue and the writer's hands:  *)
(* it is transmitted, refused by the driver, or discarded by a stop.       *)
AsyncSettles ==
    \A f \in 1 .. MaxSends :
        (f \in Range(wQueue)) ~> (f \notin Range(wQueue) /\ \A w \in Writers : wframe[w] # f)

(* A received frame is dispatched unless the bus stops or somebody closes  *)
(* the driver first.                                                       *)
ReceiveSettles ==
    \A f \in 1 .. MaxReceives :
        (f \in Range(rQueue)) ~> (f \in Range(delivered) \/ ~started \/ status # "OPENED")
=============================================================================
