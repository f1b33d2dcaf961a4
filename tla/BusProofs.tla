------------------------------ MODULE BusProofs ------------------------------
(***************************************************************************)
(* Proofs about Bus, for any number of thread slots, sessions, frames and  *)
(* any queue capacity.                                                     *)
(***************************************************************************)
EXTENDS Bus, TLAPS

USE BusAssumption DEF BusAssumption

(* The queue operations keep the type and the bound of a queue.            *)
LEMMA QueueFacts ==
    ASSUME NEW q \in Seq(Nat), Len(q) <= Cap
    PROVE  /\ OfferSentinel(q) \in Seq(Nat) /\ Len(OfferSentinel(q)) <= Cap
           /\ OfferSentinel(q) # <<>>
           /\ Rest(q) \in Seq(Nat) /\ Len(Rest(q)) <= Cap
           /\ Polled(q) \in Nat
           /\ \A f \in Nat : Len(q) # Cap => /\ Append(q, f) \in Seq(Nat)
                                             /\ Len(Append(q, f)) <= Cap
                                             /\ Append(q, f) # <<>>
<1>1. CASE q = <<>>
  BY <1>1 DEF OfferSentinel, Rest, Polled, Nil
<1>2. CASE q # <<>>
  BY <1>2 DEF OfferSentinel, Rest, Polled, Nil
<1> QED
  BY <1>1, <1>2

(* Every step preserves the types.                                        *)
LEMMA TypeStep ==
    ASSUME TypeOK, [Next]_vars
    PROVE  TypeOK'
<1> USE DEF TypeOK, LifecyclePc, StoppableState, ReaderPc, WriterPc, Nil, vars, lifecycle, queues, readerVars, writerVars, counters
<1>1. CASE InitCall
  BY <1>1 DEF InitCall
<1>2. CASE InitOpen
  BY <1>2 DEF InitOpen, DriverOpened
<1>3. CASE StartSpawn
  BY <1>3 DEF StartSpawn
<1>4. CASE StartOpen
  BY <1>4 DEF StartOpen, DriverOpened
<1>5. CASE InitDone
  BY <1>5 DEF InitDone
<1>6. CASE TermCall
  BY <1>6 DEF TermCall
<1>7. CASE StopFlag
  BY <1>7 DEF StopFlag
<1>8. CASE StopReader
  BY <1>8 DEF StopReader, StopStarted
<1>9. CASE StopClose
  BY <1>9, QueueFacts DEF StopClose, DriverClosed
<1>10. CASE StopReaderWait
  BY <1>10 DEF StopReaderWait
<1>11. CASE StopWriter
  BY <1>11 DEF StopWriter, StopStarted
<1>50. CASE StopOffer
  BY <1>50, QueueFacts DEF StopOffer
<1>12. CASE StopWriterWait
  BY <1>12 DEF StopWriterWait
<1>13. CASE StopCloseAgain
  BY <1>13, QueueFacts DEF StopCloseAgain, DriverClosed
<1>14. CASE TermClose
  BY <1>14, QueueFacts DEF TermClose, DriverClosed
<1>15. ASSUME NEW r \in Readers, ReaderEnter(r) PROVE TypeOK'
  BY <1>15 DEF ReaderEnter, ReaderOnly, RGoto
<1>16. ASSUME NEW r \in Readers, ReaderRunStarted(r) PROVE TypeOK'
  BY <1>16 DEF ReaderRunStarted, ReaderOnly, RGoto
<1>17. ASSUME NEW r \in Readers, ReaderLoop(r) PROVE TypeOK'
  BY <1>17 DEF ReaderLoop, ReaderOnly, RGoto
<1>18. ASSUME NEW r \in Readers, ReadCheck(r) PROVE TypeOK'
  BY <1>18 DEF ReadCheck, ReaderOnly, RGoto
<1>19. ASSUME NEW r \in Readers, ReadObserve(r) PROVE TypeOK'
  BY <1>19 DEF ReadObserve, ReaderOnly, RGoto
<1>20. ASSUME NEW r \in Readers, ReadTake(r) PROVE TypeOK'
  BY <1>20, QueueFacts, ZenonT(40) DEF ReadTake, ReaderOnly, RGoto, RHold
<1>21. ASSUME NEW r \in Readers, ReadNull(r) PROVE TypeOK'
  BY <1>21 DEF ReadNull, ReaderOnly, RGoto
<1>22. ASSUME NEW r \in Readers, FlushSize(r) PROVE TypeOK'
  BY <1>22 DEF FlushSize, ReaderOnly, RGoto
<1>23. ASSUME NEW r \in Readers, FlushTake(r) PROVE TypeOK'
  BY <1>23, QueueFacts, ZenonT(40) DEF FlushTake, ReaderOnly, RGoto
<1>24. ASSUME NEW r \in Readers, NotifyLock(r) PROVE TypeOK'
  BY <1>24 DEF NotifyLock, ReaderOnly, RGoto
<1>25. ASSUME NEW r \in Readers, Notify(r) PROVE TypeOK'
  BY <1>25 DEF Notify, ReaderOnly, RGoto, RHold
<1>26. ASSUME NEW r \in Readers, ReaderExit(r) PROVE TypeOK'
  BY <1>26 DEF ReaderExit, ReaderOnly, RGoto
<1>27. ASSUME NEW w \in Writers, WriterEnter(w) PROVE TypeOK'
  BY <1>27 DEF WriterEnter, WriterOnly, WGoto
<1>28. ASSUME NEW w \in Writers, WriterRunStarted(w) PROVE TypeOK'
  BY <1>28 DEF WriterRunStarted, WriterOnly, WGoto
<1>29. ASSUME NEW w \in Writers, WriterObserve(w) PROVE TypeOK'
  BY <1>29 DEF WriterObserve, WriterOnly, WGoto
<1>30. ASSUME NEW w \in Writers, WriterTake(w) PROVE TypeOK'
  BY <1>30, QueueFacts, ZenonT(40) DEF WriterTake, WriterOnly, WGoto, WHold
<1>31. ASSUME NEW w \in Writers, WriterWrite(w) PROVE TypeOK'
  <2>1. transmitted' \in Seq(Nat)
    <3>1. \A s \in Seq(Nat), f \in Nat : Append(s, f) \in Seq(Nat)
      OBVIOUS
    <3>3. transmitted \in Seq(Nat) /\ wframe[w] \in Nat
      OBVIOUS
    <3>2. transmitted' = transmitted \/ transmitted' = Append(transmitted, wframe[w])
      BY <1>31 DEF WriterWrite
    <3> QED
      BY <3>1, <3>2, <3>3, Zenon
  <2>2. wpc' \in [Writers -> WriterPc] /\ wframe' \in [Writers -> Nat]
    BY <1>31 DEF WriterWrite, WGoto, WHold
  <2>3. UNCHANGED <<lc, initialized, started, status, rState, wState, rQueue, wQueue, rpc, rframe,
                    delivered, rx, inits, sends, receives, reopens>>
    BY <1>31 DEF WriterWrite, WriterOnly
  <2> QED
    BY <2>1, <2>2, <2>3
<1>32. ASSUME NEW w \in Writers, WriterCheck(w) PROVE TypeOK'
  BY <1>32 DEF WriterCheck, WriterOnly, WGoto
<1>33. ASSUME NEW w \in Writers, WriterLeave(w) PROVE TypeOK'
  BY <1>33 DEF WriterLeave, WriterOnly, WGoto
<1>34. ASSUME NEW w \in Writers, DrainSize(w) PROVE TypeOK'
  BY <1>34 DEF DrainSize, WriterOnly, WGoto
<1>35. ASSUME NEW w \in Writers, DrainTake(w) PROVE TypeOK'
  BY <1>35, QueueFacts, ZenonT(40) DEF DrainTake, WriterOnly, WGoto
<1>36. ASSUME NEW w \in Writers, WriterExit(w) PROVE TypeOK'
  BY <1>36 DEF WriterExit, WriterOnly, WGoto
<1>37. CASE RxCheck
  BY <1>37 DEF RxCheck
<1>38. CASE RxOffer
  BY <1>38, QueueFacts DEF RxOffer
<1>39. CASE SendAsync
  <2>1. sends' \in 0 .. MaxSends /\ sends' \in Nat
    BY <1>39 DEF SendAsync
  <2>2. wQueue' \in Seq(Nat) /\ Len(wQueue') <= Cap
    BY <1>39, <2>1, QueueFacts DEF SendAsync
  <2> QED
    BY <1>39, <2>1, <2>2 DEF SendAsync
<1>40. CASE AppClose
  <2>1. reopens' \in 0 .. MaxReopens
    BY <1>40 DEF AppClose
  <2>2. rQueue' \in Seq(Nat) /\ Len(rQueue') <= Cap /\ status' = "CLOSED"
    BY <1>40, QueueFacts DEF AppClose, DriverClosed
  <2> QED
    BY <1>40, <2>1, <2>2 DEF AppClose
<1>41. CASE AppOpen
  BY <1>41 DEF AppOpen, DriverOpened
<1>42. CASE UNCHANGED vars
  BY <1>42
<1> QED
  BY <1>1, <1>2, <1>3, <1>4, <1>5, <1>6, <1>7, <1>8, <1>9, <1>10, <1>11, <1>12, <1>13,
     <1>14, <1>15, <1>16, <1>17, <1>18, <1>19, <1>20, <1>21, <1>22, <1>23, <1>24, <1>25,
     <1>26, <1>27, <1>28, <1>29, <1>30, <1>31, <1>32, <1>33, <1>34, <1>35, <1>36, <1>37,
     <1>38, <1>39, <1>40, <1>41, <1>42, <1>50
     DEF Next, LifecycleStep, ReaderStep, WriterStep

(* At most one reader thread, gone once the state is STOPPED.              *)
LEMMA ReaderStepInv ==
    ASSUME ~HastyCalls, TypeOK, ReaderInv, [Next]_vars
    PROVE  ReaderInv'
<1> USE DEF TypeOK, ReaderInv, LiveReaders, Terminating, ThreadsPending, vars, lifecycle, queues, readerVars, writerVars, counters
<1>1. CASE InitCall
  BY <1>1 DEF InitCall
<1>2. CASE InitOpen
  BY <1>2 DEF InitOpen, DriverOpened
<1>3. CASE StartSpawn
  BY <1>3 DEF StartSpawn
<1>4. CASE StartOpen
  BY <1>4 DEF StartOpen, DriverOpened
<1>5. CASE InitDone
  BY <1>5 DEF InitDone
<1>6. CASE TermCall
  BY <1>6 DEF TermCall
<1>7. CASE StopFlag
  BY <1>7 DEF StopFlag
<1>8. CASE StopReader
  BY <1>8 DEF StopReader, StopStarted
<1>9. CASE StopClose
  BY <1>9 DEF StopClose, DriverClosed
<1>10. CASE StopReaderWait
  BY <1>10 DEF StopReaderWait
<1>11. CASE StopWriter
  BY <1>11 DEF StopWriter, StopStarted
<1>50. CASE StopOffer
  BY <1>50 DEF StopOffer
<1>12. CASE StopWriterWait
  BY <1>12 DEF StopWriterWait
<1>13. CASE StopCloseAgain
  BY <1>13 DEF StopCloseAgain, DriverClosed
<1>14. CASE TermClose
  BY <1>14 DEF TermClose, DriverClosed
<1>15. ASSUME NEW r \in Readers, ReaderEnter(r) PROVE ReaderInv'
  BY <1>15 DEF ReaderEnter, ReaderOnly, RGoto
<1>16. ASSUME NEW r \in Readers, ReaderRunStarted(r) PROVE ReaderInv'
  BY <1>16 DEF ReaderRunStarted, ReaderOnly, RGoto
<1>17. ASSUME NEW r \in Readers, ReaderLoop(r) PROVE ReaderInv'
  BY <1>17 DEF ReaderLoop, ReaderOnly, RGoto
<1>18. ASSUME NEW r \in Readers, ReadCheck(r) PROVE ReaderInv'
  BY <1>18 DEF ReadCheck, ReaderOnly, RGoto
<1>19. ASSUME NEW r \in Readers, ReadObserve(r) PROVE ReaderInv'
  BY <1>19 DEF ReadObserve, ReaderOnly, RGoto
<1>20. ASSUME NEW r \in Readers, ReadTake(r) PROVE ReaderInv'
  BY <1>20 DEF ReadTake, ReaderOnly, RGoto, RHold
<1>21. ASSUME NEW r \in Readers, ReadNull(r) PROVE ReaderInv'
  BY <1>21 DEF ReadNull, ReaderOnly, RGoto
<1>22. ASSUME NEW r \in Readers, FlushSize(r) PROVE ReaderInv'
  BY <1>22 DEF FlushSize, ReaderOnly, RGoto
<1>23. ASSUME NEW r \in Readers, FlushTake(r) PROVE ReaderInv'
  BY <1>23 DEF FlushTake, ReaderOnly, RGoto
<1>24. ASSUME NEW r \in Readers, NotifyLock(r) PROVE ReaderInv'
  BY <1>24 DEF NotifyLock, ReaderOnly, RGoto
<1>25. ASSUME NEW r \in Readers, Notify(r) PROVE ReaderInv'
  BY <1>25 DEF Notify, ReaderOnly, RGoto, RHold
<1>26. ASSUME NEW r \in Readers, ReaderExit(r) PROVE ReaderInv'
  BY <1>26 DEF ReaderExit, ReaderOnly, RGoto
<1>27. ASSUME NEW w \in Writers, WriterEnter(w) PROVE ReaderInv'
  BY <1>27 DEF WriterEnter, WriterOnly, WGoto
<1>28. ASSUME NEW w \in Writers, WriterRunStarted(w) PROVE ReaderInv'
  BY <1>28 DEF WriterRunStarted, WriterOnly, WGoto
<1>29. ASSUME NEW w \in Writers, WriterObserve(w) PROVE ReaderInv'
  BY <1>29 DEF WriterObserve, WriterOnly, WGoto
<1>30. ASSUME NEW w \in Writers, WriterTake(w) PROVE ReaderInv'
  BY <1>30 DEF WriterTake, WriterOnly, WGoto, WHold
<1>31. ASSUME NEW w \in Writers, WriterWrite(w) PROVE ReaderInv'
  BY <1>31 DEF WriterWrite, WriterOnly, WGoto, WHold
<1>32. ASSUME NEW w \in Writers, WriterCheck(w) PROVE ReaderInv'
  BY <1>32 DEF WriterCheck, WriterOnly, WGoto
<1>33. ASSUME NEW w \in Writers, WriterLeave(w) PROVE ReaderInv'
  BY <1>33 DEF WriterLeave, WriterOnly, WGoto
<1>34. ASSUME NEW w \in Writers, DrainSize(w) PROVE ReaderInv'
  BY <1>34 DEF DrainSize, WriterOnly, WGoto
<1>35. ASSUME NEW w \in Writers, DrainTake(w) PROVE ReaderInv'
  BY <1>35 DEF DrainTake, WriterOnly, WGoto
<1>36. ASSUME NEW w \in Writers, WriterExit(w) PROVE ReaderInv'
  BY <1>36 DEF WriterExit, WriterOnly, WGoto
<1>37. CASE RxCheck
  BY <1>37 DEF RxCheck
<1>38. CASE RxOffer
  BY <1>38 DEF RxOffer
<1>39. CASE SendAsync
  BY <1>39 DEF SendAsync
<1>40. CASE AppClose
  BY <1>40 DEF AppClose, DriverClosed
<1>41. CASE AppOpen
  BY <1>41 DEF AppOpen, DriverOpened
<1>42. CASE UNCHANGED vars
  BY <1>42
<1> QED
  BY <1>1, <1>2, <1>3, <1>4, <1>5, <1>6, <1>7, <1>8, <1>9, <1>10, <1>11, <1>12, <1>13,
     <1>14, <1>15, <1>16, <1>17, <1>18, <1>19, <1>20, <1>21, <1>22, <1>23, <1>24, <1>25,
     <1>26, <1>27, <1>28, <1>29, <1>30, <1>31, <1>32, <1>33, <1>34, <1>35, <1>36, <1>37,
     <1>38, <1>39, <1>40, <1>41, <1>42, <1>50
     DEF Next, LifecycleStep, ReaderStep, WriterStep

(* The sentinel of close() and the flush.                                  *)
LEMMA DriverStepInv ==
    ASSUME TypeOK, ReaderInv, ReaderNeverStranded, FlushIsSafe, [Next]_vars
    PROVE  (ReaderNeverStranded /\ FlushIsSafe)'
<1> USE DEF TypeOK, ReaderInv, ReaderNeverStranded, FlushIsSafe, LiveReaders, DriverMutexFree, vars, lifecycle, queues, readerVars, writerVars, counters
<1>1. CASE InitCall
  BY <1>1 DEF InitCall
<1>2. CASE InitOpen
  BY <1>2 DEF InitOpen, DriverOpened
<1>3. CASE StartSpawn
  BY <1>3 DEF StartSpawn
<1>4. CASE StartOpen
  BY <1>4 DEF StartOpen, DriverOpened
<1>5. CASE InitDone
  BY <1>5 DEF InitDone
<1>6. CASE TermCall
  BY <1>6 DEF TermCall
<1>7. CASE StopFlag
  BY <1>7 DEF StopFlag
<1>8. CASE StopReader
  BY <1>8 DEF StopReader, StopStarted
<1>9. CASE StopClose
  BY <1>9, QueueFacts DEF StopClose, DriverClosed
<1>10. CASE StopReaderWait
  BY <1>10 DEF StopReaderWait
<1>11. CASE StopWriter
  BY <1>11 DEF StopWriter, StopStarted
<1>50. CASE StopOffer
  BY <1>50, QueueFacts DEF StopOffer
<1>12. CASE StopWriterWait
  BY <1>12 DEF StopWriterWait
<1>13. CASE StopCloseAgain
  BY <1>13, QueueFacts DEF StopCloseAgain, DriverClosed
<1>14. CASE TermClose
  BY <1>14, QueueFacts DEF TermClose, DriverClosed
<1>15. ASSUME NEW r \in Readers, ReaderEnter(r) PROVE (ReaderNeverStranded /\ FlushIsSafe)'
  BY <1>15 DEF ReaderEnter, ReaderOnly, RGoto
<1>16. ASSUME NEW r \in Readers, ReaderRunStarted(r) PROVE (ReaderNeverStranded /\ FlushIsSafe)'
  BY <1>16 DEF ReaderRunStarted, ReaderOnly, RGoto
<1>17. ASSUME NEW r \in Readers, ReaderLoop(r) PROVE (ReaderNeverStranded /\ FlushIsSafe)'
  BY <1>17 DEF ReaderLoop, ReaderOnly, RGoto
<1>18. ASSUME NEW r \in Readers, ReadCheck(r) PROVE (ReaderNeverStranded /\ FlushIsSafe)'
  BY <1>18 DEF ReadCheck, ReaderOnly, RGoto
<1>19. ASSUME NEW r \in Readers, ReadObserve(r) PROVE (ReaderNeverStranded /\ FlushIsSafe)'
  BY <1>19 DEF ReadObserve, ReaderOnly, RGoto
<1>20. ASSUME NEW r \in Readers, ReadTake(r) PROVE (ReaderNeverStranded /\ FlushIsSafe)'
  <2>1. \A x \in Readers : rpc'[x] \in {"none", "null", "dispatch"}
    BY <1>20 DEF ReadTake, RGoto
  <2> QED
    BY <2>1
<1>21. ASSUME NEW r \in Readers, ReadNull(r) PROVE (ReaderNeverStranded /\ FlushIsSafe)'
  BY <1>21 DEF ReadNull, ReaderOnly, RGoto
<1>22. ASSUME NEW r \in Readers, FlushSize(r) PROVE (ReaderNeverStranded /\ FlushIsSafe)'
  BY <1>22 DEF FlushSize, ReaderOnly, RGoto
<1>23. ASSUME NEW r \in Readers, FlushTake(r) PROVE (ReaderNeverStranded /\ FlushIsSafe)'
  <2>1. \A x \in Readers : rpc'[x] \in {"none", "flush"}
    BY <1>23 DEF FlushTake, RGoto
  <2>2. status # "OPENED" /\ status' = status
    BY <1>23 DEF FlushTake, ReaderOnly
  <2> QED
    BY <2>1, <2>2
<1>24. ASSUME NEW r \in Readers, NotifyLock(r) PROVE (ReaderNeverStranded /\ FlushIsSafe)'
  BY <1>24 DEF NotifyLock, ReaderOnly, RGoto
<1>25. ASSUME NEW r \in Readers, Notify(r) PROVE (ReaderNeverStranded /\ FlushIsSafe)'
  BY <1>25 DEF Notify, ReaderOnly, RGoto, RHold
<1>26. ASSUME NEW r \in Readers, ReaderExit(r) PROVE (ReaderNeverStranded /\ FlushIsSafe)'
  BY <1>26 DEF ReaderExit, ReaderOnly, RGoto
<1>27. ASSUME NEW w \in Writers, WriterEnter(w) PROVE (ReaderNeverStranded /\ FlushIsSafe)'
  BY <1>27 DEF WriterEnter, WriterOnly, WGoto
<1>28. ASSUME NEW w \in Writers, WriterRunStarted(w) PROVE (ReaderNeverStranded /\ FlushIsSafe)'
  BY <1>28 DEF WriterRunStarted, WriterOnly, WGoto
<1>29. ASSUME NEW w \in Writers, WriterObserve(w) PROVE (ReaderNeverStranded /\ FlushIsSafe)'
  BY <1>29 DEF WriterObserve, WriterOnly, WGoto
<1>30. ASSUME NEW w \in Writers, WriterTake(w) PROVE (ReaderNeverStranded /\ FlushIsSafe)'
  BY <1>30, QueueFacts DEF WriterTake, WriterOnly, WGoto, WHold
<1>31. ASSUME NEW w \in Writers, WriterWrite(w) PROVE (ReaderNeverStranded /\ FlushIsSafe)'
  BY <1>31 DEF WriterWrite, WriterOnly, WGoto, WHold
<1>32. ASSUME NEW w \in Writers, WriterCheck(w) PROVE (ReaderNeverStranded /\ FlushIsSafe)'
  BY <1>32 DEF WriterCheck, WriterOnly, WGoto
<1>33. ASSUME NEW w \in Writers, WriterLeave(w) PROVE (ReaderNeverStranded /\ FlushIsSafe)'
  BY <1>33 DEF WriterLeave, WriterOnly, WGoto
<1>34. ASSUME NEW w \in Writers, DrainSize(w) PROVE (ReaderNeverStranded /\ FlushIsSafe)'
  BY <1>34 DEF DrainSize, WriterOnly, WGoto
<1>35. ASSUME NEW w \in Writers, DrainTake(w) PROVE (ReaderNeverStranded /\ FlushIsSafe)'
  BY <1>35, QueueFacts DEF DrainTake, WriterOnly, WGoto
<1>36. ASSUME NEW w \in Writers, WriterExit(w) PROVE (ReaderNeverStranded /\ FlushIsSafe)'
  BY <1>36 DEF WriterExit, WriterOnly, WGoto
<1>37. CASE RxCheck
  BY <1>37 DEF RxCheck
<1>38. CASE RxOffer
  BY <1>38, QueueFacts DEF RxOffer
<1>39. CASE SendAsync
  BY <1>39, QueueFacts DEF SendAsync
<1>40. CASE AppClose
  BY <1>40, QueueFacts DEF AppClose, DriverClosed
<1>41. CASE AppOpen
  BY <1>41 DEF AppOpen, DriverOpened
<1>42. CASE UNCHANGED vars
  BY <1>42
<1> QED
  BY <1>1, <1>2, <1>3, <1>4, <1>5, <1>6, <1>7, <1>8, <1>9, <1>10, <1>11, <1>12, <1>13,
     <1>14, <1>15, <1>16, <1>17, <1>18, <1>19, <1>20, <1>21, <1>22, <1>23, <1>24, <1>25,
     <1>26, <1>27, <1>28, <1>29, <1>30, <1>31, <1>32, <1>33, <1>34, <1>35, <1>36, <1>37,
     <1>38, <1>39, <1>40, <1>41, <1>42, <1>50
     DEF Next, LifecycleStep, ReaderStep, WriterStep

(* At most one writer thread, and what its queue holds around a stop.      *)
LEMMA WriterStepInv ==
    ASSUME ~HastyCalls, TypeOK, WriterInv, [Next]_vars
    PROVE  WriterInv'
<1> USE DEF TypeOK, WriterInv, Drained, LiveWriters, Terminating, ThreadsPending, BusLocked, WMutexFree, vars, lifecycle, queues, readerVars, writerVars, counters
<1>1. CASE InitCall
  BY <1>1 DEF InitCall
<1>2. CASE InitOpen
  BY <1>2 DEF InitOpen, DriverOpened
<1>3. CASE StartSpawn
  BY <1>3 DEF StartSpawn
<1>4. CASE StartOpen
  BY <1>4 DEF StartOpen, DriverOpened
<1>5. CASE InitDone
  BY <1>5 DEF InitDone
<1>6. CASE TermCall
  BY <1>6 DEF TermCall
<1>7. CASE StopFlag
  BY <1>7 DEF StopFlag
<1>8. CASE StopReader
  BY <1>8 DEF StopReader, StopStarted
<1>9. CASE StopClose
  BY <1>9, QueueFacts DEF StopClose, DriverClosed
<1>10. CASE StopReaderWait
  BY <1>10 DEF StopReaderWait
<1>11. CASE StopWriter
  BY <1>11 DEF StopWriter, StopStarted
<1>50. CASE StopOffer
  <2>1. lc = "stop.offer" /\ lc' = "stop.wwait" /\ UNCHANGED <<wState, started, wpc>>
    BY <1>50 DEF StopOffer
  <2>2. wQueue' # <<>> /\ (wQueue = <<>> => wQueue' = <<Nil>>)
    <3>1. wQueue' = OfferSentinel(wQueue) /\ wQueue \in Seq(Nat) /\ Len(wQueue) <= Cap
      BY <1>50 DEF StopOffer
    <3>2. wQueue = <<>> => OfferSentinel(wQueue) = <<Nil>>
      BY DEF OfferSentinel
    <3> QED
      BY <3>1, <3>2, QueueFacts
  <2>3. \A w \in Writers : wpc[w] = "exit" => wQueue' = <<Nil>>
    BY <2>1, <2>2
  <2>4. wState = "STOPPED" /\ LiveWriters = {} => wQueue' = <<Nil>>
    BY <2>1, <2>2
  <2> QED
    BY <2>1, <2>2, <2>3, <2>4
<1>12. CASE StopWriterWait
  BY <1>12 DEF StopWriterWait
<1>13. CASE StopCloseAgain
  BY <1>13, QueueFacts DEF StopCloseAgain, DriverClosed
<1>14. CASE TermClose
  BY <1>14, QueueFacts DEF TermClose, DriverClosed
<1>15. ASSUME NEW r \in Readers, ReaderEnter(r) PROVE WriterInv'
  BY <1>15 DEF ReaderEnter, ReaderOnly, RGoto
<1>16. ASSUME NEW r \in Readers, ReaderRunStarted(r) PROVE WriterInv'
  BY <1>16 DEF ReaderRunStarted, ReaderOnly, RGoto
<1>17. ASSUME NEW r \in Readers, ReaderLoop(r) PROVE WriterInv'
  BY <1>17 DEF ReaderLoop, ReaderOnly, RGoto
<1>18. ASSUME NEW r \in Readers, ReadCheck(r) PROVE WriterInv'
  BY <1>18 DEF ReadCheck, ReaderOnly, RGoto
<1>19. ASSUME NEW r \in Readers, ReadObserve(r) PROVE WriterInv'
  BY <1>19 DEF ReadObserve, ReaderOnly, RGoto
<1>20. ASSUME NEW r \in Readers, ReadTake(r) PROVE WriterInv'
  BY <1>20, QueueFacts DEF ReadTake, ReaderOnly, RGoto, RHold
<1>21. ASSUME NEW r \in Readers, ReadNull(r) PROVE WriterInv'
  BY <1>21 DEF ReadNull, ReaderOnly, RGoto
<1>22. ASSUME NEW r \in Readers, FlushSize(r) PROVE WriterInv'
  BY <1>22 DEF FlushSize, ReaderOnly, RGoto
<1>23. ASSUME NEW r \in Readers, FlushTake(r) PROVE WriterInv'
  BY <1>23, QueueFacts DEF FlushTake, ReaderOnly, RGoto
<1>24. ASSUME NEW r \in Readers, NotifyLock(r) PROVE WriterInv'
  BY <1>24 DEF NotifyLock, ReaderOnly, RGoto
<1>25. ASSUME NEW r \in Readers, Notify(r) PROVE WriterInv'
  BY <1>25 DEF Notify, ReaderOnly, RGoto, RHold
<1>26. ASSUME NEW r \in Readers, ReaderExit(r) PROVE WriterInv'
  BY <1>26 DEF ReaderExit, ReaderOnly, RGoto
<1>27. ASSUME NEW w \in Writers, WriterEnter(w) PROVE WriterInv'
  BY <1>27 DEF WriterEnter, WriterOnly, WGoto
<1>28. ASSUME NEW w \in Writers, WriterRunStarted(w) PROVE WriterInv'
  BY <1>28 DEF WriterRunStarted, WriterOnly, WGoto
<1>29. ASSUME NEW w \in Writers, WriterObserve(w) PROVE WriterInv'
  BY <1>29 DEF WriterObserve, WriterOnly, WGoto
<1>30. ASSUME NEW w \in Writers, WriterTake(w) PROVE WriterInv'
  <2>1. \A x \in Writers : x # w => wpc'[x] = "none"
    BY <1>30 DEF WriterTake, WGoto
  <2>2. wpc'[w] \in {"check", "write"}
    BY <1>30 DEF WriterTake, WGoto
  <2>3. wState # "STOPPED" /\ UNCHANGED <<wState, lc, started>>
    BY <1>30 DEF WriterTake, WriterOnly
  <2> QED
    BY <2>1, <2>2, <2>3
<1>31. ASSUME NEW w \in Writers, WriterWrite(w) PROVE WriterInv'
  BY <1>31 DEF WriterWrite, WriterOnly, WGoto, WHold
<1>32. ASSUME NEW w \in Writers, WriterCheck(w) PROVE WriterInv'
  <2>1. wState \in {"RUNNING", "STOPPING"}
    BY <1>32 DEF WriterCheck, StoppableState
  <2> QED
    BY <1>32, <2>1 DEF WriterCheck, WriterOnly, WGoto
<1>33. ASSUME NEW w \in Writers, WriterLeave(w) PROVE WriterInv'
  BY <1>33 DEF WriterLeave, WriterOnly, WGoto
<1>34. ASSUME NEW w \in Writers, DrainSize(w) PROVE WriterInv'
  BY <1>34 DEF DrainSize, WriterOnly, WGoto
<1>35. ASSUME NEW w \in Writers, DrainTake(w) PROVE WriterInv'
  <2>1. \A x \in Writers : x # w => wpc'[x] = "none"
    BY <1>35 DEF DrainTake, WGoto
  <2>2. wpc'[w] = "drain"
    BY <1>35 DEF DrainTake, WGoto
  <2>3. wState = "STOPPING" /\ UNCHANGED <<wState, lc, started>>
    BY <1>35 DEF DrainTake, WriterOnly
  <2> QED
    BY <2>1, <2>2, <2>3
<1>36. ASSUME NEW w \in Writers, WriterExit(w) PROVE WriterInv'
  <2>1. \A x \in Writers : wpc'[x] = "none"
    BY <1>36 DEF WriterExit, WGoto
  <2>2. wState = "STOPPING" /\ wState' = "STOPPED" /\ UNCHANGED <<lc, started, wQueue>>
    BY <1>36 DEF WriterExit, WriterOnly
  <2>3. lc \in {"stop.offer", "stop.wwait"} /\ ~started /\ Drained
    BY <1>36, <2>2 DEF WriterExit
  <2> QED
    BY <2>1, <2>2, <2>3
<1>37. CASE RxCheck
  BY <1>37 DEF RxCheck
<1>38. CASE RxOffer
  BY <1>38, QueueFacts DEF RxOffer
<1>39. CASE SendAsync
  BY <1>39, QueueFacts, ZenonT(40) DEF SendAsync
<1>40. CASE AppClose
  BY <1>40 DEF AppClose
<1>41. CASE AppOpen
  BY <1>41 DEF AppOpen, DriverOpened
<1>42. CASE UNCHANGED vars
  BY <1>42
<1> QED
  BY <1>1, <1>2, <1>3, <1>4, <1>5, <1>6, <1>7, <1>8, <1>9, <1>10, <1>11, <1>12, <1>13,
     <1>14, <1>15, <1>16, <1>17, <1>18, <1>19, <1>20, <1>21, <1>22, <1>23, <1>24, <1>25,
     <1>26, <1>27, <1>28, <1>29, <1>30, <1>31, <1>32, <1>33, <1>34, <1>35, <1>36, <1>37,
     <1>38, <1>39, <1>40, <1>41, <1>42, <1>50
     DEF Next, LifecycleStep, ReaderStep, WriterStep

LEMMA InitType == Init => TypeOK
<1> SUFFICES ASSUME Init PROVE TypeOK
  OBVIOUS
<1>1. \A q : q = <<>> => q \in Seq(Nat) /\ Len(q) <= Cap
  OBVIOUS
<1>2. rpc \in [Readers -> ReaderPc]
  BY DEF Init, ReaderPc
<1>3. wpc \in [Writers -> WriterPc]
  BY DEF Init, WriterPc
<1>4. /\ rQueue \in Seq(Nat) /\ Len(rQueue) <= Cap
      /\ wQueue \in Seq(Nat) /\ Len(wQueue) <= Cap
      /\ delivered \in Seq(Nat) /\ transmitted \in Seq(Nat)
  BY <1>1, Zenon DEF Init
<1>5. rframe \in [Readers -> Nat] /\ wframe \in [Writers -> Nat] /\ rx \in Nat
  BY DEF Init, Nil
<1>6. /\ lc \in LifecyclePc /\ initialized \in BOOLEAN /\ started \in BOOLEAN
      /\ status \in {"OPENED", "CLOSED"}
      /\ rState \in StoppableState /\ wState \in StoppableState
  BY DEF Init, LifecyclePc, StoppableState
<1>7. /\ inits \in 0 .. MaxInits /\ sends \in 0 .. MaxSends
      /\ receives \in 0 .. MaxReceives /\ reopens \in 0 .. MaxReopens
  BY DEF Init
<1> QED
  BY <1>2, <1>3, <1>4, <1>5, <1>6, <1>7, Zenon DEF TypeOK

(* The inductive invariant holds as long as init and term are not called   *)
(* before the threads of the last start() have entered run().              *)
THEOREM Invariance == ASSUME ~HastyCalls PROVE Spec => []IInv
<1>1. Init => IInv
  <2> SUFFICES ASSUME Init PROVE IInv
    OBVIOUS
  <2>1. TypeOK
    BY InitType
  <2>2. ReaderInv
    BY DEF Init, ReaderInv, LiveReaders, Terminating
  <2>3. WriterInv
    BY DEF Init, WriterInv, LiveWriters, Terminating
  <2>4. ReaderNeverStranded /\ FlushIsSafe
    BY DEF Init, ReaderNeverStranded, FlushIsSafe
  <2> QED
    BY <2>1, <2>2, <2>3, <2>4 DEF IInv
<1>2. IInv /\ [Next]_vars => IInv'
  BY TypeStep, ReaderStepInv, DriverStepInv, WriterStepInv DEF IInv
<1> QED
  BY <1>1, <1>2, PTL DEF Spec

(* Types and queue bounds, with no assumption on when init and term are    *)
(* called.                                                                 *)
THEOREM TypeCorrect == Spec => []TypeOK
<1>1. Init => TypeOK
  BY InitType
<1>2. TypeOK /\ [Next]_vars => TypeOK'
  BY TypeStep
<1> QED
  BY <1>1, <1>2, PTL DEF Spec

(* start() never runs a second reader or writer next to an old one.        *)
THEOREM WorkersAreSingle == ASSUME ~HastyCalls PROVE Spec => []SingleWorkers
<1>1. IInv => SingleWorkers
  BY DEF IInv, ReaderInv, WriterInv, SingleWorkers
<1> QED
  BY <1>1, Invariance, PTL

(* A close of the driver always reaches a reader that waits for frames.    *)
THEOREM ReaderIsWoken == ASSUME ~HastyCalls PROVE Spec => []ReaderNeverStranded
<1>1. IInv => ReaderNeverStranded
  BY DEF IInv
<1> QED
  BY <1>1, Invariance, PTL

(* The flush never waits with the driver's mutex held and never discards   *)
(* a frame of an open driver.                                              *)
THEOREM FlushIsCorrect == ASSUME ~HastyCalls PROVE Spec => []FlushIsSafe
<1>1. IInv => FlushIsSafe
  BY DEF IInv
<1> QED
  BY <1>1, Invariance, PTL

(* Writer::stop always reaches a writer that waits for frames, once it has *)
(* come to its offer.                                                      *)
THEOREM WriterIsWoken == ASSUME ~HastyCalls PROVE Spec => []WriterNeverStranded
<1>1. IInv => WriterNeverStranded
  BY DEF IInv, TypeOK, StoppableState, WriterInv, WriterNeverStranded
<1> QED
  BY <1>1, Invariance, PTL

(* A successful term() leaves no thread and no queued frame behind, only a *)
(* sentinel that came too late for its writer.                             *)
THEOREM TermIsQuiescent == ASSUME ~HastyCalls PROVE Spec => QuiescentAfterTerm
<1> DEFINE Quiet == initialized /\ ~initialized' =>
                    LiveReaders' = {} /\ LiveWriters' = {} /\ wQueue' \in {<<>>, <<Nil>>}
<1>1. IInv /\ [Next]_vars => [Quiet]_vars
  <2> SUFFICES ASSUME IInv, Next, initialized, ~initialized'
               PROVE  LiveReaders' = {} /\ LiveWriters' = {} /\ wQueue' \in {<<>>, <<Nil>>}
    OBVIOUS
  <2>1. TermClose
    BY DEF Next, LifecycleStep, ReaderStep, WriterStep, lifecycle,
       InitCall, InitOpen, StartSpawn, StartOpen, InitDone, TermCall, StopFlag, StopReader,
       StopClose, StopReaderWait, StopWriter, StopOffer, StopWriterWait, StopCloseAgain,
       ReaderEnter, ReaderRunStarted, ReaderLoop, ReadCheck, ReadObserve, ReadTake, ReadNull,
       FlushSize, FlushTake, NotifyLock, Notify, ReaderExit, ReaderOnly,
       WriterEnter, WriterRunStarted, WriterObserve, WriterTake, WriterWrite, WriterCheck,
       WriterLeave, DrainSize, DrainTake, WriterExit, WriterOnly,
       RxCheck, RxOffer, SendAsync, AppClose, AppOpen
  <2>2. LiveReaders = {} /\ LiveWriters = {} /\ wQueue \in {<<>>, <<Nil>>}
    BY <2>1 DEF TermClose, IInv, ReaderInv, WriterInv, Drained, LiveReaders, LiveWriters, Terminating
  <2> QED
    BY <2>1, <2>2 DEF TermClose, LiveReaders, LiveWriters, readerVars, writerVars
<1> QED
  BY <1>1, Invariance, PTL DEF Spec, QuiescentAfterTerm
=============================================================================
