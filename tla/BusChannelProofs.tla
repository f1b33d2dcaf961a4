-------------------------- MODULE BusChannelProofs --------------------------
(***************************************************************************)
(* Both directions of the bus implement FrameChannel, for any number of    *)
(* thread slots, sessions and frames and any queue capacity.               *)
(***************************************************************************)
EXTENDS BusProofs

(* What a queue holds after an element was appended (EventQueue::offer).   *)
LEMMA AppendFacts ==
    ASSUME NEW q \in Seq(Nat), NEW x \in Nat
    PROVE  /\ Range(Append(q, x)) = Range(q) \cup {x}
           /\ \A i \in DOMAIN Append(q, x) : i \in DOMAIN q \/ i = Len(q) + 1
           /\ \A i \in DOMAIN q : Append(q, x)[i] = q[i] /\ i \in Nat /\ i < Len(q) + 1
           /\ Append(q, x)[Len(q) + 1] = x /\ Len(q) + 1 \notin DOMAIN q
<1> DEFINE a == Append(q, x)
<1>1. /\ a \in Seq(Nat) /\ Len(q) \in Nat /\ Len(a) = Len(q) + 1
      /\ DOMAIN a = 1 .. Len(q) + 1 /\ DOMAIN q = 1 .. Len(q)
      /\ \A i \in 1 .. Len(q) : a[i] = q[i]
      /\ a[Len(q) + 1] = x
    OBVIOUS
<1>2. Len(q) + 1 \in DOMAIN a /\ \A i \in DOMAIN q : i \in DOMAIN a
    BY <1>1
<1>3. \A i \in DOMAIN a : i \in DOMAIN q \/ i = Len(q) + 1
    BY <1>1
<1>4. Range(a) = Range(q) \cup {x}
    BY <1>1, <1>2, <1>3 DEF Range
<1> QED
    BY <1>1, <1>3, <1>4

(* What it holds after the front was taken (EventQueue::poll).             *)
LEMMA RestFacts ==
    ASSUME NEW q \in Seq(Nat), q # <<>>
    PROVE  /\ Head(q) = q[1] /\ 1 \in DOMAIN q /\ Tail(q) \in Seq(Nat)
           /\ \A i \in DOMAIN Tail(q) : i + 1 \in DOMAIN q /\ Tail(q)[i] = q[i + 1] /\ i \in Nat /\ i > 0
           /\ Range(q) = Range(Tail(q)) \cup {Head(q)}
<1> DEFINE t == Tail(q)
<1>1. /\ t \in Seq(Nat) /\ Len(q) \in Nat /\ Len(q) > 0 /\ Len(t) = Len(q) - 1
      /\ DOMAIN t = 1 .. Len(q) - 1 /\ DOMAIN q = 1 .. Len(q)
      /\ \A i \in 1 .. Len(q) - 1 : t[i] = q[i + 1]
      /\ Head(q) = q[1]
    OBVIOUS
<1>2. \A i \in DOMAIN t : i + 1 \in DOMAIN q /\ t[i] = q[i + 1]
    BY <1>1
<1>3. \A j \in DOMAIN q : j = 1 \/ (j - 1 \in DOMAIN t /\ t[j - 1] = q[j])
    BY <1>1
<1>4. Range(q) \subseteq Range(t) \cup {Head(q)}
    BY <1>1, <1>3 DEF Range
<1>5. 1 \in DOMAIN q
    BY <1>1
<1>6. Range(t) \cup {Head(q)} \subseteq Range(q)
    BY <1>1, <1>2, <1>5 DEF Range
<1> QED
    BY <1>1, <1>2, <1>4, <1>5, <1>6

(* A frame younger than all that are under way joins the end of the queue; *)
(* so does a sentinel.                                                     *)
LEMMA OrderedAppend ==
    ASSUME NEW D, NEW frame \in [D -> Nat], NEW q \in Seq(Nat), NEW x \in Nat,
           Ordered(frame, q), x # Nil => \A f \in FramesIn(frame, q) : f < x
    PROVE  /\ Ordered(frame, Append(q, x))
           /\ FramesIn(frame, Append(q, x)) = FramesIn(frame, q) \cup ({x} \ {Nil})
<1> DEFINE a == Append(q, x)
<1>1. /\ Range(a) = Range(q) \cup {x}
      /\ \A i \in DOMAIN a : i \in DOMAIN q \/ i = Len(q) + 1
      /\ \A i \in DOMAIN q : a[i] = q[i] /\ i \in Nat /\ i < Len(q) + 1
      /\ a[Len(q) + 1] = x /\ Len(q) + 1 \notin DOMAIN q /\ Len(q) \in Nat
    BY AppendFacts
<1> HIDE DEF a
<1>2. FramesIn(frame, a) = FramesIn(frame, q) \cup ({x} \ {Nil})
    BY <1>1 DEF FramesIn
<1>3. \A i \in DOMAIN q : q[i] # Nil => q[i] \in FramesIn(frame, q)
    BY DEF FramesIn, Range
<1>4. \A d \in D : frame[d] # Nil => frame[d] \in FramesIn(frame, q)
    BY DEF FramesIn, Range
<1>5. ASSUME NEW i \in DOMAIN a, NEW j \in DOMAIN a, i < j, a[i] # Nil, a[j] # Nil
      PROVE  a[i] < a[j]
    <2>1. i \in DOMAIN q
        BY <1>1, <1>5
    <2>2. CASE j \in DOMAIN q
        BY <1>1, <1>5, <2>1, <2>2 DEF Ordered
    <2>3. CASE j = Len(q) + 1
        BY <1>1, <1>3, <1>5, <2>1, <2>3
    <2> QED
        BY <1>1, <2>2, <2>3
<1>6. ASSUME NEW d \in DOMAIN frame, NEW i \in DOMAIN a, frame[d] # Nil, a[i] # Nil
      PROVE  frame[d] < a[i]
    <2>1. CASE i \in DOMAIN q
        BY <1>1, <1>6, <2>1 DEF Ordered
    <2>2. CASE i = Len(q) + 1
        BY <1>1, <1>4, <1>6, <2>2
    <2> QED
        BY <1>1, <2>1, <2>2
<1>7. Ordered(frame, a)
    BY <1>5, <1>6 DEF Ordered
<1> QED
    BY <1>2, <1>7 DEF a

(* The front of the queue, a frame or a sentinel, is thrown away.          *)
LEMMA OrderedTail ==
    ASSUME NEW D, NEW frame \in [D -> Nat], NEW q \in Seq(Nat), q # <<>>, Ordered(frame, q)
    PROVE  /\ Ordered(frame, Tail(q))
           /\ FramesIn(frame, Tail(q)) = FramesIn(frame, q) \ {Head(q)}
           /\ \A i \in DOMAIN Tail(q) : Head(q) # Nil /\ Tail(q)[i] # Nil => Head(q) < Tail(q)[i]
<1> DEFINE t == Tail(q)
<1>1. /\ Head(q) = q[1] /\ 1 \in DOMAIN q /\ t \in Seq(Nat)
      /\ \A i \in DOMAIN t : i + 1 \in DOMAIN q /\ t[i] = q[i + 1] /\ i \in Nat /\ i > 0
      /\ Range(q) = Range(t) \cup {Head(q)}
    BY RestFacts
<1> HIDE DEF t
<1>2. q[1] \in Nat /\ \A i \in DOMAIN t : t[i] \in Nat
    BY <1>1
<1>3. ASSUME NEW i \in DOMAIN t, NEW j \in DOMAIN t, i < j, t[i] # Nil, t[j] # Nil
      PROVE  t[i] < t[j]
    <2>1. i + 1 \in DOMAIN q /\ j + 1 \in DOMAIN q /\ i + 1 < j + 1
        BY <1>1, <1>3
    <2> QED
        BY <1>1, <1>3, <2>1 DEF Ordered
<1>4. ASSUME NEW d \in DOMAIN frame, NEW i \in DOMAIN t, frame[d] # Nil, t[i] # Nil
      PROVE  frame[d] < t[i]
    BY <1>1, <1>4 DEF Ordered
<1>5. Ordered(frame, t)
    BY <1>3, <1>4 DEF Ordered
<1>6. ASSUME NEW i \in DOMAIN t, q[1] # Nil, t[i] # Nil PROVE q[1] < t[i]
    <2>1. i + 1 \in DOMAIN q /\ 1 < i + 1 /\ t[i] = q[i + 1]
        BY <1>1
    <2> QED
        BY <1>1, <1>6, <2>1 DEF Ordered
<1>7. q[1] # Nil => q[1] \notin Range(t)
    BY <1>2, <1>6 DEF Range
<1>8. ASSUME NEW d \in D, q[1] # Nil PROVE frame[d] # q[1]
    BY <1>1, <1>2, <1>8 DEF Ordered
<1>9. q[1] # Nil => q[1] \notin Range(frame)
    BY <1>8 DEF Range
<1>10. FramesIn(frame, t) = FramesIn(frame, q) \ {Head(q)}
    BY <1>1, <1>7, <1>9 DEF FramesIn
<1> QED
    BY <1>1, <1>5, <1>6, <1>10 DEF t

(* A thread takes the front of the queue while no thread holds a frame.    *)
LEMMA OrderedTake ==
    ASSUME NEW D, NEW frame \in [D -> Nat], NEW q \in Seq(Nat), q # <<>>, Ordered(frame, q),
           NEW x \in D, \A d \in D : frame[d] = Nil,
           NEW g \in [D -> Nat], g[x] = Head(q), \A d \in D : d # x => g[d] = Nil
    PROVE  Ordered(g, Tail(q)) /\ FramesIn(g, Tail(q)) = FramesIn(frame, q)
<1> DEFINE t == Tail(q)
<1>1. /\ Ordered(frame, t)
      /\ \A i \in DOMAIN t : Head(q) # Nil /\ t[i] # Nil => Head(q) < t[i]
    BY OrderedTail
<1>2. Range(q) = Range(t) \cup {Head(q)}
    BY RestFacts
<1>3. DOMAIN g = D /\ DOMAIN frame = D /\ g[x] = Head(q) /\ \A d \in D : d # x => g[d] = Nil
    OBVIOUS
<1> HIDE DEF t
<1>4. Ordered(g, t)
    BY <1>1, <1>3 DEF Ordered
<1>5. Range(g) \ {Nil} = {Head(q)} \ {Nil} /\ Range(frame) \ {Nil} = {}
    BY <1>3 DEF Range
<1>6. FramesIn(g, t) = FramesIn(frame, q)
    BY <1>2, <1>5 DEF FramesIn
<1> QED
    BY <1>4, <1>6 DEF t

(* The one thread that holds a frame lets go of it.                        *)
LEMMA OrderedRelease ==
    ASSUME NEW D, NEW frame \in [D -> Nat], NEW q \in Seq(Nat), Ordered(frame, q),
           NEW x \in D, frame[x] # Nil, \A d \in D : d # x => frame[d] = Nil
    PROVE  /\ Ordered([frame EXCEPT ![x] = Nil], q)
           /\ FramesIn([frame EXCEPT ![x] = Nil], q) = FramesIn(frame, q) \ {frame[x]}
           /\ frame[x] \in FramesIn(frame, q)
           /\ \A f \in FramesIn(frame, q) : frame[x] <= f
<1> DEFINE g == [frame EXCEPT ![x] = Nil]
<1>1. DOMAIN g = D /\ DOMAIN frame = D /\ \A d \in D : g[d] = Nil
    BY DEF Nil
<1> HIDE DEF g
<1>2. Range(g) \ {Nil} = {} /\ Range(frame) \ {Nil} = {frame[x]}
    BY <1>1 DEF Range
<1>3. \A f \in Range(q) : f # Nil => frame[x] < f
    BY <1>1 DEF Range, Ordered
<1>4. frame[x] \in Nat /\ \A f \in Range(q) : f \in Nat
    BY DEF Range
<1>5. frame[x] \notin Range(q)
    BY <1>3, <1>4
<1>6. FramesIn(g, q) = FramesIn(frame, q) \ {frame[x]} /\ frame[x] \in FramesIn(frame, q)
    BY <1>2, <1>5 DEF FramesIn
<1>7. \A f \in FramesIn(frame, q) : f = frame[x] \/ (f \in Range(q) /\ f # Nil)
    BY <1>2 DEF FramesIn
<1>8. \A f \in FramesIn(frame, q) : frame[x] <= f
    BY <1>3, <1>4, <1>7
<1>9. Ordered(g, q)
    BY <1>1 DEF Ordered
<1> QED
    BY <1>6, <1>8, <1>9 DEF g

-----------------------------------------------------------------------------
(* From sendAsync to HdmiCecTx                                             *)

(* A step that neither moves a frame to be sent nor touches its queue.     *)
TransmitStays ==
    /\ UNCHANGED <<sends, wQueue, wframe, transmitted>>
    /\ \A w \in Writers : wpc'[w] = "write" <=> wpc[w] = "write"

(* The steps of the library that concern frames to be sent.                *)
TransmitMoves ==
    \/ SendAsync
    \/ StopOffer
    \/ \E w \in Writers : WriterTake(w) \/ WriterWrite(w) \/ DrainTake(w)

(* No other step has to do with them.                                      *)
LEMMA TransmitCases ==
    ASSUME TypeOK, [Next]_vars
    PROVE  TransmitMoves \/ TransmitStays
<1> USE DEF TypeOK, WriterPc, vars, lifecycle, queues, readerVars, writerVars, counters, TransmitStays
<1>1. CASE InitCall \/ InitOpen \/ StartOpen \/ InitDone \/ TermCall \/ StopFlag
    BY <1>1 DEF InitCall, InitOpen, StartOpen, InitDone, TermCall, StopFlag
<1>2. CASE StartSpawn
    BY <1>2 DEF StartSpawn
<1>3. CASE \/ StopReader \/ StopClose \/ StopReaderWait \/ StopWriter \/ StopWriterWait
           \/ StopCloseAgain \/ TermClose
    BY <1>3 DEF StopReader, StopClose, StopReaderWait, StopWriter, StopWriterWait, StopCloseAgain, TermClose
<1>4. ASSUME NEW r \in Readers, ReaderStep(r) PROVE TransmitStays
    BY <1>4 DEF ReaderStep, ReaderEnter, ReaderRunStarted, ReaderLoop, ReadCheck, ReadObserve,
                ReadTake, ReadNull, FlushSize, FlushTake, NotifyLock, Notify, ReaderExit, ReaderOnly
<1>5. ASSUME NEW w \in Writers, WriterStep(w) PROVE TransmitMoves \/ TransmitStays
    <2>1. CASE WriterEnter(w) \/ WriterRunStarted(w) \/ WriterObserve(w)
        BY <2>1 DEF WriterEnter, WriterRunStarted, WriterObserve, WriterOnly, WGoto
    <2>2. CASE WriterCheck(w) \/ WriterLeave(w) \/ DrainSize(w) \/ WriterExit(w)
        BY <2>2 DEF WriterCheck, WriterLeave, DrainSize, WriterExit, WriterOnly, WGoto
    <2> QED
        BY <1>5, <2>1, <2>2 DEF WriterStep, TransmitMoves
<1>6. CASE RxCheck \/ RxOffer \/ AppClose \/ AppOpen
    BY <1>6 DEF RxCheck, RxOffer, AppClose, AppOpen
<1>7. CASE UNCHANGED vars
    BY <1>7
<1>8. CASE SendAsync \/ StopOffer
    BY <1>8 DEF TransmitMoves
<1> QED
    BY <1>1, <1>2, <1>3, <1>4, <1>5, <1>6, <1>7, <1>8 DEF Next, LifecycleStep

(* Everything that has come out, and one more frame that is younger.       *)
LEMMA IncreasingAppend ==
    ASSUME NEW out \in Seq(Nat), NEW x \in Nat,
           \A i, j \in DOMAIN out : i < j => out[i] < out[j],
           \A i \in DOMAIN out : out[i] < x
    PROVE  /\ \A i, j \in DOMAIN Append(out, x) : i < j => Append(out, x)[i] < Append(out, x)[j]
           /\ \A i \in DOMAIN Append(out, x) : Append(out, x)[i] <= x /\ Append(out, x)[i] \in Nat
<1> DEFINE a == Append(out, x)
<1>1. /\ \A i \in DOMAIN a : i \in DOMAIN out \/ i = Len(out) + 1
      /\ \A i \in DOMAIN out : a[i] = out[i] /\ i \in Nat /\ i < Len(out) + 1
      /\ a[Len(out) + 1] = x /\ Len(out) \in Nat
    BY AppendFacts
<1> HIDE DEF a
<1>2. ASSUME NEW i \in DOMAIN a, NEW j \in DOMAIN a, i < j PROVE a[i] < a[j]
    <2>1. i \in DOMAIN out
        BY <1>1, <1>2
    <2> QED
        BY <1>1, <1>2, <2>1
<1>3. \A i \in DOMAIN a : a[i] <= x /\ a[i] \in Nat
    BY <1>1
<1> QED
    BY <1>2, <1>3 DEF a

(* A writer at work is the only one, so no other holds a frame.            *)
LEMMA SoleHolder ==
    ASSUME TypeOK, WriterInv, TransmitInv, NEW w \in Writers, wpc[w] # "none"
    PROVE  \A v \in Writers : v # w => wframe[v] = Nil
BY DEF WriterInv, LiveWriters, TransmitInv

(* Every step keeps the order of the frames to be sent and is a step of    *)
(* the channel.                                                            *)
LEMMA TransmitStep ==
    ASSUME TypeOK, WriterInv, TransmitInv, [Next]_vars
    PROVE  TransmitInv' /\ [Transmission!Next]_(Transmission!channel)
<1> DEFINE P == FramesIn(wframe, wQueue)
<1>1. /\ wframe \in [Writers -> Nat] /\ wQueue \in Seq(Nat) /\ transmitted \in Seq(Nat) /\ sends \in Nat
      /\ wpc \in [Writers -> WriterPc]
    BY DEF TypeOK
<1>2. /\ \A w \in Writers : wframe[w] # Nil <=> wpc[w] = "write"
      /\ Ordered(wframe, wQueue)
      /\ \A i, j \in DOMAIN transmitted : i < j => transmitted[i] < transmitted[j]
      /\ \A f \in P : f <= sends
      /\ \A i \in DOMAIN transmitted : transmitted[i] <= sends /\ \A f \in P : transmitted[i] < f
    BY DEF TransmitInv, TransmitFIFO
<1>3. \A f \in P : f \in Nat /\ f # Nil
    BY <1>1 DEF FramesIn, Range
<1>4. \A i \in DOMAIN transmitted : transmitted[i] \in Nat
    BY <1>1
<1>5. CASE TransmitStays
    <2>1. UNCHANGED Transmission!channel
        BY <1>5 DEF TransmitStays, Transmission!channel
    <2>2. TransmitInv'
        BY <1>2, <1>5 DEF TransmitStays, TransmitInv, TransmitFIFO, Ordered, FramesIn
    <2> QED
        BY <2>1, <2>2
<1>6. CASE SendAsync
    <2>1. /\ sends' = sends + 1 /\ wQueue' = Append(wQueue, sends') 
          /\ UNCHANGED <<wframe, wpc, transmitted>>
        BY <1>6 DEF SendAsync, writerVars
    <2>2. sends' \in Nat /\ sends' # Nil /\ \A f \in P : f < sends'
        BY <1>1, <1>2, <1>3, <2>1 DEF Nil
    <2>3. /\ Ordered(wframe, Append(wQueue, sends'))
          /\ FramesIn(wframe, Append(wQueue, sends')) = FramesIn(wframe, wQueue) \cup ({sends'} \ {Nil})
        BY <1>1, <1>2, <2>2, OrderedAppend
    <2>4. FramesIn(wframe, wQueue)' = P \cup {sends'}
        BY <2>1, <2>2, <2>3
    <2>5. Transmission!Accept
        BY <2>1, <2>4 DEF Transmission!Accept
    <2>6. Ordered(wframe, wQueue)'
        BY <2>1, <2>3
    <2>7. \A f \in P \cup {sends'} : f <= sends'
        BY <1>3, <2>2
    <2>8. \A i \in DOMAIN transmitted :
              transmitted[i] <= sends' /\ \A f \in P \cup {sends'} : transmitted[i] < f
        BY <1>1, <1>2, <1>4, <2>1
    <2>9. TransmitInv'
        BY <1>2, <2>1, <2>4, <2>6, <2>7, <2>8 DEF TransmitInv, TransmitFIFO
    <2> QED
        BY <2>5, <2>9 DEF Transmission!Next
<1>7. CASE StopOffer
    <2>1. /\ wQueue' = wQueue \/ wQueue' = Append(wQueue, Nil)
          /\ UNCHANGED <<wframe, wpc, transmitted, sends>>
        BY <1>7 DEF StopOffer, OfferSentinel, writerVars, counters
    <2>2. Nil \in Nat
        BY DEF Nil
    <2>3. /\ Ordered(wframe, Append(wQueue, Nil))
          /\ FramesIn(wframe, Append(wQueue, Nil)) = FramesIn(wframe, wQueue) \cup ({Nil} \ {Nil})
        BY <1>1, <1>2, <2>2, OrderedAppend
    <2>4. Ordered(wframe, wQueue)' /\ FramesIn(wframe, wQueue)' = P
        <3>1. FramesIn(wframe, Append(wQueue, Nil)) = P
            BY <2>3
        <3> QED
            BY <1>2, <2>1, <2>3, <3>1
    <2>5. TransmitInv'
        BY <1>2, <2>1, <2>4 DEF TransmitInv, TransmitFIFO
    <2> QED
        BY <2>1, <2>4, <2>5 DEF Transmission!channel
<1>8. ASSUME NEW w \in Writers, WriterTake(w)
      PROVE  TransmitInv' /\ UNCHANGED Transmission!channel
    <2>1. /\ wpc[w] = "take" /\ wframe' = [wframe EXCEPT ![w] = Polled(wQueue)]
          /\ wQueue' = Rest(wQueue) /\ UNCHANGED <<sends, transmitted>>
          /\ wpc' = [wpc EXCEPT ![w] = IF Polled(wQueue) = Nil THEN "check" ELSE "write"]
        BY <1>8 DEF WriterTake, WHold, WGoto, WriterOnly, counters
    <2>2. \A v \in Writers : wframe[v] = Nil
        BY <1>2, <2>1, SoleHolder
    <2>3. Ordered(wframe, wQueue)' /\ FramesIn(wframe, wQueue)' = P
        <3>1. CASE wQueue = <<>>
            <4>1. wframe' = wframe /\ wQueue' = wQueue
                BY <1>1, <2>1, <2>2, <3>1 DEF Polled, Rest
            <4> QED
                BY <1>2, <4>1
        <3>2. CASE wQueue # <<>>
            <4>1. wframe' = [wframe EXCEPT ![w] = Head(wQueue)] /\ wQueue' = Tail(wQueue)
                BY <2>1, <3>2 DEF Polled, Rest
            <4>2. Ordered(wframe', Tail(wQueue)) /\ FramesIn(wframe', Tail(wQueue)) = FramesIn(wframe, wQueue)
                <5>1. wframe \in [Writers -> Nat] /\ wQueue \in Seq(Nat) /\ wQueue # <<>>
                    BY <1>1, <3>2
                <5>2. Ordered(wframe, wQueue) /\ w \in Writers /\ (\A v \in Writers : wframe[v] = Nil)
                    BY <1>2, <2>2
                <5>3. /\ wframe' \in [Writers -> Nat] /\ wframe'[w] = Head(wQueue)
                      /\ \A v \in Writers : v # w => wframe'[v] = Nil
                    BY <4>1, <5>1, <5>2
                <5> QED
                    BY <5>1, <5>2, <5>3, OrderedTake
            <4> QED
                BY <4>1, <4>2
        <3> QED
            BY <3>1, <3>2
    <2>4. \A v \in Writers : wframe'[v] # Nil <=> wpc'[v] = "write"
        BY <1>1, <1>2, <2>1
    <2>5. TransmitInv'
        BY <1>2, <2>1, <2>3, <2>4 DEF TransmitInv, TransmitFIFO
    <2> QED
        BY <2>1, <2>3, <2>5 DEF Transmission!channel
<1>9. ASSUME NEW w \in Writers, WriterWrite(w)
      PROVE  TransmitInv' /\ Transmission!Next
    <2> DEFINE f == wframe[w]
    <2>1. /\ wpc[w] = "write" /\ wframe' = [wframe EXCEPT ![w] = Nil]
          /\ UNCHANGED <<sends, wQueue>>
          /\ wpc' = [wpc EXCEPT ![w] = "check"]
          /\ transmitted' = Append(transmitted, f) \/ transmitted' = transmitted
        BY <1>9 DEF WriterWrite, WHold, WGoto, WriterOnly, counters
    <2>2. f # Nil /\ \A v \in Writers : v # w => wframe[v] = Nil
        BY <1>2, <2>1, SoleHolder
    <2>3. /\ Ordered([wframe EXCEPT ![w] = Nil], wQueue)
          /\ FramesIn([wframe EXCEPT ![w] = Nil], wQueue) = P \ {f}
          /\ f \in P /\ \A g \in P : f <= g
        BY <1>1, <1>2, <2>2, OrderedRelease
    <2>4. Ordered(wframe, wQueue)' /\ FramesIn(wframe, wQueue)' = P \ {f}
        BY <2>1, <2>3
    <2>5. \A v \in Writers : wframe'[v] # Nil <=> wpc'[v] = "write"
        BY <1>1, <1>2, <2>1
    <2>6. \A g \in P \ {f} : f < g
        BY <1>3, <2>3
    <2>7. CASE transmitted' = transmitted
        <3>1. Transmission!Lose(f)
            BY <2>1, <2>4, <2>7 DEF Transmission!Lose
        <3>2. TransmitInv'
            BY <1>2, <2>1, <2>4, <2>5, <2>7 DEF TransmitInv, TransmitFIFO
        <3> QED
            BY <2>3, <3>1, <3>2 DEF Transmission!Next
    <2>8. CASE transmitted' = Append(transmitted, f)
        <3>1. Transmission!Deliver(f)
            BY <2>1, <2>3, <2>4, <2>8 DEF Transmission!Deliver
        <3>2. /\ \A i, j \in DOMAIN transmitted' : i < j => transmitted'[i] < transmitted'[j]
              /\ \A i \in DOMAIN transmitted' : transmitted'[i] <= f /\ transmitted'[i] \in Nat
            BY <1>1, <1>2, <1>3, <2>3, <2>8, IncreasingAppend
        <3>3. f \in Nat /\ f <= sends
            BY <1>2, <1>3, <2>3
        <3>4. \A i \in DOMAIN transmitted' :
                  transmitted'[i] <= sends /\ \A g \in P \ {f} : transmitted'[i] < g
            BY <1>1, <1>3, <2>6, <3>2, <3>3
        <3>5. TransmitInv'
            BY <1>2, <2>1, <2>4, <2>5, <3>2, <3>4 DEF TransmitInv, TransmitFIFO
        <3> QED
            BY <2>3, <3>1, <3>5 DEF Transmission!Next
    <2> QED
        BY <2>1, <2>7, <2>8
<1>10. ASSUME NEW w \in Writers, DrainTake(w)
       PROVE  TransmitInv' /\ [Transmission!Next]_(Transmission!channel)
    <2>1. /\ wpc[w] = "dtake" /\ wQueue' = Rest(wQueue) /\ UNCHANGED <<sends, wframe, transmitted>>
          /\ wpc' = [wpc EXCEPT ![w] = "drain"]
        BY <1>10 DEF DrainTake, WGoto, WriterOnly, counters
    <2>2. \A v \in Writers : wframe'[v] # Nil <=> wpc'[v] = "write"
        BY <1>1, <1>2, <2>1
    <2>3. CASE wQueue = <<>>
        <3>1. wQueue' = wQueue
            BY <2>1, <2>3 DEF Rest
        <3> QED
            BY <1>2, <2>1, <2>2, <3>1 DEF TransmitInv, TransmitFIFO, Ordered, FramesIn, Transmission!channel
    <2>4. CASE wQueue # <<>>
        <3>1. wQueue' = Tail(wQueue)
            BY <2>1, <2>4 DEF Rest
        <3>2. Ordered(wframe, Tail(wQueue)) /\ FramesIn(wframe, Tail(wQueue)) = P \ {Head(wQueue)}
            BY <1>1, <1>2, <2>4, OrderedTail
        <3>3. Ordered(wframe, wQueue)' /\ FramesIn(wframe, wQueue)' = P \ {Head(wQueue)}
            BY <2>1, <3>1, <3>2
        <3>4. TransmitInv'
            BY <1>2, <2>1, <2>2, <3>3 DEF TransmitInv, TransmitFIFO
        <3>5. CASE Head(wQueue) \in P
            <4>1. Transmission!Lose(Head(wQueue))
                BY <2>1, <3>3 DEF Transmission!Lose
            <4> QED
                BY <3>4, <3>5, <4>1 DEF Transmission!Next
        <3>6. CASE Head(wQueue) \notin P
            <4>1. FramesIn(wframe, wQueue)' = P
                BY <3>3, <3>6
            <4> QED
                BY <2>1, <3>4, <4>1 DEF Transmission!channel
        <3> QED
            BY <3>5, <3>6
    <2> QED
        BY <2>3, <2>4
<1> QED
    BY <1>5, <1>6, <1>7, <1>8, <1>9, <1>10, TransmitCases DEF TransmitMoves

(* Nothing is under way before the first call.                             *)
LEMMA TransmitStart ==
    ASSUME Init PROVE TransmitInv /\ Transmission!Init
<1>1. /\ \A w \in Writers : wframe[w] = Nil /\ wpc[w] \in {"new", "none"}
      /\ wQueue = <<>> /\ transmitted = <<>> /\ sends = 0 /\ DOMAIN wframe = Writers
    BY DEF Init
<1>2. FramesIn(wframe, wQueue) = {}
    BY <1>1 DEF FramesIn, Range
<1>3. TransmitInv
    BY <1>1, <1>2 DEF TransmitInv, TransmitFIFO, Ordered
<1> QED
    BY <1>1, <1>2, <1>3 DEF Transmission!Init

(* The stream from sendAsync to HdmiCecTx implements FrameChannel: what    *)
(* comes out was accepted, comes out once, and in the order of acceptance. *)
THEOREM TransmitIsChannel == ASSUME ~HastyCalls PROVE Spec => TransmitChannel
<1>1. Init => TransmitInv /\ Transmission!Init
    BY TransmitStart
<1>2. IInv /\ TransmitInv /\ [Next]_vars => TransmitInv' /\ [Transmission!Next]_(Transmission!channel)
    BY TransmitStep DEF IInv
<1> QED
    BY <1>1, <1>2, Invariance, PTL DEF Spec, TransmitChannel, Transmission!Spec

(* Frames reach HdmiCecTx in the order sendAsync accepted them.            *)
THEOREM TransmitIsFIFO == ASSUME ~HastyCalls PROVE Spec => []TransmitFIFO
<1>1. Init => TransmitInv
    BY TransmitStart
<1>2. IInv /\ TransmitInv /\ [Next]_vars => TransmitInv'
    BY TransmitStep DEF IInv
<1>3. TransmitInv => TransmitFIFO
    BY DEF TransmitInv
<1> QED
    BY <1>1, <1>2, <1>3, Invariance, PTL DEF Spec

-----------------------------------------------------------------------------
(* From DriverReceiveCallback to the listeners                             *)

(* A step that neither moves a received frame nor touches its queue.       *)
DeliverStays ==
    /\ UNCHANGED <<receives, rx, rQueue, rframe, delivered>>
    /\ \A r \in Readers : rpc'[r] \in {"dispatch", "notify"} <=> rpc[r] \in {"dispatch", "notify"}

(* A step that closes the driver may queue a sentinel and moves no frame.  *)
DeliverCloses ==
    /\ UNCHANGED <<receives, rx, rpc, rframe, delivered>>
    /\ rQueue' = rQueue \/ rQueue' = Append(rQueue, Nil)

(* The steps of the library that concern received frames.                  *)
DeliverMoves ==
    \/ RxCheck \/ RxOffer
    \/ \E r \in Readers : ReadTake(r) \/ FlushTake(r) \/ Notify(r)

(* No other step has to do with them.                                      *)
LEMMA DeliverCases ==
    ASSUME TypeOK, [Next]_vars
    PROVE  DeliverMoves \/ DeliverStays \/ DeliverCloses
<1> USE DEF TypeOK, ReaderPc, vars, lifecycle, queues, readerVars, writerVars, counters
<1>1. CASE InitCall \/ InitOpen \/ StartOpen \/ InitDone \/ TermCall \/ StopFlag
    BY <1>1 DEF InitCall, InitOpen, StartOpen, InitDone, TermCall, StopFlag, DeliverStays
<1>2. CASE StartSpawn
    BY <1>2 DEF StartSpawn, DeliverStays
<1>3. CASE StopReader \/ StopReaderWait \/ StopWriter \/ StopOffer \/ StopWriterWait \/ SendAsync \/ AppOpen
    BY <1>3 DEF StopReader, StopReaderWait, StopWriter, StopOffer, StopWriterWait, SendAsync, AppOpen,
                DeliverStays
<1>4. CASE StopClose \/ StopCloseAgain \/ TermClose \/ AppClose
    BY <1>4 DEF StopClose, StopCloseAgain, TermClose, AppClose, DriverClosed, OfferSentinel, DeliverCloses
<1>5. ASSUME NEW w \in Writers, WriterStep(w) PROVE DeliverStays
    BY <1>5 DEF WriterStep, WriterEnter, WriterRunStarted, WriterObserve, WriterTake, WriterWrite,
                WriterCheck, WriterLeave, DrainSize, DrainTake, WriterExit, WriterOnly, DeliverStays
<1>6. ASSUME NEW r \in Readers, ReaderStep(r) PROVE DeliverMoves \/ DeliverStays
    <2>1. CASE ReaderEnter(r) \/ ReaderRunStarted(r) \/ ReaderLoop(r) \/ ReadCheck(r) \/ ReadObserve(r)
        BY <2>1 DEF ReaderEnter, ReaderRunStarted, ReaderLoop, ReadCheck, ReadObserve,
                    ReaderOnly, RGoto, DeliverStays
    <2>2. CASE ReadNull(r) \/ FlushSize(r) \/ NotifyLock(r) \/ ReaderExit(r)
        BY <2>2 DEF ReadNull, FlushSize, NotifyLock, ReaderExit, ReaderOnly, RGoto, DeliverStays
    <2> QED
        BY <1>6, <2>1, <2>2 DEF ReaderStep, DeliverMoves
<1>7. CASE UNCHANGED vars
    BY <1>7 DEF DeliverStays
<1>8. CASE RxCheck \/ RxOffer
    BY <1>8 DEF DeliverMoves
<1> QED
    BY <1>1, <1>2, <1>3, <1>4, <1>5, <1>6, <1>7, <1>8 DEF Next, LifecycleStep

(* A reader at work is the only one, so no other holds a frame.            *)
LEMMA SoleReceiver ==
    ASSUME TypeOK, ReaderInv, DeliverInv, NEW r \in Readers, rpc[r] # "none"
    PROVE  \A s \in Readers : s # r => rframe[s] = Nil
BY DEF ReaderInv, LiveReaders, DeliverInv

(* Every step keeps the order of the received frames and is a step of the  *)
(* channel.                                                                *)
LEMMA DeliverStep ==
    ASSUME TypeOK, ReaderInv, DeliverInv, [Next]_vars
    PROVE  DeliverInv' /\ [Reception!Next]_(Reception!channel)
<1> DEFINE P == FramesIn(rframe, rQueue)
           Q == P \cup ({rx} \ {Nil})
<1>1. /\ rframe \in [Readers -> Nat] /\ rQueue \in Seq(Nat) /\ delivered \in Seq(Nat)
      /\ rx \in Nat /\ receives \in Nat /\ rpc \in [Readers -> ReaderPc]
    BY DEF TypeOK
<1>2. /\ \A r \in Readers : rframe[r] # Nil <=> rpc[r] \in {"dispatch", "notify"}
      /\ Ordered(rframe, rQueue)
      /\ \A i, j \in DOMAIN delivered : i < j => delivered[i] < delivered[j]
      /\ rx <= receives
      /\ \A f \in P : f <= receives /\ (rx # Nil => f < rx)
      /\ \A i \in DOMAIN delivered : /\ delivered[i] <= receives /\ (rx # Nil => delivered[i] < rx)
                                     /\ \A f \in P : delivered[i] < f
    BY DEF DeliverInv, DeliverFIFO
<1>3. \A f \in P : f \in Nat /\ f # Nil
    BY <1>1 DEF FramesIn, Range
<1>4. \A i \in DOMAIN delivered : delivered[i] \in Nat
    BY <1>1
<1>5. CASE DeliverStays
    <2>1. UNCHANGED Reception!channel
        BY <1>5 DEF DeliverStays, Reception!channel
    <2>2. DeliverInv'
        BY <1>2, <1>5 DEF DeliverStays, DeliverInv, DeliverFIFO, Ordered, FramesIn
    <2> QED
        BY <2>1, <2>2
<1>6. CASE DeliverCloses
    <2>1. Nil \in Nat
        BY DEF Nil
    <2>2. /\ Ordered(rframe, Append(rQueue, Nil))
          /\ FramesIn(rframe, Append(rQueue, Nil)) = FramesIn(rframe, rQueue) \cup ({Nil} \ {Nil})
        BY <1>1, <1>2, <2>1, OrderedAppend
    <2>3. FramesIn(rframe, Append(rQueue, Nil)) = P
        BY <2>2
    <2>4. Ordered(rframe, rQueue)' /\ FramesIn(rframe, rQueue)' = P
        BY <1>2, <1>6, <2>2, <2>3 DEF DeliverCloses
    <2>5. DeliverInv'
        BY <1>2, <1>6, <2>4 DEF DeliverCloses, DeliverInv, DeliverFIFO
    <2> QED
        BY <1>6, <2>4, <2>5 DEF DeliverCloses, Reception!channel
<1>7. CASE RxCheck
    <2>1. /\ rx = Nil /\ receives' = receives + 1 /\ rx' = receives'
          /\ UNCHANGED <<rframe, rQueue, rpc, delivered>>
        BY <1>7 DEF RxCheck, queues, readerVars
    <2>2. rx' # Nil /\ rx' \in Nat /\ Q = P /\ (FramesIn(rframe, rQueue) \cup ({rx} \ {Nil}))' = P \cup {receives'}
        BY <1>1, <2>1 DEF Nil
    <2>3. Reception!Accept
        BY <2>1, <2>2 DEF Reception!Accept
    <2>4. rx' <= receives' /\ \A f \in P : f <= receives' /\ f < rx'
        BY <1>1, <1>2, <1>3, <2>1
    <2>5. \A i \in DOMAIN delivered : delivered[i] <= receives' /\ delivered[i] < rx'
        BY <1>1, <1>2, <1>4, <2>1
    <2>6. FramesIn(rframe, rQueue)' = P /\ Ordered(rframe, rQueue)'
        BY <1>2, <2>1
    <2>7. DeliverInv'
        BY <1>2, <2>1, <2>4, <2>5, <2>6 DEF DeliverInv, DeliverFIFO
    <2> QED
        BY <2>3, <2>7 DEF Reception!Next
<1>8. CASE RxOffer
    <2>1. /\ rx # Nil /\ rx' = Nil /\ UNCHANGED <<receives, rframe, rpc, delivered>>
          /\ rQueue' = rQueue \/ rQueue' = Append(rQueue, rx)
        BY <1>8 DEF RxOffer, readerVars, counters
    <2>2. CASE rQueue' = rQueue
        <3>1. FramesIn(rframe, rQueue)' = P /\ Ordered(rframe, rQueue)'
            BY <1>2, <2>1, <2>2
        <3>2. (FramesIn(rframe, rQueue) \cup ({rx} \ {Nil}))' = Q \ {rx} /\ rx \in Q
            BY <1>1, <1>2, <1>3, <2>1, <3>1
        <3>3. Reception!Lose(rx)
            BY <2>1, <3>2 DEF Reception!Lose
        <3>4. DeliverInv'
            BY <1>1, <1>2, <2>1, <3>1 DEF DeliverInv, DeliverFIFO, Nil
        <3> QED
            BY <3>2, <3>3, <3>4 DEF Reception!Next
    <2>3. CASE rQueue' = Append(rQueue, rx)
        <3>1. /\ Ordered(rframe, Append(rQueue, rx))
              /\ FramesIn(rframe, Append(rQueue, rx)) = P \cup ({rx} \ {Nil})
            BY <1>1, <1>2, <2>1, OrderedAppend
        <3>2. FramesIn(rframe, rQueue)' = Q /\ Ordered(rframe, rQueue)'
            BY <2>1, <2>3, <3>1
        <3>3. UNCHANGED Reception!channel
            BY <2>1, <3>2 DEF Reception!channel
        <3>4. \A f \in Q : f <= receives /\ \A i \in DOMAIN delivered : delivered[i] < f
            BY <1>2, <2>1
        <3>5. rx' <= receives
            BY <1>1, <2>1 DEF Nil
        <3>6. DeliverInv'
            BY <1>2, <2>1, <3>2, <3>4, <3>5 DEF DeliverInv, DeliverFIFO
        <3> QED
            BY <3>3, <3>6
    <2> QED
        BY <2>1, <2>2, <2>3
<1>9. ASSUME NEW r \in Readers, ReadTake(r)
      PROVE  DeliverInv' /\ UNCHANGED Reception!channel
    <2>1. /\ rpc[r] = "take" /\ rframe' = [rframe EXCEPT ![r] = Polled(rQueue)]
          /\ rQueue' = Rest(rQueue) /\ UNCHANGED <<receives, rx, delivered>>
          /\ rpc' = [rpc EXCEPT ![r] = IF Polled(rQueue) = Nil THEN "null" ELSE "dispatch"]
        BY <1>9 DEF ReadTake, RHold, RGoto, ReaderOnly, counters
    <2>2. \A s \in Readers : rframe[s] = Nil
        BY <1>2, <2>1, SoleReceiver
    <2>3. Ordered(rframe, rQueue)' /\ FramesIn(rframe, rQueue)' = P
        <3>1. CASE rQueue = <<>>
            <4>1. rframe' = rframe /\ rQueue' = rQueue
                BY <1>1, <2>1, <2>2, <3>1 DEF Polled, Rest
            <4> QED
                BY <1>2, <4>1
        <3>2. CASE rQueue # <<>>
            <4>1. rframe' = [rframe EXCEPT ![r] = Head(rQueue)] /\ rQueue' = Tail(rQueue)
                BY <2>1, <3>2 DEF Polled, Rest
            <4>2. rframe \in [Readers -> Nat] /\ rQueue \in Seq(Nat) /\ rQueue # <<>>
                BY <1>1, <3>2
            <4>3. Ordered(rframe, rQueue) /\ r \in Readers /\ (\A s \in Readers : rframe[s] = Nil)
                BY <1>2, <2>2
            <4>4. /\ rframe' \in [Readers -> Nat] /\ rframe'[r] = Head(rQueue)
                  /\ \A s \in Readers : s # r => rframe'[s] = Nil
                BY <4>1, <4>2, <4>3
            <4>5. Ordered(rframe', Tail(rQueue)) /\ FramesIn(rframe', Tail(rQueue)) = FramesIn(rframe, rQueue)
                BY <4>2, <4>3, <4>4, OrderedTake
            <4> QED
                BY <4>1, <4>5
        <3> QED
            BY <3>1, <3>2
    <2>4. \A s \in Readers : rframe'[s] # Nil <=> rpc'[s] \in {"dispatch", "notify"}
        BY <1>1, <1>2, <2>1
    <2>5. DeliverInv'
        BY <1>2, <2>1, <2>3, <2>4 DEF DeliverInv, DeliverFIFO
    <2> QED
        BY <2>1, <2>3, <2>5 DEF Reception!channel
<1>10. ASSUME NEW r \in Readers, FlushTake(r)
       PROVE  DeliverInv' /\ [Reception!Next]_(Reception!channel)
    <2>1. /\ rpc[r] = "ftake" /\ rQueue' = Rest(rQueue) /\ UNCHANGED <<receives, rx, rframe, delivered>>
          /\ rpc' = [rpc EXCEPT ![r] = "flush"]
        BY <1>10 DEF FlushTake, RGoto, ReaderOnly, counters
    <2>2. \A s \in Readers : rframe'[s] # Nil <=> rpc'[s] \in {"dispatch", "notify"}
        BY <1>1, <1>2, <2>1
    <2>3. CASE rQueue = <<>>
        <3>1. rQueue' = rQueue
            BY <2>1, <2>3 DEF Rest
        <3> QED
            BY <1>2, <2>1, <2>2, <3>1 DEF DeliverInv, DeliverFIFO, Ordered, FramesIn, Reception!channel
    <2>4. CASE rQueue # <<>>
        <3>1. rQueue' = Tail(rQueue)
            BY <2>1, <2>4 DEF Rest
        <3>2. Ordered(rframe, Tail(rQueue)) /\ FramesIn(rframe, Tail(rQueue)) = P \ {Head(rQueue)}
            BY <1>1, <1>2, <2>4, OrderedTail
        <3>3. Ordered(rframe, rQueue)' /\ FramesIn(rframe, rQueue)' = P \ {Head(rQueue)}
            BY <2>1, <3>1, <3>2
        <3>4. DeliverInv'
            BY <1>2, <2>1, <2>2, <3>3 DEF DeliverInv, DeliverFIFO
        <3>5. CASE Head(rQueue) \in P
            <4>1. rx # Nil => rx # Head(rQueue)
                BY <1>1, <1>2, <3>5
            <4>2. (FramesIn(rframe, rQueue) \cup ({rx} \ {Nil}))' = Q \ {Head(rQueue)} /\ Head(rQueue) \in Q
                BY <2>1, <3>3, <3>5, <4>1
            <4>3. Reception!Lose(Head(rQueue))
                BY <2>1, <4>2 DEF Reception!Lose
            <4> QED
                BY <3>4, <4>2, <4>3 DEF Reception!Next
        <3>6. CASE Head(rQueue) \notin P
            <4>1. FramesIn(rframe, rQueue)' = P
                BY <3>3, <3>6
            <4> QED
                BY <2>1, <3>4, <4>1 DEF Reception!channel
        <3> QED
            BY <3>5, <3>6
    <2> QED
        BY <2>3, <2>4
<1>11. ASSUME NEW r \in Readers, Notify(r)
       PROVE  DeliverInv' /\ Reception!Next
    <2> DEFINE f == rframe[r]
    <2>1. /\ rpc[r] = "notify" /\ rframe' = [rframe EXCEPT ![r] = Nil]
          /\ UNCHANGED <<receives, rx, rQueue>>
          /\ rpc' = [rpc EXCEPT ![r] = "loop"]
          /\ delivered' = Append(delivered, f)
        BY <1>11 DEF Notify, RHold, RGoto, ReaderOnly, counters
    <2>2. f # Nil /\ \A s \in Readers : s # r => rframe[s] = Nil
        BY <1>2, <2>1, SoleReceiver
    <2>3. /\ Ordered([rframe EXCEPT ![r] = Nil], rQueue)
          /\ FramesIn([rframe EXCEPT ![r] = Nil], rQueue) = P \ {f}
          /\ f \in P /\ \A g \in P : f <= g
        BY <1>1, <1>2, <2>2, OrderedRelease
    <2>4. Ordered(rframe, rQueue)' /\ FramesIn(rframe, rQueue)' = P \ {f}
        BY <2>1, <2>3
    <2>5. \A s \in Readers : rframe'[s] # Nil <=> rpc'[s] \in {"dispatch", "notify"}
        BY <1>1, <1>2, <2>1
    <2>6. f \in Nat /\ f <= receives /\ (rx # Nil => f < rx)
        BY <1>2, <1>3, <2>3
    <2>7. \A g \in P \ {f} : f < g
        BY <1>3, <2>3
    <2>8. f \in Q /\ \A g \in Q : f <= g
        BY <1>1, <2>3, <2>6
    <2>9. (FramesIn(rframe, rQueue) \cup ({rx} \ {Nil}))' = Q \ {f}
        <3>1. rx # Nil => rx # f
            BY <1>1, <2>6
        <3> QED
            BY <2>1, <2>4, <3>1
    <2>10. Reception!Deliver(f)
        BY <2>1, <2>8, <2>9 DEF Reception!Deliver
    <2>11. /\ \A i, j \in DOMAIN delivered' : i < j => delivered'[i] < delivered'[j]
           /\ \A i \in DOMAIN delivered' : delivered'[i] <= f /\ delivered'[i] \in Nat
        BY <1>1, <1>2, <2>1, <2>3, <2>6, IncreasingAppend
    <2>12. \A i \in DOMAIN delivered' :
               /\ delivered'[i] <= receives /\ (rx # Nil => delivered'[i] < rx)
               /\ \A g \in P \ {f} : delivered'[i] < g
        BY <1>1, <1>3, <2>6, <2>7, <2>11
    <2>13. DeliverInv'
        BY <1>2, <2>1, <2>4, <2>5, <2>11, <2>12 DEF DeliverInv, DeliverFIFO
    <2> QED
        BY <2>8, <2>10, <2>13 DEF Reception!Next
<1> QED
    BY <1>5, <1>6, <1>7, <1>8, <1>9, <1>10, <1>11, DeliverCases DEF DeliverMoves

(* Nothing has been received before the driver is opened.                  *)
LEMMA DeliverStart ==
    ASSUME Init PROVE DeliverInv /\ Reception!Init
<1>1. /\ \A r \in Readers : rframe[r] = Nil /\ rpc[r] \in {"new", "none"}
      /\ rQueue = <<>> /\ delivered = <<>> /\ receives = 0 /\ rx = Nil /\ DOMAIN rframe = Readers
    BY DEF Init
<1>2. FramesIn(rframe, rQueue) = {}
    BY <1>1 DEF FramesIn, Range
<1>3. DeliverInv
    BY <1>1, <1>2 DEF DeliverInv, DeliverFIFO, Ordered, Nil
<1> QED
    BY <1>1, <1>2, <1>3 DEF Reception!Init

(* The stream from the HAL's callback to the listeners implements          *)
(* FrameChannel: no frame is dispatched twice, late or out of order, not   *)
(* even when the driver is closed and reopened under the reader.           *)
THEOREM DeliverIsChannel == ASSUME ~HastyCalls PROVE Spec => DeliverChannel
<1>1. Init => DeliverInv /\ Reception!Init
    BY DeliverStart
<1>2. IInv /\ DeliverInv /\ [Next]_vars => DeliverInv' /\ [Reception!Next]_(Reception!channel)
    BY DeliverStep DEF IInv
<1> QED
    BY <1>1, <1>2, Invariance, PTL DEF Spec, DeliverChannel, Reception!Spec

(* Listeners see frames in the order the HAL handed them over.             *)
THEOREM DeliverIsFIFO == ASSUME ~HastyCalls PROVE Spec => []DeliverFIFO
<1>1. Init => DeliverInv
    BY DeliverStart
<1>2. IInv /\ DeliverInv /\ [Next]_vars => DeliverInv'
    BY DeliverStep DEF IInv
<1>3. DeliverInv => DeliverFIFO
    BY DEF DeliverInv
<1> QED
    BY <1>1, <1>2, <1>3, Invariance, PTL DEF Spec
=============================================================================
