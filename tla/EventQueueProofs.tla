-------------------------- MODULE EventQueueProofs --------------------------
(***************************************************************************)
(* Proofs about EventQueue for any number of producers and consumers, any  *)
(* set of elements and any capacity.                                       *)
(***************************************************************************)
EXTENDS EventQueue, SequenceTheorems, TLAPS

USE QueueAssumption DEF QueueAssumption

(* What offer() and poll() do to the deque, as facts about sequences.      *)
LEMMA DequeFacts ==
    ASSUME NEW s \in Seq(Elem)
    PROVE  /\ \A e \in Elem : /\ Append(s, e) \in Seq(Elem)
                              /\ Append(s, e) # <<>>
                              /\ Len(Append(s, e)) = Len(s) + 1
           /\ s # <<>> => /\ Head(s) \in Elem
                          /\ Tail(s) \in Seq(Elem)
                          /\ Len(Tail(s)) = Len(s) - 1
                          /\ Len(s) > 0
           /\ Len(s) \in Nat
           /\ Len(s) = 0 <=> s = <<>>
  OBVIOUS

(* Popping the only element of the deque.                                  *)
LEMMA LastElement ==
    ASSUME NEW s \in Seq(Elem), s # <<>>, Tail(s) = <<>>
    PROVE  s = <<Head(s)>>
<1>1. Len(s) = 1
  <2>0. Len(s) \in Nat
    BY DequeFacts
  <2>1. Tail(s) \in Seq(Elem) /\ Len(Tail(s)) = Len(s) - 1
    BY HeadTailProperties, Zenon
  <2>2. \A t \in Seq(Elem) : t = <<>> => Len(t) = 0
    OBVIOUS
  <2>3. Len(Tail(s)) = 0
    BY <2>1, <2>2, Zenon
  <2>4. Len(s) - 1 = 0
    BY <2>1, <2>3, Zenon
  <2> QED
    BY <2>0, <2>4
<1>2. <<Head(s)>> \in Seq(Elem) /\ Len(<<Head(s)>>) = 1 /\ <<Head(s)>>[1] = s[1]
  BY <1>1
<1> QED
  BY <1>1, <1>2, SeqEqual

LEMMA InitIInv == Init => IInv
<1> SUFFICES ASSUME Init PROVE IInv
  OBVIOUS
<1> USE DEF Init, Threads
<1>1. TypeOK
  <2>1. events \in Seq(Elem) /\ Len(events) = 0
    OBVIOUS
  <2>2. Len(events) <= Cap
    BY <2>1
  <2> QED
    BY <2>1, <2>2 DEF TypeOK, ProducerPc, ConsumerPc
<1>2. LockDiscipline
  BY DEF LockDiscipline, Holding
<1>3. InsideCS
  BY DEF InsideCS
<1>4. FlagTracksQueue
  BY DEF FlagTracksQueue
<1>5. NoLostWakeup
  BY DEF NoLostWakeup
<1> QED
  BY <1>1, <1>2, <1>3, <1>4, <1>5 DEF IInv

(* One step of Next, given as one case per action.                         *)
LEMMA TypeStep == TypeOK /\ [Next]_vars => TypeOK'
<1> SUFFICES ASSUME TypeOK, [Next]_vars PROVE TypeOK'
  OBVIOUS
<1> USE DEF TypeOK, Threads, ProducerPc, ConsumerPc, Goto
<1>1. ASSUME NEW p \in Producers, NEW e \in Elem, OfferCall(p, e) PROVE TypeOK'
  BY <1>1 DEF OfferCall
<1>2. ASSUME NEW p \in Producers, OfferLock(p) PROVE TypeOK'
  BY <1>2 DEF OfferLock
<1>3. ASSUME NEW p \in Producers, OfferFull(p) PROVE TypeOK'
  BY <1>3 DEF OfferFull
<1>4. ASSUME NEW p \in Producers, OfferPush(p) PROVE TypeOK'
  BY <1>4, DequeFacts DEF OfferPush
<1>5. ASSUME NEW p \in Producers, OfferSet(p) PROVE TypeOK'
  BY <1>5 DEF OfferSet
<1>6. ASSUME NEW p \in Producers, OfferNotify(p) PROVE TypeOK'
  BY <1>6 DEF OfferNotify
<1>7. ASSUME NEW c \in Consumers, PollCall(c) PROVE TypeOK'
  BY <1>7 DEF PollCall
<1>8. ASSUME NEW c \in Consumers, WaitReturn(c) PROVE TypeOK'
  BY <1>8 DEF WaitReturn
<1>9. ASSUME NEW c \in Consumers, WaitBlock(c) PROVE TypeOK'
  BY <1>9 DEF WaitBlock
<1>10. ASSUME NEW c \in Consumers, SpuriousWakeup(c) PROVE TypeOK'
  BY <1>10 DEF SpuriousWakeup
<1>11. ASSUME NEW c \in Consumers, PollLock(c) PROVE TypeOK'
  BY <1>11 DEF PollLock
<1>12. ASSUME NEW c \in Consumers, PollDefault(c) PROVE TypeOK'
  BY <1>12 DEF PollDefault
<1>13. ASSUME NEW c \in Consumers, PollPop(c) PROVE TypeOK'
  <2>1. /\ events' \in Seq(Elem) /\ Head(events) \in Elem
        /\ Len(events') <= Cap
    BY <1>13, DequeFacts DEF PollPop
  <2>2. CASE Tail(events) = <<>>
    BY <1>13, <2>1, <2>2 DEF PollPop
  <2>3. CASE Tail(events) # <<>>
    <3>1. /\ pc' = [pc EXCEPT ![c] = "idle"]
          /\ val' = [val EXCEPT ![c] = Head(events)]
          /\ owner' = NoThread /\ front' = Head(events) /\ cond' = cond
      BY <1>13, <2>3 DEF PollPop
    <3> QED
      BY <2>1, <3>1
  <2> QED
    BY <2>2, <2>3
<1>14. ASSUME NEW c \in Consumers, PollReset(c) PROVE TypeOK'
  BY <1>14 DEF PollReset
<1>15. CASE UNCHANGED vars
  BY <1>15 DEF vars
<1> QED
  BY <1>1, <1>2, <1>3, <1>4, <1>5, <1>6, <1>7, <1>8, <1>9, <1>10, <1>11, <1>12, <1>13, <1>14, <1>15
     DEF Next, OfferStep, PollStep

(* The rest of the invariant.  A step of one thread leaves the pc of the   *)
(* others alone, except that OfferNotify moves blocked consumers to wait.  *)
LEMMA InvStep ==
    IInv /\ [Next]_vars => LockDiscipline' /\ InsideCS' /\ FlagTracksQueue' /\ NoLostWakeup'
<1> DEFINE Goal == LockDiscipline' /\ InsideCS' /\ FlagTracksQueue' /\ NoLostWakeup'
<1> SUFFICES ASSUME IInv, [Next]_vars PROVE Goal
  OBVIOUS
<1> USE DEF IInv, TypeOK, Threads, ProducerPc, ConsumerPc, Holding, Goto,
        LockDiscipline, InsideCS, FlagTracksQueue, NoLostWakeup
<1>1. ASSUME NEW p \in Producers, NEW e \in Elem, OfferCall(p, e) PROVE Goal
  BY <1>1 DEF OfferCall
<1>2. ASSUME NEW p \in Producers, OfferLock(p) PROVE Goal
  BY <1>2 DEF OfferLock
<1>3. ASSUME NEW p \in Producers, OfferFull(p) PROVE Goal
  BY <1>3 DEF OfferFull
<1>4. ASSUME NEW p \in Producers, OfferPush(p) PROVE Goal
  BY <1>4, DequeFacts DEF OfferPush
<1>5. ASSUME NEW p \in Producers, OfferSet(p) PROVE Goal
  BY <1>5 DEF OfferSet
<1>6. ASSUME NEW p \in Producers, OfferNotify(p) PROVE Goal
  BY <1>6 DEF OfferNotify
<1>7. ASSUME NEW c \in Consumers, PollCall(c) PROVE Goal
  BY <1>7 DEF PollCall
<1>8. ASSUME NEW c \in Consumers, WaitReturn(c) PROVE Goal
  BY <1>8 DEF WaitReturn
<1>9. ASSUME NEW c \in Consumers, WaitBlock(c) PROVE Goal
  BY <1>9 DEF WaitBlock
<1>10. ASSUME NEW c \in Consumers, SpuriousWakeup(c) PROVE Goal
  BY <1>10 DEF SpuriousWakeup
<1>11. ASSUME NEW c \in Consumers, PollLock(c) PROVE Goal
  BY <1>11 DEF PollLock
<1>12. ASSUME NEW c \in Consumers, PollDefault(c) PROVE Goal
  BY <1>12 DEF PollDefault
<1>13. ASSUME NEW c \in Consumers, PollPop(c) PROVE Goal
  BY <1>13, DequeFacts DEF PollPop
<1>14. ASSUME NEW c \in Consumers, PollReset(c) PROVE Goal
  BY <1>14 DEF PollReset
<1>15. CASE UNCHANGED vars
  BY <1>15 DEF vars
<1> QED
  BY <1>1, <1>2, <1>3, <1>4, <1>5, <1>6, <1>7, <1>8, <1>9, <1>10, <1>11, <1>12, <1>13, <1>14, <1>15
     DEF Next, OfferStep, PollStep

(* The inductive invariant of the queue: mutual exclusion on               *)
(* EventQueue::mutex, and what every point of offer() and poll() knows     *)
(* about the deque and the flag.                                           *)
THEOREM Invariance == Spec => []IInv
<1>1. IInv /\ [Next]_vars => IInv'
  BY TypeStep, InvStep DEF IInv
<1> QED
  BY InitIInv, <1>1, PTL DEF Spec

(* The variables keep their types; in particular offer() never lets the    *)
(* deque grow past its capacity, however many threads call it.             *)
THEOREM TypeCorrect == Spec => []TypeOK
<1>1. IInv => TypeOK
  BY DEF IInv
<1> QED
  BY Invariance, <1>1, PTL

(* offer() wakes every consumer that went to sleep before it: no wakeup is *)
(* lost, although wait() and the deque are under different mutexes.        *)
THEOREM NoWakeupIsLost == Spec => []NoLostWakeup
<1>1. IInv => NoLostWakeup
  BY DEF IInv
<1> QED
  BY Invariance, <1>1, PTL

(* Between two queue operations the flag says whether the deque is empty.  *)
THEOREM FlagIsExact == Spec => []FlagTracksQueue
<1>1. IInv => FlagTracksQueue
  BY DEF IInv
<1> QED
  BY Invariance, <1>1, PTL

(* With one consumer poll() never returns the default value by accident.   *)
THEOREM SoleConsumer == Spec => []SoleConsumerFindsElement
<1>1. Init => SoleConsumerFindsElement
  BY DEF Init, SoleConsumerFindsElement, Threads
<1>2. IInv /\ SoleConsumerFindsElement /\ [Next]_vars => SoleConsumerFindsElement'
  <2> SUFFICES ASSUME IInv, SoleConsumerFindsElement, [Next]_vars,
                      NEW c \in Consumers, Consumers = {c},
                      pc'[c] \in {"poll", "take"}
               PROVE  events' # <<>>
    BY DEF SoleConsumerFindsElement
  <2> USE DEF IInv, TypeOK, Threads, ProducerPc, ConsumerPc, Holding, Goto,
              LockDiscipline, InsideCS, FlagTracksQueue, SoleConsumerFindsElement
  <2>1. ASSUME NEW p \in Producers, OfferStep(p) \/ \E e \in Elem : OfferCall(p, e)
        PROVE  events' # <<>>
    BY <2>1, DequeFacts DEF OfferStep, OfferCall, OfferLock, OfferFull, OfferPush, OfferSet, OfferNotify
  <2>2. CASE WaitReturn(c)
    BY <2>2 DEF WaitReturn
  <2>3. CASE PollLock(c)
    BY <2>3 DEF PollLock
  <2>4. CASE \/ PollCall(c) \/ WaitBlock(c) \/ SpuriousWakeup(c)
             \/ PollDefault(c) \/ PollPop(c) \/ PollReset(c)
    BY <2>4 DEF PollCall, WaitBlock, SpuriousWakeup, PollDefault, PollPop, PollReset
  <2>5. CASE UNCHANGED vars
    BY <2>5 DEF vars
  <2> QED
    BY <2>1, <2>2, <2>3, <2>4, <2>5 DEF Next, PollStep
<1> QED
  BY Invariance, <1>1, <1>2, PTL DEF Spec

(* Nobody but the holder of the mutex is between pop and reset.            *)
LEMMA AbsQueueFacts ==
    ASSUME IInv
    PROVE  /\ (\E t \in Threads : pc[t] \in Holding \ {"reset"}) => AbsQueue = events
           /\ owner = NoThread => AbsQueue = events
           /\ cond => AbsQueue # <<>>
  BY DEF IInv, TypeOK, LockDiscipline, InsideCS, FlagTracksQueue, AbsQueue, Threads, Holding,
         ProducerPc, ConsumerPc

LEMMA RefinementStep == IInv /\ IInv' /\ [Next]_vars => [Contract!Next]_(Contract!contractVars)
<1> SUFFICES ASSUME IInv, IInv', [Next]_vars
             PROVE  Contract!Next \/ UNCHANGED Contract!contractVars
  OBVIOUS
<1> DEFINE Step == Contract!Next \/ UNCHANGED Contract!contractVars
<1> USE DEF IInv, TypeOK, LockDiscipline, InsideCS, Threads, ProducerPc, ConsumerPc, Holding, Goto,
            AbsQueue, AbsPhase, Contract!contractVars
<1>0. ASSUME NEW p \in Producers, NEW e \in Elem, OfferCall(p, e) PROVE Step
  <2>1. Contract!CallOffer(p, e)
    BY <1>0 DEF OfferCall, Contract!CallOffer
  <2> QED
    BY <2>1 DEF Contract!Next
<1>1. ASSUME NEW p \in Producers, OfferLock(p) PROVE Step
  BY <1>1 DEF OfferLock
<1>2. ASSUME NEW p \in Producers, OfferFull(p) PROVE Step
  <2>1. Contract!Refuse(p)
    BY <1>2, DequeFacts, AbsQueueFacts DEF OfferFull, FlagTracksQueue, Contract!Refuse
  <2> QED
    BY <2>1 DEF Contract!Next
<1>3. ASSUME NEW p \in Producers, OfferPush(p) PROVE Step
  <2>1. /\ \A c \in Consumers : pc[c] # "reset"
        /\ \A c \in Consumers : pc'[c] # "reset"
    BY <1>3 DEF OfferPush
  <2>2. AbsQueue = events /\ AbsQueue' = Append(AbsQueue, val[p])
    BY <1>3, <2>1 DEF OfferPush
  <2>3. Len(AbsQueue) < Cap
    BY <1>3, <2>2 DEF OfferPush
  <2>4. AbsPhase[p] = "offering" /\ AbsPhase' = [AbsPhase EXCEPT ![p] = "idle"]
    BY <1>3 DEF OfferPush
  <2>5. Contract!Accept(p)
    BY <1>3, <2>2, <2>3, <2>4 DEF OfferPush, Contract!Accept
  <2> QED
    BY <2>5 DEF Contract!Next
<1>4. ASSUME NEW p \in Producers, OfferSet(p) PROVE Step
  BY <1>4 DEF OfferSet
<1>5. ASSUME NEW p \in Producers, OfferNotify(p) PROVE Step
  BY <1>5 DEF OfferNotify
<1>6. ASSUME NEW c \in Consumers, PollCall(c) PROVE Step
  <2>1. Contract!CallPoll(c)
    BY <1>6, DequeFacts, AbsQueueFacts DEF PollCall, FlagTracksQueue, Contract!CallPoll
  <2> QED
    BY <2>1 DEF Contract!Next
<1>7. ASSUME NEW c \in Consumers, WaitReturn(c) PROVE Step
  <2>1. Contract!Observe(c)
    BY <1>7, DequeFacts, AbsQueueFacts DEF WaitReturn, FlagTracksQueue, Contract!Observe
  <2> QED
    BY <2>1 DEF Contract!Next
<1>8. ASSUME NEW c \in Consumers, WaitBlock(c) PROVE Step
  BY <1>8 DEF WaitBlock
<1>9. ASSUME NEW c \in Consumers, SpuriousWakeup(c) PROVE Step
  BY <1>9 DEF SpuriousWakeup
<1>10. ASSUME NEW c \in Consumers, PollLock(c) PROVE Step
  BY <1>10 DEF PollLock
<1>11. ASSUME NEW c \in Consumers, PollDefault(c) PROVE Step
  <2>1. Contract!Take(c)
    BY <1>11, DequeFacts, AbsQueueFacts DEF PollDefault, FlagTracksQueue, Contract!Take
  <2> QED
    BY <2>1 DEF Contract!Next
<1>12. ASSUME NEW c \in Consumers, PollPop(c) PROVE Step
  <2>1. CASE Tail(events) = <<>>
    <3>1. AbsQueue = events
      BY <1>12 DEF PollPop
    <3>2. events = <<Head(events)>>
      BY <1>12, <2>1, LastElement DEF PollPop
    <3>3. /\ pc' = [pc EXCEPT ![c] = "reset"] /\ front' = Head(events)
          /\ val' = val
      BY <1>12, <2>1 DEF PollPop
    <3>4. AbsQueue' = AbsQueue
      BY <3>1, <3>2, <3>3
    <3>5. AbsPhase' = AbsPhase
      BY <1>12, <3>3 DEF PollPop
    <3> QED
      BY <3>3, <3>4, <3>5
  <2>2. CASE Tail(events) # <<>>
    <3>1. /\ pc' = [pc EXCEPT ![c] = "idle"] /\ events' = Tail(events)
          /\ val' = [val EXCEPT ![c] = Head(events)]
      BY <1>12, <2>2 DEF PollPop
    <3>2. AbsQueue = events /\ AbsQueue' = Tail(AbsQueue) /\ AbsQueue # <<>>
      BY <1>12, <3>1 DEF PollPop
    <3>3. AbsPhase[c] = "ready" /\ AbsPhase' = [AbsPhase EXCEPT ![c] = "idle"]
      BY <1>12, <3>1 DEF PollPop
    <3>4. Contract!Take(c)
      BY <3>1, <3>2, <3>3 DEF Contract!Take
    <3> QED
      BY <3>4 DEF Contract!Next
  <2> QED
    BY <2>1, <2>2
<1>13. ASSUME NEW c \in Consumers, PollReset(c) PROVE Step
  <2>1. /\ AbsQueue = <<front>> /\ events = <<>>
        /\ \A d \in Consumers : pc'[d] # "reset"
    BY <1>13 DEF PollReset
  <2>2. AbsQueue # <<>> /\ Head(AbsQueue) = front /\ AbsQueue' = Tail(AbsQueue)
    BY <1>13, <2>1 DEF PollReset
  <2>3. AbsPhase[c] = "ready" /\ AbsPhase' = [AbsPhase EXCEPT ![c] = "idle"]
    BY <1>13 DEF PollReset
  <2>4. Contract!Take(c)
    BY <1>13, <2>2, <2>3 DEF PollReset, Contract!Take
  <2> QED
    BY <2>4 DEF Contract!Next
<1>14. CASE UNCHANGED vars
  BY <1>14 DEF vars
<1> QED
  BY <1>0, <1>1, <1>2, <1>3, <1>4, <1>5, <1>6, <1>7, <1>8, <1>9, <1>10, <1>11, <1>12, <1>13, <1>14
     DEF Next, OfferStep, PollStep

(* EventQueue implements the bounded FIFO queue that DriverImpl and Bus    *)
(* use it as: whatever the interleaving, every offer() is an Accept or a   *)
(* Refuse and every poll() an Observe followed by a Take of the contract.  *)
THEOREM Refinement == Spec => ImplementsContract
<1>1. Init => Contract!Init
  BY DEF Init, Contract!Init, AbsQueue, AbsPhase, Threads
<1> QED
  BY <1>1, Invariance, RefinementStep, PTL DEF Spec, ImplementsContract, Contract!Spec
=============================================================================
