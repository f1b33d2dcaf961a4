----------------------------- MODULE EventQueue -----------------------------
(***************************************************************************)
(* CCEC_OSAL::EventQueue and the ConditionVariable it waits on, at the     *)
(* granularity of the two locks they take.                                 *)
(*                                                                         *)
(*  - EventQueue::mutex protects the deque; `owner' is its holder.         *)
(*  - ConditionVariable::mutex protects only the flag, so each of set(),   *)
(*    reset(), isSet() and notifyAll() is one atomic step on `cond'.       *)
(*  - poll() reads the flag in wait() BEFORE it takes EventQueue::mutex,   *)
(*    so a consumer can act on a flag other threads have since changed.    *)
(*                                                                         *)
(* The step that pushes an element, the one that sets the flag and the one *)
(* that broadcasts are separate, and so are the one that pops the last     *)
(* element and the one that resets the flag.                               *)
(***************************************************************************)
EXTENDS Naturals, Sequences, FiniteSets

CONSTANTS Producers,  \* threads that call offer()
          Consumers,  \* threads that call poll()
          Elem,       \* the elements offered (frame pointers and the null sentinel)
          Default,    \* ET(), the null pointer
          Cap,        \* EventQueue::cap
          NoThread    \* EventQueue::mutex is free

ASSUME QueueAssumption ==
    /\ Producers \cap Consumers = {}
    /\ NoThread \notin Producers \cup Consumers
    /\ Cap \in Nat \ {0}

VARIABLES events,  \* *EventQueue::events
          cond,    \* Condition::cond, the flag of the condition variable
          owner,   \* the holder of EventQueue::mutex
          front,   \* the local `front' of the poll() that holds the mutex
          pc,      \* pc[t]: where thread t is
          val      \* val[t]: the argument of offer() or the result of the last poll()

vars == <<events, cond, owner, front, pc, val>>

Threads == Producers \cup Consumers

Goto(t, l) == pc' = [pc EXCEPT ![t] = l]

Init ==
    /\ events = <<>>
    /\ cond = FALSE
    /\ owner = NoThread
    /\ front = Default
    /\ pc = [t \in Threads |-> "idle"]
    /\ val = [t \in Threads |-> Default]
-----------------------------------------------------------------------------
(* EventQueue::offer                                                       *)

OfferCall(p, e) ==
    /\ pc[p] = "idle"
    /\ Goto(p, "offer")
    /\ val' = [val EXCEPT ![p] = e]
    /\ UNCHANGED <<events, cond, owner, front>>

OfferLock(p) ==
    /\ pc[p] = "offer"
    /\ owner = NoThread
    /\ owner' = p
    /\ Goto(p, "push")
    /\ UNCHANGED <<events, cond, front, val>>

(* A full queue makes offer() throw; AutoLock releases the mutex.          *)
OfferFull(p) ==
    /\ pc[p] = "push"
    /\ Len(events) = Cap
    /\ owner' = NoThread
    /\ Goto(p, "idle")
    /\ UNCHANGED <<events, cond, front, val>>

(* Mutant: the capacity test lets one element too many in.                 *)
OfferPushOffByOne(p) ==
    /\ pc[p] = "push"
    /\ Len(events) <= Cap
    /\ events' = Append(events, val[p])
    /\ Goto(p, "set")
    /\ UNCHANGED <<cond, owner, front, val>>

(* Mutant: the element goes to the front of the deque.                     *)
OfferPushFront(p) ==
    /\ pc[p] = "push"
    /\ Len(events) # Cap
    /\ events' = <<val[p]>> \o events
    /\ Goto(p, "set")
    /\ UNCHANGED <<cond, owner, front, val>>

OfferPush(p) ==
    /\ pc[p] = "push"
    /\ Len(events) # Cap
    /\ events' = Append(events, val[p])
    /\ Goto(p, "set")
    /\ UNCHANGED <<cond, owner, front, val>>

OfferSet(p) ==
    /\ pc[p] = "set"
    /\ cond' = TRUE
    /\ Goto(p, "notify")
    /\ UNCHANGED <<events, owner, front, val>>

(* Mutant: the broadcast is left out, offer() only sets the flag.          *)
OfferNotifyNobody(p) ==
    /\ pc[p] = "notify"
    /\ cond' = TRUE
    /\ owner' = NoThread
    /\ Goto(p, "idle")
    /\ UNCHANGED <<events, front, val>>

(* notifyAll() sets the flag again and wakes every thread blocked in       *)
(* pthread_cond_wait; then AutoLock releases the mutex.                    *)
OfferNotify(p) ==
    /\ pc[p] = "notify"
    /\ cond' = TRUE
    /\ owner' = NoThread
    /\ pc' = [t \in Threads |-> IF t = p THEN "idle"
                                ELSE IF pc[t] = "blocked" THEN "wait" ELSE pc[t]]
    /\ UNCHANGED <<events, front, val>>
-----------------------------------------------------------------------------
(* EventQueue::poll and ConditionVariable::wait                            *)

PollCall(c) ==
    /\ pc[c] = "idle"
    /\ Goto(c, "wait")
    /\ UNCHANGED <<events, cond, owner, front, val>>

(* while (!cond->isSet()): the flag is set, wait() returns.                *)
WaitReturn(c) ==
    /\ pc[c] = "wait"
    /\ cond
    /\ Goto(c, "poll")
    /\ UNCHANGED <<events, cond, owner, front, val>>

(* The flag is clear: block, atomically with respect to set/notifyAll.     *)
WaitBlock(c) ==
    /\ pc[c] = "wait"
    /\ ~cond
    /\ Goto(c, "blocked")
    /\ UNCHANGED <<events, cond, owner, front, val>>

(* pthread_cond_wait may return without a broadcast.                       *)
SpuriousWakeup(c) ==
    /\ pc[c] = "blocked"
    /\ Goto(c, "wait")
    /\ UNCHANGED <<events, cond, owner, front, val>>

PollLock(c) ==
    /\ pc[c] = "poll"
    /\ owner = NoThread
    /\ owner' = c
    /\ Goto(c, "take")
    /\ UNCHANGED <<events, cond, front, val>>

(* `!cond.isSet() || events->empty()': return the default value.           *)
PollDefault(c) ==
    /\ pc[c] = "take"
    /\ ~cond \/ events = <<>>
    /\ val' = [val EXCEPT ![c] = Default]
    /\ owner' = NoThread
    /\ Goto(c, "idle")
    /\ UNCHANGED <<events, cond, front>>

(* Pop the front.  If it was the last element the mutex is kept while the  *)
(* flag is reset, otherwise poll() returns.                                *)
PollPop(c) ==
    /\ pc[c] = "take"
    /\ cond /\ events # <<>>
    /\ events' = Tail(events)
    /\ front' = Head(events)
    /\ \/ /\ Tail(events) = <<>>
          /\ Goto(c, "reset")
          /\ UNCHANGED <<owner, val>>
       \/ /\ Tail(events) # <<>>
          /\ val' = [val EXCEPT ![c] = Head(events)]
          /\ owner' = NoThread
          /\ Goto(c, "idle")
    /\ UNCHANGED cond

(* Mutant: the flag stays set on an empty deque.                           *)
PollResetForgotten(c) ==
    /\ pc[c] = "reset"
    /\ val' = [val EXCEPT ![c] = front]
    /\ owner' = NoThread
    /\ Goto(c, "idle")
    /\ UNCHANGED <<events, cond, front>>

PollReset(c) ==
    /\ pc[c] = "reset"
    /\ cond' = FALSE
    /\ val' = [val EXCEPT ![c] = front]
    /\ owner' = NoThread
    /\ Goto(c, "idle")
    /\ UNCHANGED <<events, front>>
-----------------------------------------------------------------------------
OfferStep(p) == OfferLock(p) \/ OfferFull(p) \/ OfferPush(p) \/ OfferSet(p) \/ OfferNotify(p)

PollStep(c) ==
    \/ WaitReturn(c) \/ WaitBlock(c)
    \/ PollLock(c) \/ PollDefault(c) \/ PollPop(c) \/ PollReset(c)

Next ==
    \/ \E p \in Producers : OfferStep(p) \/ \E e \in Elem : OfferCall(p, e)
    \/ \E c \in Consumers : PollStep(c) \/ PollCall(c) \/ SpuriousWakeup(c)

Spec == Init /\ [][Next]_vars

(* A thread inside a call keeps running, and the worker loops call poll()  *)
(* again and again.  Only weak fairness: nothing is assumed about who wins *)
(* the mutex.  Nobody owes a call of offer() or a spurious wakeup.         *)
Fairness ==
    /\ \A p \in Producers : WF_vars(OfferStep(p))
    /\ \A c \in Consumers : WF_vars(PollStep(c)) /\ WF_vars(PollCall(c))

FairSpec == Spec /\ Fairness
-----------------------------------------------------------------------------
(* Properties                                                              *)

ProducerPc == {"idle", "offer", "push", "set", "notify"}
ConsumerPc == {"idle", "wait", "blocked", "poll", "take", "reset"}
Holding == {"push", "set", "notify", "take", "reset"}

(* The variables have their types; the deque never outgrows the capacity   *)
(* offer() tests for.                                                      *)
TypeOK ==
    /\ events \in Seq(Elem) /\ Len(events) <= Cap
    /\ cond \in BOOLEAN
    /\ owner \in Threads \cup {NoThread}
    /\ pc \in [Threads -> ProducerPc \cup ConsumerPc]
    /\ \A p \in Producers : pc[p] \in ProducerPc
    /\ \A c \in Consumers : pc[c] \in ConsumerPc
    /\ front \in Elem \cup {Default}
    /\ val \in [Threads -> Elem \cup {Default}]
    /\ \A p \in Producers : pc[p] \in ProducerPc \ {"idle"} => val[p] \in Elem

(* A thread is between lock and unlock exactly when it owns the mutex.     *)
LockDiscipline == \A t \in Threads : pc[t] \in Holding <=> owner = t

(* What each point of a critical section knows about deque and flag.       *)
InsideCS ==
    /\ \A p \in Producers : pc[p] \in {"set", "notify"} => events # <<>>
    /\ \A p \in Producers : pc[p] = "set" => (cond <=> Len(events) > 1)
    /\ \A p \in Producers : pc[p] = "notify" => cond
    /\ \A c \in Consumers : pc[c] = "reset" => cond /\ events = <<>>

(* Whenever no thread is half way through moving an element, the flag of   *)
(* the condition variable says exactly whether the deque holds something,  *)
(* although wait() reads it without EventQueue::mutex.  If it could be     *)
(* clear with an element queued, poll() would return null for a frame that *)
(* is there (`!cond.isSet() || events->empty()').                          *)
FlagTracksQueue ==
    (\A t \in Threads : pc[t] \notin {"set", "reset"}) => (cond <=> events # <<>>)

(* No consumer sleeps in pthread_cond_wait on a set flag once the offer    *)
(* that set it is over: the wakeup of notifyAll() cannot be lost between   *)
(* the test of the flag in wait() and the sleep.                           *)
NoLostWakeup ==
    \A c \in Consumers : pc[c] = "blocked" /\ cond =>
        \E p \in Producers : pc[p] = "notify"

(* poll() comes back with the default value only if several threads poll:  *)
(* a sole consumer that got past wait() finds an element.  The reader and  *)
(* the writer loops of Bus take a null from their queue to be the sentinel.*)
SoleConsumerFindsElement ==
    \A c \in Consumers : Consumers = {c} /\ pc[c] \in {"poll", "take"} => events # <<>>

(* The inductive invariant: who is inside the critical sections of offer() *)
(* and poll(), and what flag and deque look like at each point of them.    *)
IInv ==
    TypeOK /\ LockDiscipline /\ InsideCS /\ FlagTracksQueue /\ NoLostWakeup

(* Once the producers leave the queue alone the consumers empty it: no     *)
(* interleaving of wait(), reset() and notifyAll() leaves them all asleep  *)
(* over a queued element.                                                  *)
QueueDrains == <>[](\A p \in Producers : pc[p] = "idle") => <>[](events = <<>>)

(* The contract.  An element counts from its push; the last element of the *)
(* deque counts until the flag is reset, because up to then other          *)
(* consumers still get past wait().                                        *)
AbsQueue == IF \E c \in Consumers : pc[c] = "reset" THEN <<front>> ELSE events

AbsPhase == [t \in Threads |->
    CASE pc[t] \in {"offer", "push"} -> "offering"
      [] pc[t] \in {"wait", "blocked"} -> "polling"
      [] pc[t] \in {"poll", "take", "reset"} -> "ready"
      [] OTHER -> "idle"]

Contract == INSTANCE QueueContract
            WITH queue <- AbsQueue, phase <- AbsPhase, value <- val

(* The EventQueue with its two mutexes and its flag implements the bounded *)
(* FIFO queue of QueueContract, whatever the interleaving.                 *)
ImplementsContract == Contract!Spec
=============================================================================
