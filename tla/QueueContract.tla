---------------------------- MODULE QueueContract ----------------------------
(***************************************************************************)
(* What CCEC_OSAL::EventQueue promises to its users (DriverImpl::rQueue    *)
(* and Bus::wQueue), with no mutex, condition flag or wait set in sight: a *)
(* bounded FIFO queue whose offer never waits and whose poll waits for an  *)
(* element.  poll is two atomic steps, not one.  A consumer first observes *)
(* that the queue holds something and only later takes the front; if other *)
(* consumers emptied the queue in between it comes back with Default (the  *)
(* null pointer ET() of the code).                                         *)
(***************************************************************************)
EXTENDS Naturals, Sequences

CONSTANTS Producers,  \* threads that call offer()
          Consumers,  \* threads that call poll()
          Elem,       \* what may be offered; the code also offers the null pointer
          Default,    \* what an empty-handed poll() returns
          Cap         \* capacity; 32 in the code

VARIABLES queue,   \* the elements offered and not yet taken, oldest first
          phase,   \* phase[t]: where thread t is in its call
          value    \* value[t]: the element t offers, or the one its last poll returned

contractVars == <<queue, phase, value>>

Init ==
    /\ queue = <<>>
    /\ phase = [t \in Producers \cup Consumers |-> "idle"]
    /\ value = [t \in Producers \cup Consumers |-> Default]

(* A producer enters offer(e).                                             *)
CallOffer(p, e) ==
    /\ phase[p] = "idle"
    /\ phase' = [phase EXCEPT ![p] = "offering"]
    /\ value' = [value EXCEPT ![p] = e]
    /\ UNCHANGED queue

(* The element is accepted and is the new last one.                        *)
Accept(p) ==
    /\ phase[p] = "offering"
    /\ Len(queue) < Cap
    /\ queue' = Append(queue, value[p])
    /\ phase' = [phase EXCEPT ![p] = "idle"]
    /\ UNCHANGED value

(* The queue is full: the caller gets an exception and nothing changes.    *)
Refuse(p) ==
    /\ phase[p] = "offering"
    /\ Len(queue) = Cap
    /\ phase' = [phase EXCEPT ![p] = "idle"]
    /\ UNCHANGED <<queue, value>>

(* A consumer enters poll().                                               *)
CallPoll(c) ==
    /\ phase[c] = "idle"
    /\ phase' = [phase EXCEPT ![c] = "polling"]
    /\ UNCHANGED <<queue, value>>

(* The wait of poll() ends, which it only does on a queue with an element. *)
Observe(c) ==
    /\ phase[c] = "polling"
    /\ queue # <<>>
    /\ phase' = [phase EXCEPT ![c] = "ready"]
    /\ UNCHANGED <<queue, value>>

(* poll() returns: the oldest element, or Default if none is left.         *)
Take(c) ==
    /\ phase[c] = "ready"
    /\ phase' = [phase EXCEPT ![c] = "idle"]
    /\ \/ /\ queue # <<>>
          /\ value' = [value EXCEPT ![c] = Head(queue)]
          /\ queue' = Tail(queue)
       \/ /\ queue = <<>>
          /\ value' = [value EXCEPT ![c] = Default]
          /\ UNCHANGED queue

Next ==
    \/ \E p \in Producers : \/ \E e \in Elem : CallOffer(p, e)
                            \/ Accept(p)
                            \/ Refuse(p)
    \/ \E c \in Consumers : CallPoll(c) \/ Observe(c) \/ Take(c)

Spec == Init /\ [][Next]_contractVars
=============================================================================
