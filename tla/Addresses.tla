----------------------------- MODULE Addresses -----------------------------
(***************************************************************************)
(* The logical addresses of the device and the sending half of Connection: *)
(* the address list of DriverImpl, setSource, sendTo, send and their       *)
(* asynchronous forms, and matchSource, which makes the initiator of a     *)
(* frame that leaves agree with the source of the connection.              *)
(*                                                                         *)
(* Threads send while others change addresses and sources.  Connection::   *)
(* source has no lock, the list has the driver's mutex for one call at a   *)
(* time, and the frame of send() is an object of the application, which    *)
(* matchSource writes to through a const reference.  How the bus takes the *)
(* frame is module BusSend; LibCCEC::addLogicalAddress only looks at       *)
(* `initialized' first.  A call that only throws changes nothing and is no *)
(* action.                                                                 *)
(***************************************************************************)
EXTENDS Naturals, Sequences, FiniteSets, Functions

CONSTANTS Apps,      \* application threads
          Conns,     \* Connection objects
          Addrs,     \* values of LogicalAddress in use
          Frames,    \* CECFrame objects of the application
          MaxAdds,   \* bound: entries of one address in DriverImpl::logicalAddresses
          MaxQueue   \* bound: frames in Bus::wQueue

ASSUME AddressesAssumption ==
    /\ Addrs \subseteq 0 .. 255
    /\ MaxAdds \in Nat /\ MaxQueue \in Nat
    /\ Frames \cap Apps = {}

(* Where CECFrame objects live: in the application, as the local fullFrame *)
(* of sendTo in each thread, and as the copies sendAsync queues.           *)
Copy(i) == <<"copy", i>>
Objects == Frames \cup Apps \cup {Copy(i) : i \in 1 .. MaxQueue}

(* What the locals of a thread in no call are set to.                      *)
Nothing == <<"none", 0>>

(* Different objects are at different places.                              *)
ASSUME ObjectsAssumption ==
    /\ \A i \in 1 .. MaxQueue : Copy(i) \notin Frames \cup Apps
    /\ Nothing \notin Frames \cup Apps

VARIABLES
    status,            \* DriverImpl::status
    logicalAddresses,  \* DriverImpl::logicalAddresses: how often an address is on the list
    source,            \* Connection::source
    initiator,         \* initiator[o]: the high half of the first byte of frame o
    wQueue,            \* Bus::wQueue: [obj, as]; `as' is history, the initiator accepted
    pc,                \* pc[t]: where thread t is in its call, or "idle"
    conn, obj,         \* its connection and its frame
    registered,        \* history: addresses added since they were last removed
    given,             \* history: initiator of the frame matchSource is called with
    headed,            \* history: sendTo made its header, for a destination that fits
    sources,           \* history: sources since of the connections that send the frame
    steady,            \* history: that source and its registration have not changed
    alone              \* history: no other call has had the same frame since

locals == <<pc, conn, obj>>
history == <<registered, given, headed, sources, steady, alone>>
vars == <<status, logicalAddresses, source, initiator, wQueue, locals, history>>

(* Mutant: the address is not masked.                                      *)
Unmasked(a) == a

(* An address is cut to the half byte it has in a header.                  *)
Nibble(a) == a % 16

(* The `|' of C++ on half bytes.                                           *)
Or(a, b) ==
    LET bit(p) == IF (a \div p) % 2 = 1 \/ (b \div p) % 2 = 1 THEN p ELSE 0
    IN  bit(1) + bit(2) + bit(4) + bit(8)

(* Header::serialize appends the destination as a whole byte and then ORs  *)
(* the source, shifted by four bits, into it: the upper half of the        *)
(* destination ends up in the initiator.                                   *)
HeaderInitiator(from, to) == Or(Nibble(from), to \div 16)

Init ==
    /\ status = "CLOSED"
    /\ logicalAddresses = [a \in Addrs |-> 0] /\ registered = {}
    /\ source \in [Conns -> Addrs]
    /\ initiator = [o \in Objects |-> 0]
    /\ wQueue = <<>>
    /\ pc = [t \in Apps |-> "idle"]
    /\ conn = [t \in Apps |-> Nothing] /\ obj = [t \in Apps |-> Nothing]
    /\ given = [t \in Apps |-> 0] /\ headed = [t \in Apps |-> FALSE]
    /\ sources = [t \in Apps |-> {}]
    /\ steady = [t \in Apps |-> TRUE] /\ alone = [t \in Apps |-> TRUE]
-----------------------------------------------------------------------------
(* The driver's list of logical addresses                                  *)

(* Registering or removing a unsettles the calls that depend on it.        *)
Unsettle(a) ==
    steady' = [t \in Apps |-> steady[t] /\ (pc[t] = "idle" \/ source[conn[t]] # a)]

HalResult == {"SUCCESS", "GENERAL_ERROR", "LOGICALADDRESS_UNAVAILABLE", "INVALID_STATE"}

(* The answers of HdmiCecAddLogicalAddress that become an exception; any   *)
(* other one counts as success.                                            *)
AddRefused(res) == res \in {"LOGICALADDRESS_UNAVAILABLE", "GENERAL_ERROR"}

(* An address may be added twice: nobody looks whether it is there.        *)
AddLogicalAddress(a, res) ==
    /\ status = "OPENED" /\ ~AddRefused(res)
    /\ logicalAddresses[a] < MaxAdds
    /\ logicalAddresses' = [logicalAddresses EXCEPT ![a] = @ + 1]
    /\ registered' = registered \cup {a}
    /\ IF a \in registered THEN UNCHANGED steady ELSE Unsettle(a)
    /\ UNCHANGED <<status, source, initiator, wQueue, locals, given, headed, sources, alone>>

(* Mutant: only the first occurrence goes.                                 *)
RemoveFirst(n) == IF n = 0 THEN 0 ELSE n - 1

(* std::list::remove takes every one of the n occurrences.                 *)
Removed(n) == 0

(* The answer of HdmiCecRemoveLogicalAddress is not looked at.             *)
RemoveLogicalAddress(a) ==
    /\ status = "OPENED"
    /\ logicalAddresses' = [logicalAddresses EXCEPT ![a] = Removed(@)]
    /\ registered' = registered \ {a}
    /\ IF a \in registered THEN Unsettle(a) ELSE UNCHANGED steady
    /\ UNCHANGED <<status, source, initiator, wQueue, locals, given, headed, sources, alone>>

IsValidLogicalAddress(a) == logicalAddresses[a] > 0
-----------------------------------------------------------------------------
(* Connection                                                              *)

(* The calls that have frame o, if it is one that calls can share.         *)
Sharers(o) == {u \in Apps : o \in Frames /\ obj[u] = o}

(* No lock, and no look at the calls under way.                            *)
SetSource(c, a) ==
    /\ a # source[c]
    /\ source' = [source EXCEPT ![c] = a]
    /\ LET mine(t) == pc[t] # "idle" /\ conn[t] = c
       IN  /\ sources' = [t \in Apps |-> IF \E u \in {t} \cup Sharers(obj[t]) : mine(u)
                                         THEN sources[t] \cup {a} ELSE sources[t]]
           /\ steady' = [t \in Apps |-> steady[t] /\ ~mine(t)]
    /\ UNCHANGED <<status, logicalAddresses, initiator, wQueue, locals,
                   registered, given, headed, alone>>

(* A call begins: thread t sends frame o, whose initiator is i, through c; *)
(* h is whether i is to be c's source.                                     *)
Begin(t, c, o, i, h) ==
    /\ pc[t] = "idle"
    /\ pc' = [pc EXCEPT ![t] = "valid"]
    /\ conn' = [conn EXCEPT ![t] = c] /\ obj' = [obj EXCEPT ![t] = o]
    /\ given' = [given EXCEPT ![t] = i] /\ headed' = [headed EXCEPT ![t] = h]
    /\ sources' = [u \in Apps |->
           IF u = t THEN {source[c]} \cup {source[conn[v]] : v \in Sharers(o)}
           ELSE IF u \in Sharers(o) THEN sources[u] \cup {source[c]} ELSE sources[u]]
    /\ steady' = [steady EXCEPT ![t] = TRUE]
    /\ alone' = [u \in Apps |-> IF u = t THEN \A v \in Apps : obj[v] # o
                                ELSE alone[u] /\ obj[u] # o]
    /\ UNCHANGED <<status, logicalAddresses, source, wQueue, registered>>

(* send and sendAsync: the frame is the caller's, its header too.          *)
Send(t, c, f) ==
    /\ Begin(t, c, f, initiator[f], FALSE)
    /\ UNCHANGED initiator

(* Mutant: the full frame is one object for all calls.                     *)
SendToStatic(t, c, to) ==
    LET o == CHOOSE u \in Apps : TRUE
        i == HeaderInitiator(source[c], to)
    IN  /\ Begin(t, c, o, i, to < 16)
        /\ initiator' = [initiator EXCEPT ![o] = i]

(* sendTo and sendToAsync: header and payload go into a local frame.       *)
SendTo(t, c, to) ==
    LET i == HeaderInitiator(source[c], to)
    IN  /\ Begin(t, c, t, i, to < 16)
        /\ initiator' = [initiator EXCEPT ![t] = i]

(* matchSource reads the source for the driver's answer, ...               *)
MatchValid(t) ==
    /\ pc[t] = "valid"
    /\ pc' = [pc EXCEPT ![t] = IF IsValidLogicalAddress(source[conn[t]]) THEN "compare" ELSE "bus"]
    /\ UNCHANGED <<status, logicalAddresses, source, initiator, wQueue, conn, obj, history>>

(* Mutant: the initiator is left alone if the frame has one.               *)
MatchCompareAny(t) ==
    /\ pc[t] = "compare"
    /\ pc' = [pc EXCEPT ![t] = IF initiator[obj[t]] = 0 THEN "alter" ELSE "bus"]
    /\ UNCHANGED <<status, logicalAddresses, source, initiator, wQueue, conn, obj, history>>

(* ... again to compare it with the frame's initiator, ...                 *)
MatchCompare(t) ==
    /\ pc[t] = "compare"
    /\ pc' = [pc EXCEPT ![t] = IF initiator[obj[t]] # Nibble(source[conn[t]]) THEN "alter" ELSE "bus"]
    /\ UNCHANGED <<status, logicalAddresses, source, initiator, wQueue, conn, obj, history>>

(* ... and a third time to write it into the frame.                        *)
MatchAlter(t) ==
    /\ pc[t] = "alter"
    /\ initiator' = [initiator EXCEPT ![obj[t]] = Nibble(source[conn[t]])]
    /\ pc' = [pc EXCEPT ![t] = "bus"]
    /\ UNCHANGED <<status, logicalAddresses, source, wQueue, conn, obj, history>>

(* The call is over; the frame of sendTo ceases to exist.                  *)
Destroyed(t) == [initiator EXCEPT ![t] = 0]

End(t) ==
    /\ pc' = [pc EXCEPT ![t] = "idle"]
    /\ conn' = [conn EXCEPT ![t] = Nothing] /\ obj' = [obj EXCEPT ![t] = Nothing]
    /\ given' = [given EXCEPT ![t] = 0] /\ headed' = [headed EXCEPT ![t] = FALSE]
    /\ sources' = [sources EXCEPT ![t] = {}]
    /\ steady' = [steady EXCEPT ![t] = TRUE] /\ alone' = [alone EXCEPT ![t] = TRUE]

(* Bus::send transmits the frame or throws; Bus::sendAsync may throw, too. *)
(* Up to here the synchronous and the asynchronous calls are the same.     *)
BusSend(t) ==
    /\ pc[t] = "bus"
    /\ End(t) /\ initiator' = Destroyed(t)
    /\ UNCHANGED <<status, logicalAddresses, source, wQueue, registered>>

(* Mutant: the queue gets the caller's object.                             *)
BusSendAsyncAlias(t) ==
    /\ pc[t] = "bus"
    /\ Len(wQueue) < MaxQueue
    /\ wQueue' = Append(wQueue, [obj |-> obj[t], as |-> initiator[obj[t]]])
    /\ End(t) /\ initiator' = Destroyed(t)
    /\ UNCHANGED <<status, logicalAddresses, source, registered>>

(* Bus::sendAsync queues a copy.                                           *)
BusSendAsync(t) ==
    /\ pc[t] = "bus"
    /\ Len(wQueue) < MaxQueue
    /\ \E i \in 1 .. MaxQueue :
          /\ \A e \in Range(wQueue) : e.obj # Copy(i)
          /\ initiator' = [Destroyed(t) EXCEPT ![Copy(i)] = initiator[obj[t]]]
          /\ wQueue' = Append(wQueue, [obj |-> Copy(i), as |-> initiator[obj[t]]])
    /\ End(t)
    /\ UNCHANGED <<status, logicalAddresses, source, registered>>

(* The writer thread hands the oldest copy to the driver, or drops it, and *)
(* deletes it.                                                             *)
WriterTakes ==
    /\ wQueue # <<>>
    /\ wQueue' = Tail(wQueue)
    /\ initiator' = [initiator EXCEPT ![Head(wQueue).obj] = 0]
    /\ UNCHANGED <<status, logicalAddresses, source, locals, history>>
-----------------------------------------------------------------------------
(* The application sets up a frame of its own that no call uses.           *)
WriteFrame(f, i) ==
    /\ \A t \in Apps : obj[t] # f
    /\ i # initiator[f]
    /\ initiator' = [initiator EXCEPT ![f] = i]
    /\ UNCHANGED <<status, logicalAddresses, source, wQueue, locals, history>>

(* Driver::open and Driver::close (see module Bus); the list stays.        *)
DriverToggle ==
    /\ status' = IF status = "OPENED" THEN "CLOSED" ELSE "OPENED"
    /\ UNCHANGED <<logicalAddresses, source, initiator, wQueue, locals, history>>

AppStep(t) ==
    \/ \E c \in Conns : \/ \E to \in Addrs : SendTo(t, c, to)
                       \/ \E f \in Frames : Send(t, c, f)
    \/ MatchValid(t) \/ MatchCompare(t) \/ MatchAlter(t)
    \/ BusSend(t) \/ BusSendAsync(t)

Next ==
    \/ \E t \in Apps : AppStep(t)
    \/ \E a \in Addrs : RemoveLogicalAddress(a) \/ \E res \in HalResult : AddLogicalAddress(a, res)
    \/ \E c \in Conns, a \in Addrs : SetSource(c, a)
    \/ \E f \in Frames : WriteFrame(f, 0)
    \/ WriterTakes \/ DriverToggle

Spec == Init /\ [][Next]_vars
-----------------------------------------------------------------------------
(* Properties                                                              *)

(* The variables have their types.                                         *)
TypeOK ==
    /\ status \in {"OPENED", "CLOSED"}
    /\ logicalAddresses \in [Addrs -> 0 .. MaxAdds]
    /\ registered \subseteq Addrs /\ source \in [Conns -> Addrs]
    /\ initiator \in [Objects -> 0 .. 15]
    /\ wQueue \in Seq([obj : Objects, as : 0 .. 15]) /\ Len(wQueue) <= MaxQueue
    /\ pc \in [Apps -> {"idle", "valid", "compare", "alter", "bus"}]
    /\ conn \in [Apps -> Conns \cup {Nothing}] /\ obj \in [Apps -> Objects \cup {Nothing}]
    /\ given \in [Apps -> 0 .. 15] /\ headed \in [Apps -> BOOLEAN]
    /\ sources \in [Apps -> SUBSET Addrs]
    /\ steady \in [Apps -> BOOLEAN] /\ alone \in [Apps -> BOOLEAN]

(* isValidLogicalAddress answers by what the application added and has not *)
(* removed since, however often an address was added, and across closing   *)
(* and reopening the driver.                                               *)
ListIsRegistered == \A a \in Addrs : IsValidLogicalAddress(a) <=> a \in registered

(* Where the initiator of a call's frame may come from: from a connection  *)
(* that sends this frame meanwhile, or from the header it had before.      *)
Authentic(t) ==
    initiator[obj[t]] \in {Nibble(a) : a \in sources[t]} \cup (IF headed[t] THEN {} ELSE {given[t]})

(* What sendTo addresses to a destination a header can hold leaves with a  *)
(* source its own connection had during the call.  Any other frame leaves  *)
(* with the initiator it came with (the caller's, or for a destination     *)
(* above 15 what Header::serialize made of both addresses), or with such a *)
(* source of a connection that had this very frame object at the same      *)
(* time.  It is never anything else, although setSource, address changes   *)
(* and other calls with the same frame come between matchSource's reads.   *)
InitiatorAuthentic == \A t \in Apps : pc[t] = "bus" => Authentic(t)

(* Frames that only this call has: the local one of sendTo always is.      *)
Own(t) == obj[t] \in Frames => alone[t]

(* If nobody touches the connection's source or its registration during    *)
(* the call, the initiator is that source if it is registered, and         *)
(* otherwise what the caller, or Header::serialize for sendTo, wrote.      *)
SourceEnforced ==
    \A t \in Apps : pc[t] = "bus" /\ Own(t) /\ steady[t] =>
        initiator[obj[t]] = IF source[conn[t]] \in registered THEN Nibble(source[conn[t]]) ELSE given[t]

(* A frame in the writer's queue keeps the initiator it was accepted with, *)
(* although the caller may send, and matchSource alter, its object again.  *)
QueuedUnaltered == \A e \in Range(wQueue) : initiator[e.obj] = e.as

(* The inductive invariant behind these, in parts.  A call has a frame of  *)
(* the application or its own local one, and has seen its connection's     *)
(* source.                                                                 *)
CallInv ==
    \A t \in Apps : IF pc[t] = "idle" THEN obj[t] = Nothing
                    ELSE /\ conn[t] \in Conns /\ obj[t] \in Frames \cup {t}
                         /\ source[conn[t]] \in sources[t]

AloneInv == \A t, u \in Apps : t # u /\ pc[t] # "idle" /\ alone[t] => obj[u] # obj[t]

(* Until matchSource writes to it, the frame is as it was given; after the *)
(* driver has answered, the source is registered unless it was changed.    *)
MatchInv ==
    \A t \in Apps : pc[t] # "idle" /\ Own(t) =>
        /\ pc[t] # "bus" => initiator[obj[t]] = given[t]
        /\ pc[t] \in {"compare", "alter"} /\ steady[t] => source[conn[t]] \in registered

(* Calls with the same frame have seen the sources of each other, and the  *)
(* initiator is from one of them at every step of matchSource.             *)
ShareInv ==
    \A t \in Apps : pc[t] # "idle" =>
        \A u \in Sharers(obj[t]) : source[conn[u]] \in sources[t]

AuthInv == \A t \in Apps : pc[t] # "idle" => Authentic(t)

(* The queue holds copies, each of them once.                              *)
QueueInv ==
    /\ \A i \in 1 .. Len(wQueue) : \E k \in 1 .. MaxQueue : wQueue[i].obj = Copy(k)
    /\ \A i, j \in 1 .. Len(wQueue) : wQueue[i].obj = wQueue[j].obj => i = j

IInv ==
    /\ TypeOK /\ ListIsRegistered /\ CallInv /\ AloneInv /\ MatchInv
    /\ SourceEnforced /\ ShareInv /\ AuthInv /\ QueueInv /\ QueuedUnaltered
=============================================================================
