-------------------------- MODULE AddressesProofs --------------------------
(***************************************************************************)
(* Theorems about the address list and matchSource, for any number of      *)
(* threads, connections, frames and addresses.                             *)
(***************************************************************************)
EXTENDS Addresses, TLAPS

(* What a header can hold.                                                 *)
LEMMA NibbleType == ASSUME NEW a \in Addrs PROVE Nibble(a) \in 0 .. 15
BY AddressesAssumption DEF Nibble

(* ORing half bytes gives a half byte, and ORing zero changes nothing.     *)
LEMMA OrType == ASSUME NEW a, NEW b PROVE Or(a, b) \in 0 .. 15
BY DEF Or

LEMMA OrZero == ASSUME NEW a \in 0 .. 15 PROVE Or(a, 0) = a
<1>1. a \in {0, 1, 2, 3, 4, 5, 6, 7} \/ a \in {8, 9, 10, 11, 12, 13, 14, 15}
    OBVIOUS
<1>2. CASE a \in {0, 1, 2, 3, 4, 5, 6, 7}
    BY <1>2 DEF Or
<1>3. CASE a \in {8, 9, 10, 11, 12, 13, 14, 15}
    BY <1>3 DEF Or
<1> QED
    BY <1>1, <1>2, <1>3

(* The header of sendTo has an initiator, and the connection's source is   *)
(* it if the destination fits.                                             *)
LEMMA HeaderFacts ==
    ASSUME NEW a \in Addrs, NEW to \in Addrs
    PROVE  /\ HeaderInitiator(a, to) \in 0 .. 15
           /\ to < 16 => HeaderInitiator(a, to) = Nibble(a)
<1>1. to < 16 => to \div 16 = 0
    BY AddressesAssumption
<1> QED
    BY <1>1, OrType, OrZero, NibbleType DEF HeaderInitiator

(* The places of frames: copies are no frames of the application and no    *)
(* call's local frame, and no frame is nowhere.                            *)
LEMMA Places ==
    /\ Frames \subseteq Objects /\ Apps \subseteq Objects
    /\ \A i \in 1 .. MaxQueue : Copy(i) \in Objects /\ Copy(i) \notin Frames \cup Apps
    /\ Nothing \notin Objects
    /\ \A i, j \in 1 .. MaxQueue : Copy(i) = Copy(j) => i = j
BY ObjectsAssumption DEF Objects, Copy, Nothing

(* Taking the oldest entry off a queue ...                                 *)
LEMMA TailFacts ==
    ASSUME NEW S, NEW q \in Seq(S), q # <<>>
    PROVE  /\ Tail(q) \in Seq(S) /\ Len(q) \in Nat \ {0} /\ Len(Tail(q)) = Len(q) - 1
           /\ Head(q) = q[1]
           /\ \A i \in 1 .. Len(Tail(q)) : Tail(q)[i] = q[i + 1]
OBVIOUS

(* ... and putting a new one at its end.                                   *)
LEMMA AppendFacts ==
    ASSUME NEW S, NEW q \in Seq(S), NEW e \in S
    PROVE  /\ Append(q, e) \in Seq(S) /\ Len(Append(q, e)) = Len(q) + 1
           /\ Append(q, e)[Len(q) + 1] = e
           /\ \A i \in 1 .. Len(q) : Append(q, e)[i] = q[i]
OBVIOUS

(* A queued frame is unaltered if it is so at every index.                 *)
LEMMA Unaltered ==
    ASSUME NEW S, wQueue \in Seq(S)
    PROVE  QueuedUnaltered <=> \A i \in 1 .. Len(wQueue) : initiator[wQueue[i].obj] = wQueue[i].as
BY DEF QueuedUnaltered, Range

(* Writing an initiator into a frame.                                      *)
LEMMA WriteType ==
    ASSUME NEW f \in [Objects -> 0 .. 15], NEW o, NEW v \in 0 .. 15
    PROVE  [f EXCEPT ![o] = v] \in [Objects -> 0 .. 15]
OBVIOUS
-----------------------------------------------------------------------------
(* Types *)

(* Every step keeps the types.                                             *)
LEMMA TypeStep == ASSUME TypeOK, CallInv, [Next]_vars PROVE TypeOK'
<1> USE DEF locals, history
<1>0. 0 \in 0 .. 15
    OBVIOUS
<1>1. ASSUME NEW a \in Addrs, NEW res \in HalResult, AddLogicalAddress(a, res) PROVE TypeOK'
    <2>1. steady' \in [Apps -> BOOLEAN]
        BY <1>1 DEF TypeOK, AddLogicalAddress, Unsettle
    <2>2. logicalAddresses' \in [Addrs -> 0 .. MaxAdds]
        BY <1>1, AddressesAssumption DEF TypeOK, AddLogicalAddress
    <2> QED
        BY <1>1, <2>1, <2>2 DEF TypeOK, AddLogicalAddress
<1>2. ASSUME NEW a \in Addrs, RemoveLogicalAddress(a) PROVE TypeOK'
    <2>1. steady' \in [Apps -> BOOLEAN]
        BY <1>2 DEF TypeOK, RemoveLogicalAddress, Unsettle
    <2>2. logicalAddresses' \in [Addrs -> 0 .. MaxAdds]
        BY <1>2, AddressesAssumption DEF TypeOK, RemoveLogicalAddress, Removed
    <2> QED
        BY <1>2, <2>1, <2>2 DEF TypeOK, RemoveLogicalAddress
<1>3. ASSUME NEW c \in Conns, NEW a \in Addrs, SetSource(c, a) PROVE TypeOK'
    BY <1>3 DEF TypeOK, SetSource
<1>4. ASSUME NEW t \in Apps, NEW c \in Conns, NEW o \in Objects, NEW i \in 0 .. 15, NEW h \in BOOLEAN,
             Begin(t, c, o, i, h), initiator' \in [Objects -> 0 .. 15]
      PROVE  TypeOK'
    <2>1. \A u \in Sharers(o) : u \in Apps /\ source[conn[u]] \in Addrs
        BY Places DEF Sharers, CallInv, TypeOK
    <2>2. sources' \in [Apps -> SUBSET Addrs]
        BY <1>4, <2>1 DEF TypeOK, Begin
    <2>3. alone' \in [Apps -> BOOLEAN] /\ headed' \in [Apps -> BOOLEAN] /\ steady' \in [Apps -> BOOLEAN]
        BY <1>4 DEF TypeOK, Begin
    <2> QED
        BY <1>4, <2>2, <2>3 DEF TypeOK, Begin
<1>5. ASSUME NEW t \in Apps, NEW c \in Conns, NEW f \in Frames, Send(t, c, f) PROVE TypeOK'
    <2>1. f \in Objects /\ initiator[f] \in 0 .. 15
        BY Places DEF TypeOK
    <2> QED
        BY <1>4, <1>5, <2>1 DEF Send, TypeOK
<1>6. ASSUME NEW t \in Apps, NEW c \in Conns, NEW to \in Addrs, SendTo(t, c, to) PROVE TypeOK'
    <2>1. t \in Objects /\ HeaderInitiator(source[c], to) \in 0 .. 15 /\ (to < 16) \in BOOLEAN
        BY Places, HeaderFacts DEF TypeOK
    <2>2. initiator' \in [Objects -> 0 .. 15]
        BY <1>6, <2>1 DEF SendTo, TypeOK
    <2> QED
        BY <1>4, <1>6, <2>1, <2>2 DEF SendTo
<1>7. ASSUME NEW t \in Apps, MatchValid(t) \/ MatchCompare(t) PROVE TypeOK'
    BY <1>7 DEF TypeOK, MatchValid, MatchCompare
<1>8. ASSUME NEW t \in Apps, MatchAlter(t) PROVE TypeOK'
    <2>1. Nibble(source[conn[t]]) \in 0 .. 15
        BY <1>8, NibbleType DEF TypeOK, CallInv, MatchAlter
    <2> QED
        BY <1>8, <2>1 DEF TypeOK, MatchAlter
<1>9. ASSUME NEW t \in Apps, pc[t] = "bus" PROVE obj[t] \in Objects /\ initiator[obj[t]] \in 0 .. 15
    BY <1>9, Places DEF CallInv, TypeOK
<1>10. ASSUME NEW t \in Apps, BusSend(t) PROVE TypeOK'
    BY <1>10, Places DEF TypeOK, BusSend, End, Destroyed
<1>11. ASSUME NEW t \in Apps, BusSendAsync(t) PROVE TypeOK'
    <2>1. PICK i \in 1 .. MaxQueue :
              /\ initiator' = [Destroyed(t) EXCEPT ![Copy(i)] = initiator[obj[t]]]
              /\ wQueue' = Append(wQueue, [obj |-> Copy(i), as |-> initiator[obj[t]]])
        BY <1>11 DEF BusSendAsync
    <2>2. Copy(i) \in Objects /\ initiator[obj[t]] \in 0 .. 15 /\ Len(wQueue) < MaxQueue
        BY <1>9, <1>11, Places DEF BusSendAsync
    <2>3. initiator' \in [Objects -> 0 .. 15]
        <3>1. Destroyed(t) \in [Objects -> 0 .. 15]
            BY <1>0, WriteType DEF TypeOK, Destroyed
        <3> QED
            BY <2>1, <2>2, <3>1, WriteType
    <2>4. wQueue' \in Seq([obj : Objects, as : 0 .. 15]) /\ Len(wQueue') <= MaxQueue
        <3> DEFINE Entry == [obj : Objects, as : 0 .. 15]
                   new == [obj |-> Copy(i), as |-> initiator[obj[t]]]
        <3>1. new \in Entry
            BY <2>2
        <3>2. wQueue \in Seq(Entry) /\ wQueue' = Append(wQueue, new)
            BY <2>1 DEF TypeOK
        <3> HIDE DEF Entry, new
        <3>3. wQueue' \in Seq(Entry) /\ Len(wQueue') = Len(wQueue) + 1 /\ Len(wQueue) \in Nat
            BY <3>1, <3>2, AppendFacts
        <3> QED
            BY <2>2, <3>3, AddressesAssumption DEF Entry
    <2> QED
        BY <1>11, <2>3, <2>4 DEF TypeOK, BusSendAsync, End
<1>12. CASE WriterTakes
    <2>1. wQueue' \in Seq([obj : Objects, as : 0 .. 15]) /\ Len(wQueue') <= MaxQueue
        <3> DEFINE Entry == [obj : Objects, as : 0 .. 15]
        <3>1. wQueue \in Seq(Entry) /\ wQueue # <<>> /\ wQueue' = Tail(wQueue)
            BY <1>12 DEF TypeOK, WriterTakes
        <3> HIDE DEF Entry
        <3>2. wQueue' \in Seq(Entry) /\ Len(wQueue') = Len(wQueue) - 1 /\ Len(wQueue) \in Nat
            BY <3>1, TailFacts
        <3>3. Len(wQueue) <= MaxQueue
            BY DEF TypeOK
        <3> QED
            BY <3>2, <3>3, AddressesAssumption DEF Entry
    <2>2. initiator' \in [Objects -> 0 .. 15]
        BY <1>0, <1>12, WriteType DEF TypeOK, WriterTakes
    <2> QED
        BY <1>12, <2>1, <2>2 DEF TypeOK, WriterTakes
<1>13. ASSUME NEW f \in Frames, WriteFrame(f, 0) PROVE TypeOK'
    <2>1. initiator' \in [Objects -> 0 .. 15]
        BY <1>0, <1>13, WriteType DEF TypeOK, WriteFrame
    <2> QED
        BY <1>13, <2>1 DEF TypeOK, WriteFrame
<1>14. CASE DriverToggle
    BY <1>14 DEF TypeOK, DriverToggle
<1>15. CASE UNCHANGED vars
    BY <1>15 DEF TypeOK, vars
<1> QED
    BY <1>1, <1>2, <1>3, <1>5, <1>6, <1>7, <1>8, <1>10, <1>11, <1>12, <1>13, <1>14, <1>15
       DEF Next, AppStep
-----------------------------------------------------------------------------
(* The address list *)

(* The list and what the application registered change together.           *)
LEMMA ListStep == ASSUME TypeOK, ListIsRegistered, [Next]_vars PROVE ListIsRegistered'
<1>1. ASSUME NEW a \in Addrs, NEW res \in HalResult, AddLogicalAddress(a, res) PROVE ListIsRegistered'
    <2>1. \A b \in Addrs : logicalAddresses'[b] = IF b = a THEN logicalAddresses[a] + 1 ELSE logicalAddresses[b]
        BY <1>1 DEF TypeOK, AddLogicalAddress
    <2>2. registered' = registered \cup {a} /\ logicalAddresses[a] \in Nat
        BY <1>1, AddressesAssumption DEF TypeOK, AddLogicalAddress
    <2> QED
        BY <2>1, <2>2 DEF ListIsRegistered, IsValidLogicalAddress
<1>2. ASSUME NEW a \in Addrs, RemoveLogicalAddress(a) PROVE ListIsRegistered'
    <2>1. \A b \in Addrs : logicalAddresses'[b] = IF b = a THEN 0 ELSE logicalAddresses[b]
        BY <1>2 DEF TypeOK, RemoveLogicalAddress, Removed
    <2>2. registered' = registered \ {a}
        BY <1>2 DEF RemoveLogicalAddress
    <2> QED
        BY <2>1, <2>2 DEF ListIsRegistered, IsValidLogicalAddress
<1>3. UNCHANGED <<logicalAddresses, registered>> => ListIsRegistered'
    BY DEF ListIsRegistered, IsValidLogicalAddress
<1>4. ASSUME NEW t \in Apps, AppStep(t) PROVE UNCHANGED <<logicalAddresses, registered>>
    BY <1>4 DEF AppStep, SendTo, Send, Begin, MatchValid, MatchCompare, MatchAlter, BusSend,
                BusSendAsync, history
<1>5. ASSUME \/ \E c \in Conns, a \in Addrs : SetSource(c, a)
             \/ \E f \in Frames : WriteFrame(f, 0)
             \/ WriterTakes \/ DriverToggle \/ UNCHANGED vars
      PROVE  UNCHANGED <<logicalAddresses, registered>>
    BY <1>5 DEF SetSource, WriteFrame, WriterTakes, DriverToggle, vars, history
<1> QED
    BY <1>1, <1>2, <1>3, <1>4, <1>5 DEF Next
-----------------------------------------------------------------------------
(* Calls *)

(* What the invariant says of one thread's frame.                          *)
FrameOK(t) ==
    pc[t] # "idle" /\ Own(t) =>
        /\ pc[t] # "bus" => initiator[obj[t]] = given[t]
        /\ pc[t] \in {"compare", "alter"} /\ steady[t] => source[conn[t]] \in registered
        /\ pc[t] = "bus" /\ steady[t] =>
               initiator[obj[t]] = IF source[conn[t]] \in registered THEN Nibble(source[conn[t]]) ELSE given[t]

(* The two invariants about such frames are that, for every thread.        *)
LEMMA FramesOK == MatchInv /\ SourceEnforced <=> \A t \in Apps : FrameOK(t)
BY DEF MatchInv, SourceEnforced, FrameOK

(* The frame of a call that has it to itself is no other call's and not    *)
(* where another call's local frame or a queued copy is.                   *)
LEMMA OwnFrame ==
    ASSUME CallInv, AloneInv, NEW t \in Apps, pc[t] # "idle", Own(t)
    PROVE  /\ \A u \in Apps : u # t => obj[t] # obj[u] /\ obj[t] # u
           /\ \A i \in 1 .. MaxQueue : obj[t] # Copy(i)
<1>1. obj[t] \in Frames \cup {t}
    BY DEF CallInv
<1>2. ASSUME NEW u \in Apps, u # t PROVE obj[t] # obj[u] /\ obj[t] # u
    <2>1. CASE obj[t] \in Frames
        BY <1>2, <2>1, AddressesAssumption DEF Own, AloneInv
    <2>2. CASE obj[t] = t
        BY <1>2, <2>2, AddressesAssumption, Places DEF CallInv
    <2> QED
        BY <1>1, <2>1, <2>2
<1>3. \A i \in 1 .. MaxQueue : obj[t] # Copy(i)
    BY <1>1, Places
<1> QED
    BY <1>2, <1>3

(* A step that leaves a call where it is and its frame alone, and records  *)
(* what it does to its source, does not disturb it.                        *)
LEMMA Undisturbed ==
    ASSUME NEW t \in Apps, FrameOK(t),
           pc'[t] = pc[t], conn'[t] = conn[t], obj'[t] = obj[t], given'[t] = given[t],
           pc[t] # "idle" => (alone'[t] => alone[t]),
           pc[t] # "idle" /\ Own(t) => initiator'[obj[t]] = initiator[obj[t]],
           pc[t] # "idle" /\ steady'[t] =>
               /\ steady[t] /\ source'[conn[t]] = source[conn[t]]
               /\ source[conn[t]] \in registered' <=> source[conn[t]] \in registered
    PROVE  FrameOK(t)'
<1>1. pc[t] # "idle" /\ Own(t)' => Own(t)
    BY DEF Own
<1>2. SUFFICES ASSUME pc[t] # "idle", Own(t)' PROVE FrameOK(t)'
    BY DEF FrameOK
<1>3. initiator'[obj[t]] = initiator[obj[t]]
    BY <1>1, <1>2
<1>4. pc[t] # "bus" => initiator[obj[t]] = given[t]
    BY <1>1, <1>2 DEF FrameOK
<1>5. pc[t] \in {"compare", "alter"} /\ steady'[t] => source'[conn[t]] \in registered'
    BY <1>1, <1>2 DEF FrameOK
<1>6. pc[t] = "bus" /\ steady'[t] =>
          initiator[obj[t]] = IF source'[conn[t]] \in registered' THEN Nibble(source'[conn[t]]) ELSE given[t]
    BY <1>1, <1>2 DEF FrameOK
<1> QED
    BY <1>3, <1>4, <1>5, <1>6 DEF FrameOK, Nibble

(* The part of the invariant that is about calls on their own.             *)
CallsOK == CallInv /\ AloneInv /\ \A t \in Apps : FrameOK(t)

(* A step outside every call: addresses and sources change, the writer     *)
(* takes a copy, the application fills a frame no call has.                *)
LEMMA OutsideStep ==
    ASSUME TypeOK, CallsOK, UNCHANGED <<pc, conn, obj, given, alone>>,
           \A t \in Apps : pc[t] # "idle" => initiator'[obj[t]] = initiator[obj[t]],
           \A t \in Apps : pc[t] # "idle" => source'[conn[t]] \in sources'[t],
           \A t \in Apps : pc[t] # "idle" /\ steady'[t] =>
               /\ steady[t] /\ source'[conn[t]] = source[conn[t]]
               /\ source[conn[t]] \in registered' <=> source[conn[t]] \in registered
    PROVE  CallsOK'
<1>1. CallInv'
    BY DEF CallsOK, CallInv
<1>2. AloneInv'
    BY DEF CallsOK, AloneInv
<1>3. ASSUME NEW t \in Apps PROVE FrameOK(t)'
    <2>1. FrameOK(t)
        BY DEF CallsOK
    <2> QED
        BY <2>1, Undisturbed
<1> QED
    BY <1>1, <1>2, <1>3 DEF CallsOK

(* An address is registered or removed.                                    *)
LEMMA ListCallStep ==
    ASSUME TypeOK, CallsOK, NEW a \in Addrs, NEW res \in HalResult,
           AddLogicalAddress(a, res) \/ RemoveLogicalAddress(a)
    PROVE  CallsOK'
<1>1. UNCHANGED <<source, initiator, pc, conn, obj, given, sources, alone>>
    BY DEF AddLogicalAddress, RemoveLogicalAddress, locals
<1>2. ASSUME NEW t \in Apps, pc[t] # "idle", steady'[t]
      PROVE  steady[t] /\ (source[conn[t]] \in registered' <=> source[conn[t]] \in registered)
    <2>1. CASE AddLogicalAddress(a, res)
        BY <1>2, <2>1 DEF AddLogicalAddress, Unsettle, TypeOK
    <2>2. CASE RemoveLogicalAddress(a)
        BY <1>2, <2>2 DEF RemoveLogicalAddress, Unsettle, TypeOK
    <2> QED
        BY <2>1, <2>2
<1>3. \A t \in Apps : pc[t] # "idle" => source[conn[t]] \in sources[t]
    BY DEF CallsOK, CallInv
<1> QED
    BY <1>1, <1>2, <1>3, OutsideStep

(* A connection gets another source.                                       *)
LEMMA SourceStep ==
    ASSUME TypeOK, CallsOK, NEW c \in Conns, NEW a \in Addrs, SetSource(c, a)
    PROVE  CallsOK'
<1>1. UNCHANGED <<initiator, pc, conn, obj, given, registered, alone>>
    BY DEF SetSource, locals
<1>2. \A t \in Apps : pc[t] # "idle" => conn[t] \in Conns /\ source[conn[t]] \in sources[t]
    BY DEF CallsOK, CallInv
<1>3. \A d \in Conns : source'[d] = IF d = c THEN a ELSE source[d]
    BY DEF SetSource, TypeOK
<1>4. \A t \in Apps : /\ sources[t] \subseteq sources'[t]
                      /\ pc[t] # "idle" /\ conn[t] = c => a \in sources'[t]
    BY DEF SetSource
<1>5. \A t \in Apps : steady'[t] => steady[t] /\ ~ (pc[t] # "idle" /\ conn[t] = c)
    BY DEF SetSource, TypeOK
<1>6. ASSUME NEW t \in Apps, pc[t] # "idle" PROVE source'[conn[t]] \in sources'[t]
    BY <1>2, <1>3, <1>4, <1>6
<1>7. ASSUME NEW t \in Apps, pc[t] # "idle", steady'[t]
      PROVE  steady[t] /\ source'[conn[t]] = source[conn[t]]
    BY <1>2, <1>3, <1>5, <1>7
<1> QED
    BY <1>1, <1>4, <1>6, <1>7, OutsideStep

(* A call begins.                                                          *)
LEMMA BeginStep ==
    ASSUME TypeOK, CallsOK, NEW t \in Apps, NEW c \in Conns, NEW o \in Frames \cup {t}, NEW i, NEW h,
           Begin(t, c, o, i, h), initiator'[o] = i,
           \A p \in Objects : p # t => initiator'[p] = initiator[p]
    PROVE  CallsOK'
<1>1. UNCHANGED <<source, registered>> /\ pc[t] = "idle"
    BY DEF Begin
<1>2. /\ pc'[t] = "valid" /\ conn'[t] = c /\ obj'[t] = o /\ given'[t] = i /\ source[c] \in sources'[t]
      /\ alone'[t] => \A v \in Apps : obj[v] # o
    BY DEF Begin, TypeOK
<1>3. \A u \in Apps : u # t =>
          /\ pc'[u] = pc[u] /\ conn'[u] = conn[u] /\ obj'[u] = obj[u] /\ given'[u] = given[u]
          /\ sources[u] \subseteq sources'[u] /\ steady'[u] = steady[u]
          /\ alone'[u] => alone[u] /\ obj[u] # o
    BY DEF Begin, TypeOK
<1>4. CallInv'
    BY <1>1, <1>2, <1>3 DEF CallsOK, CallInv
<1>5. AloneInv'
    <2> SUFFICES ASSUME NEW v \in Apps, NEW u \in Apps, v # u, pc'[v] # "idle", alone'[v]
                 PROVE  obj'[u] # obj'[v]
        BY DEF AloneInv
    <2>1. CASE v = t
        BY <1>2, <1>3, <2>1
    <2>2. CASE v # t /\ u = t
        BY <1>2, <1>3, <2>2
    <2>3. CASE v # t /\ u # t
        BY <1>3, <2>3 DEF CallsOK, AloneInv
    <2> QED
        BY <2>1, <2>2, <2>3
<1>6. FrameOK(t)'
    BY <1>2 DEF FrameOK
<1>7. ASSUME NEW u \in Apps, u # t PROVE FrameOK(u)'
    <2>1. FrameOK(u)
        BY DEF CallsOK
    <2>2. pc[u] # "idle" /\ Own(u) => initiator'[obj[u]] = initiator[obj[u]]
        BY <1>7, OwnFrame, Places DEF CallsOK, CallInv
    <2> QED
        BY <1>1, <1>3, <1>7, <2>1, <2>2, Undisturbed
<1> QED
    BY <1>4, <1>5, <1>6, <1>7 DEF CallsOK

(* matchSource's three reads.                                              *)
LEMMA MatchStep ==
    ASSUME TypeOK, ListIsRegistered, CallsOK, NEW t \in Apps,
           MatchValid(t) \/ MatchCompare(t) \/ MatchAlter(t)
    PROVE  CallsOK'
<1>1. /\ UNCHANGED <<source, conn, obj, registered, given, sources, steady, alone>>
      /\ \A u \in Apps : u # t => pc'[u] = pc[u]
      /\ pc[t] # "idle" /\ pc'[t] # "idle"
    BY DEF MatchValid, MatchCompare, MatchAlter, history, TypeOK
<1>2. CallInv' /\ AloneInv'
    BY <1>1 DEF CallsOK, CallInv, AloneInv
<1>3. /\ conn[t] \in Conns /\ obj[t] \in Objects /\ source[conn[t]] \in sources[t]
      /\ source[conn[t]] \in Addrs
    BY <1>1, Places DEF CallsOK, CallInv, TypeOK
<1>4. \A o \in Objects : o # obj[t] => initiator'[o] = initiator[o]
    BY DEF MatchValid, MatchCompare, MatchAlter, TypeOK
<1>5. ASSUME NEW u \in Apps, u # t PROVE FrameOK(u)'
    <2>1. FrameOK(u)
        BY DEF CallsOK
    <2>2. pc[u] # "idle" /\ Own(u) => initiator'[obj[u]] = initiator[obj[u]]
        BY <1>4, <1>5, OwnFrame, Places DEF CallsOK, CallInv
    <2> QED
        BY <1>1, <1>5, <2>1, <2>2, Undisturbed
<1>6. FrameOK(t)'
    <2> SUFFICES ASSUME Own(t) PROVE FrameOK(t)'
        BY <1>1 DEF FrameOK, Own
    <2>1. FrameOK(t)
        BY DEF CallsOK
    <2>2. CASE MatchValid(t)
        <3>1. initiator' = initiator /\ initiator[obj[t]] = given[t]
            BY <2>1, <2>2 DEF MatchValid, FrameOK
        <3>2. pc'[t] = IF source[conn[t]] \in registered THEN "compare" ELSE "bus"
            BY <1>3, <2>2 DEF MatchValid, ListIsRegistered, TypeOK
        <3> QED
            BY <1>1, <3>1, <3>2 DEF FrameOK
    <2>3. CASE MatchCompare(t)
        <3>1. initiator' = initiator /\ initiator[obj[t]] = given[t] /\ pc[t] = "compare"
            BY <2>1, <2>3 DEF MatchCompare, FrameOK
        <3>2. pc'[t] = IF initiator[obj[t]] # Nibble(source[conn[t]]) THEN "alter" ELSE "bus"
            BY <2>3 DEF MatchCompare, TypeOK
        <3>3. steady[t] => source[conn[t]] \in registered
            BY <2>1, <3>1 DEF FrameOK
        <3> QED
            BY <1>1, <3>1, <3>2, <3>3 DEF FrameOK
    <2>4. CASE MatchAlter(t)
        <3>1. initiator'[obj[t]] = Nibble(source[conn[t]]) /\ pc[t] = "alter" /\ pc'[t] = "bus"
            BY <1>3, <2>4 DEF MatchAlter, TypeOK
        <3>2. steady[t] => source[conn[t]] \in registered
            BY <2>1, <3>1 DEF FrameOK
        <3> QED
            BY <1>1, <1>3, <3>1, <3>2 DEF FrameOK
    <2> QED
        BY <2>2, <2>3, <2>4
<1> QED
    BY <1>2, <1>5, <1>6 DEF CallsOK

(* A call is over.                                                         *)
LEMMA EndStep ==
    ASSUME TypeOK, CallsOK, NEW t \in Apps, End(t), UNCHANGED <<source, registered>>,
           \A o \in Frames \cup (Apps \ {t}) : initiator'[o] = initiator[o]
    PROVE  CallsOK'
<1>1. pc'[t] = "idle" /\ obj'[t] = Nothing
    BY DEF End, TypeOK
<1>2. \A u \in Apps : u # t =>
          /\ pc'[u] = pc[u] /\ conn'[u] = conn[u] /\ obj'[u] = obj[u] /\ given'[u] = given[u]
          /\ sources'[u] = sources[u] /\ steady'[u] = steady[u] /\ alone'[u] = alone[u]
    BY DEF End, TypeOK
<1>3. CallInv'
    BY <1>1, <1>2 DEF CallsOK, CallInv
<1>4. AloneInv'
    <2> SUFFICES ASSUME NEW v \in Apps, NEW u \in Apps, v # u, pc'[v] # "idle", alone'[v]
                 PROVE  obj'[u] # obj'[v]
        BY DEF AloneInv
    <2>1. v # t
        BY <1>1
    <2>2. CASE u = t
        BY <1>1, <1>2, <2>1, <2>2, Places DEF CallsOK, CallInv
    <2>3. CASE u # t
        BY <1>2, <2>1, <2>3 DEF CallsOK, AloneInv
    <2> QED
        BY <2>2, <2>3
<1>5. FrameOK(t)'
    BY <1>1 DEF FrameOK
<1>6. ASSUME NEW u \in Apps, u # t PROVE FrameOK(u)'
    <2>1. FrameOK(u)
        BY DEF CallsOK
    <2>2. pc[u] # "idle" => initiator'[obj[u]] = initiator[obj[u]]
        BY <1>6 DEF CallsOK, CallInv
    <2> QED
        BY <1>2, <1>6, <2>1, <2>2, Undisturbed
<1> QED
    BY <1>3, <1>4, <1>5, <1>6 DEF CallsOK
-----------------------------------------------------------------------------
(* Shared frames *)

(* Where initiators come from.                                             *)
SharesOK == ShareInv /\ AuthInv

(* A step that leaves every call where it is, and whose new initiators and *)
(* sources are recorded.                                                   *)
LEMMA SharedStep ==
    ASSUME SharesOK, UNCHANGED <<conn, obj, given, headed>>,
           \A t \in Apps : pc'[t] # "idle" => pc[t] # "idle",
           \A t \in Apps : sources[t] \subseteq sources'[t],
           \A t \in Apps : pc[t] # "idle" =>
               \/ initiator'[obj[t]] = initiator[obj[t]]
               \/ initiator'[obj[t]] \in {Nibble(a) : a \in sources'[t]},
           \A t, u \in Apps : pc[t] # "idle" /\ u \in Sharers(obj[t]) => source'[conn[u]] \in sources'[t]
    PROVE  SharesOK'
<1>1. \A o : Sharers(o)' = Sharers(o)
    BY DEF Sharers
<1>2. ShareInv'
    BY <1>1 DEF ShareInv, Sharers
<1>3. ASSUME NEW t \in Apps, pc'[t] # "idle" PROVE Authentic(t)'
    <2>1. Authentic(t)
        BY <1>3 DEF SharesOK, AuthInv
    <2> QED
        BY <1>3, <2>1 DEF Authentic, Nibble
<1> QED
    BY <1>2, <1>3 DEF SharesOK, AuthInv

(* setSource tells every call with a frame that c sends.                   *)
LEMMA SourceShared ==
    ASSUME TypeOK, CallsOK, SharesOK, NEW c \in Conns, NEW a \in Addrs, SetSource(c, a)
    PROVE  SharesOK'
<1>1. UNCHANGED <<initiator, pc, conn, obj, given, headed>>
    BY DEF SetSource, locals
<1>2. \A t \in Apps : sources'[t] = IF \E u \in {t} \cup Sharers(obj[t]) : pc[u] # "idle" /\ conn[u] = c
                                    THEN sources[t] \cup {a} ELSE sources[t]
    BY DEF SetSource
<1>3. \A d \in Conns : source'[d] = IF d = c THEN a ELSE source[d]
    BY DEF SetSource, TypeOK
<1>4. ASSUME NEW t \in Apps, NEW u \in Apps, pc[t] # "idle", u \in Sharers(obj[t])
      PROVE  source'[conn[u]] \in sources'[t]
    <2>1. pc[u] # "idle" /\ conn[u] \in Conns
        BY <1>4, Places DEF Sharers, CallsOK, CallInv
    <2>2. source[conn[u]] \in sources[t]
        BY <1>4 DEF SharesOK, ShareInv
    <2> QED
        BY <1>2, <1>3, <1>4, <2>1, <2>2
<1> QED
    BY <1>1, <1>2, <1>4, SharedStep

(* A call begins.                                                          *)
LEMMA BeginShared ==
    ASSUME TypeOK, CallsOK, SharesOK, NEW t \in Apps, NEW c \in Conns, NEW o \in Frames \cup {t}, NEW i, NEW h,
           Begin(t, c, o, i, h), initiator'[o] = i, h => i = Nibble(source[c]), h \in BOOLEAN,
           \A p \in Objects : p # t => initiator'[p] = initiator[p]
    PROVE  SharesOK'
<1>1. source' = source /\ pc[t] = "idle" /\ obj[t] = Nothing
    BY DEF Begin, CallsOK, CallInv
<1>2. /\ pc'[t] = "valid" /\ conn'[t] = c /\ obj'[t] = o /\ given'[t] = i /\ headed'[t] = h
      /\ sources'[t] = {source[c]} \cup {source[conn[v]] : v \in Sharers(o)}
    BY DEF Begin, TypeOK
<1>3. ASSUME NEW u \in Apps, u # t
      PROVE  /\ pc'[u] = pc[u] /\ conn'[u] = conn[u] /\ obj'[u] = obj[u] /\ given'[u] = given[u]
             /\ headed'[u] = headed[u] /\ sources[u] \subseteq sources'[u]
             /\ u \in Sharers(o) => source[c] \in sources'[u]
    BY <1>3 DEF Begin, TypeOK
<1>4. ASSUME NEW u \in Apps, u # t, pc[u] # "idle" PROVE initiator'[obj[u]] = initiator[obj[u]]
    BY <1>4, Places, AddressesAssumption DEF CallsOK, CallInv
<1>5. ShareInv'
    <2> SUFFICES ASSUME NEW u \in Apps, NEW v \in Apps, pc'[u] # "idle", obj'[u] \in Frames, obj'[v] = obj'[u]
                 PROVE  source[conn'[v]] \in sources'[u]
        BY <1>1 DEF ShareInv, Sharers
    <2>1. CASE u = t /\ v = t
        BY <1>2, <2>1
    <2>2. CASE u = t /\ v # t
        BY <1>2, <1>3, <2>2 DEF Sharers
    <2>3. CASE u # t /\ v = t
        BY <1>2, <1>3, <2>3 DEF Sharers
    <2>4. CASE u # t /\ v # t
        BY <1>3, <2>4 DEF SharesOK, ShareInv, Sharers
    <2> QED
        BY <2>1, <2>2, <2>3, <2>4
<1>6. ASSUME NEW u \in Apps, pc'[u] # "idle" PROVE Authentic(u)'
    <2>1. CASE u = t
        BY <1>2, <2>1 DEF Authentic
    <2>2. CASE u # t
        <3>1. Authentic(u)
            BY <1>3, <1>6, <2>2 DEF SharesOK, AuthInv
        <3> QED
            BY <1>3, <1>4, <1>6, <2>2, <3>1 DEF Authentic, Nibble
    <2> QED
        BY <2>1, <2>2
<1> QED
    BY <1>5, <1>6 DEF SharesOK, AuthInv

(* matchSource writes a source that every call with the frame has seen.    *)
LEMMA MatchShared ==
    ASSUME TypeOK, CallsOK, SharesOK, NEW t \in Apps,
           MatchValid(t) \/ MatchCompare(t) \/ MatchAlter(t)
    PROVE  SharesOK'
<1>1. /\ UNCHANGED <<source, conn, obj, given, headed, sources>> /\ pc[t] # "idle"
      /\ \A u \in Apps : pc'[u] # "idle" => pc[u] # "idle"
    BY DEF MatchValid, MatchCompare, MatchAlter, history, TypeOK
<1>2. \A u \in Apps : pc[u] # "idle" => obj[u] \in Frames \cup {u} /\ obj[u] \in Objects
    BY Places DEF CallsOK, CallInv
<1>3. \A o \in Objects : \/ initiator'[o] = initiator[o]
                         \/ o = obj[t] /\ initiator'[o] = Nibble(source[conn[t]])
    BY DEF MatchValid, MatchCompare, MatchAlter, TypeOK
<1>4. ASSUME NEW u \in Apps, pc[u] # "idle", obj[u] = obj[t] PROVE source[conn[t]] \in sources[u]
    <2>1. CASE obj[u] \in Frames
        BY <1>4, <2>1 DEF SharesOK, ShareInv, Sharers
    <2>2. CASE obj[u] \notin Frames
        BY <1>1, <1>2, <1>4, <2>2 DEF CallsOK, CallInv
    <2> QED
        BY <2>1, <2>2
<1>5. ASSUME NEW u \in Apps, pc[u] # "idle"
      PROVE  initiator'[obj[u]] = initiator[obj[u]] \/ initiator'[obj[u]] \in {Nibble(a) : a \in sources[u]}
    BY <1>2, <1>3, <1>4, <1>5
<1>6. \A u, v \in Apps : pc[u] # "idle" /\ v \in Sharers(obj[u]) => source[conn[v]] \in sources[u]
    BY DEF SharesOK, ShareInv
<1> QED
    BY <1>1, <1>5, <1>6, SharedStep

(* A call is over.                                                         *)
LEMMA EndShared ==
    ASSUME TypeOK, CallsOK, SharesOK, NEW t \in Apps, End(t), source' = source,
           \A o \in Frames \cup (Apps \ {t}) : initiator'[o] = initiator[o]
    PROVE  SharesOK'
<1>1. pc'[t] = "idle" /\ obj'[t] = Nothing
    BY DEF End, TypeOK
<1>2. ASSUME NEW u \in Apps, u # t
      PROVE  /\ pc'[u] = pc[u] /\ conn'[u] = conn[u] /\ obj'[u] = obj[u] /\ given'[u] = given[u]
             /\ headed'[u] = headed[u] /\ sources'[u] = sources[u]
    BY <1>2 DEF End, TypeOK
<1>3. ASSUME NEW u \in Apps, u # t, pc[u] # "idle" PROVE initiator'[obj[u]] = initiator[obj[u]]
    BY <1>3 DEF CallsOK, CallInv
<1>4. ShareInv'
    <2> SUFFICES ASSUME NEW u \in Apps, NEW v \in Apps, pc'[u] # "idle", obj'[u] \in Frames, obj'[v] = obj'[u]
                 PROVE  source[conn'[v]] \in sources'[u]
        BY DEF ShareInv, Sharers
    <2>1. u # t /\ v # t
        BY <1>1, Places
    <2> QED
        BY <1>2, <2>1 DEF SharesOK, ShareInv, Sharers
<1>5. ASSUME NEW u \in Apps, pc'[u] # "idle" PROVE Authentic(u)'
    <2>1. u # t
        BY <1>1, <1>5
    <2>2. Authentic(u)
        BY <1>2, <1>5, <2>1 DEF SharesOK, AuthInv
    <2> QED
        BY <1>2, <1>3, <1>5, <2>1, <2>2 DEF Authentic, Nibble
<1> QED
    BY <1>4, <1>5 DEF SharesOK, AuthInv
-----------------------------------------------------------------------------
(* The queue of copies *)

(* A step that leaves the queue and the copies alone.                      *)
LEMMA QueueStays ==
    ASSUME TypeOK, QueueInv, QueuedUnaltered, wQueue' = wQueue,
           \A k \in 1 .. MaxQueue : initiator'[Copy(k)] = initiator[Copy(k)]
    PROVE  QueueInv' /\ QueuedUnaltered'
<1>1. \A i \in 1 .. Len(wQueue) : initiator[wQueue[i].obj] = wQueue[i].as
    BY Unaltered DEF TypeOK
<1>2. \A i \in 1 .. Len(wQueue) : initiator'[wQueue[i].obj] = wQueue[i].as
    BY <1>1 DEF QueueInv
<1>3. QueuedUnaltered'
    <2> DEFINE Entry == [obj : Objects, as : 0 .. 15]
    <2>1. wQueue \in Seq(Entry)
        BY DEF TypeOK
    <2> HIDE DEF Entry
    <2>2. DOMAIN wQueue = 1 .. Len(wQueue)
        BY <2>1
    <2> QED
        BY <1>2, <2>2 DEF QueuedUnaltered, Range
<1> QED
    BY <1>3 DEF QueueInv

(* A copy that is not in the queue is put at its end.                      *)
LEMMA CopyStep ==
    ASSUME TypeOK, CallsOK, QueueInv, QueuedUnaltered, NEW t \in Apps, BusSendAsync(t)
    PROVE  QueueInv' /\ QueuedUnaltered' /\ \A o \in Frames \cup (Apps \ {t}) : initiator'[o] = initiator[o]
<1> DEFINE Entry == [obj : Objects, as : 0 .. 15]
           v == initiator[obj[t]]
<1>1. PICK k \in 1 .. MaxQueue :
          /\ \A e \in Range(wQueue) : e.obj # Copy(k)
          /\ initiator' = [Destroyed(t) EXCEPT ![Copy(k)] = v]
          /\ wQueue' = Append(wQueue, [obj |-> Copy(k), as |-> v])
    BY DEF BusSendAsync
<1> DEFINE new == [obj |-> Copy(k), as |-> v]
<1>2. v \in 0 .. 15
    BY Places DEF BusSendAsync, CallsOK, CallInv, TypeOK
<1>3. new \in Entry /\ wQueue \in Seq(Entry) /\ wQueue' = Append(wQueue, new)
    BY <1>1, <1>2, Places DEF TypeOK
<1>4. \A o \in Objects : initiator'[o] = IF o = Copy(k) THEN v ELSE IF o = t THEN 0 ELSE initiator[o]
    BY <1>1 DEF Destroyed, TypeOK
<1>5. new.obj = Copy(k) /\ new.as = v
    OBVIOUS
<1> HIDE DEF Entry, v, new
<1>6. /\ wQueue' \in Seq(Entry) /\ Len(wQueue) \in Nat /\ Len(wQueue') = Len(wQueue) + 1
      /\ wQueue'[Len(wQueue) + 1] = new /\ \A i \in 1 .. Len(wQueue) : wQueue'[i] = wQueue[i]
    BY <1>3, AppendFacts
<1>7. \A i \in 1 .. Len(wQueue) : wQueue[i].obj # Copy(k)
    BY <1>1, <1>3 DEF Range
<1>8. \A i \in 1 .. Len(wQueue) : initiator[wQueue[i].obj] = wQueue[i].as
    BY Unaltered DEF TypeOK
<1>9. \A i \in 1 .. Len(wQueue) : \E j \in 1 .. MaxQueue : wQueue[i].obj = Copy(j)
    BY DEF QueueInv
<1>10. \A i \in 1 .. Len(wQueue) : initiator'[wQueue[i].obj] = wQueue[i].as
    BY <1>4, <1>7, <1>8, <1>9, Places
<1>11. initiator'[Copy(k)] = v
    BY <1>4, Places
<1>12. \A i \in 1 .. Len(wQueue') : i \in 1 .. Len(wQueue) \/ i = Len(wQueue) + 1
    BY <1>6
<1>13. QueueInv'
    <2>1. \A i \in 1 .. Len(wQueue') : \E j \in 1 .. MaxQueue : wQueue'[i].obj = Copy(j)
        BY <1>5, <1>6, <1>9, <1>12
    <2>2. \A i, j \in 1 .. Len(wQueue) : wQueue[i].obj = wQueue[j].obj => i = j
        BY DEF QueueInv
    <2>3. \A i, j \in 1 .. Len(wQueue') : wQueue'[i].obj = wQueue'[j].obj => i = j
        BY <1>5, <1>6, <1>7, <1>12, <2>2
    <2> QED
        BY <2>1, <2>3 DEF QueueInv
<1>14. QueuedUnaltered'
    <2>1. \A i \in 1 .. Len(wQueue') : initiator'[wQueue'[i].obj] = wQueue'[i].as
        BY <1>5, <1>6, <1>10, <1>11, <1>12
    <2> QED
        BY <1>6, <2>1 DEF QueuedUnaltered, Range
<1>15. \A o \in Frames \cup (Apps \ {t}) : initiator'[o] = initiator[o]
    BY <1>4, Places, AddressesAssumption
<1> QED
    BY <1>13, <1>14, <1>15

(* The writer takes the oldest copy and deletes it.                        *)
LEMMA TakeStep ==
    ASSUME TypeOK, CallsOK, QueueInv, QueuedUnaltered, WriterTakes
    PROVE  /\ QueueInv' /\ QueuedUnaltered'
           /\ \A o \in Frames \cup Apps : initiator'[o] = initiator[o]
<1> DEFINE Entry == [obj : Objects, as : 0 .. 15]
<1>1. wQueue \in Seq(Entry) /\ wQueue # <<>> /\ wQueue' = Tail(wQueue)
    BY DEF WriterTakes, TypeOK
<1>2. initiator' = [initiator EXCEPT ![Head(wQueue).obj] = 0]
    BY DEF WriterTakes
<1> HIDE DEF Entry
<1>3. /\ wQueue' \in Seq(Entry) /\ Len(wQueue) \in Nat \ {0} /\ Len(wQueue') = Len(wQueue) - 1
      /\ Head(wQueue) = wQueue[1] /\ \A i \in 1 .. Len(wQueue') : wQueue'[i] = wQueue[i + 1]
    BY <1>1, TailFacts
<1>4. PICK k \in 1 .. MaxQueue : Head(wQueue).obj = Copy(k)
    BY <1>3 DEF QueueInv
<1>5. \A o \in Objects : o # Copy(k) => initiator'[o] = initiator[o]
    BY <1>2, <1>4 DEF TypeOK
<1>6. \A i \in 1 .. Len(wQueue') : i + 1 \in 1 .. Len(wQueue) /\ i + 1 # 1
    BY <1>3
<1>7. QueueInv'
    <2>1. ASSUME NEW i \in 1 .. Len(wQueue') PROVE \E j \in 1 .. MaxQueue : wQueue'[i].obj = Copy(j)
        <3>1. \E j \in 1 .. MaxQueue : wQueue[i + 1].obj = Copy(j)
            BY <1>6 DEF QueueInv
        <3> QED
            BY <1>3, <3>1
    <2>2. ASSUME NEW i \in 1 .. Len(wQueue'), NEW j \in 1 .. Len(wQueue'), wQueue'[i].obj = wQueue'[j].obj
          PROVE  i + 1 = j + 1
        <3>1. wQueue[i + 1].obj = wQueue[j + 1].obj
            BY <1>3, <2>2
        <3> QED
            BY <1>6, <3>1 DEF QueueInv
    <2>3. \A i, j \in 1 .. Len(wQueue') : i + 1 = j + 1 => i = j
        BY <1>3
    <2> QED
        BY <2>1, <2>2, <2>3 DEF QueueInv
<1>8. QueuedUnaltered'
    <2>1. \A i \in 1 .. Len(wQueue) : initiator[wQueue[i].obj] = wQueue[i].as
        BY Unaltered DEF TypeOK
    <2>2. ASSUME NEW i \in 1 .. Len(wQueue') PROVE initiator'[wQueue'[i].obj] = wQueue'[i].as
        <3>1. wQueue[i + 1].obj # Copy(k)
            BY <1>3, <1>4, <1>6 DEF QueueInv
        <3>2. wQueue[i + 1].obj \in Objects
            BY <1>6, Places DEF QueueInv
        <3> QED
            BY <1>3, <1>5, <1>6, <2>1, <3>1, <3>2
    <2> QED
        BY <1>3, <2>2 DEF QueuedUnaltered, Range
<1>9. \A o \in Frames \cup Apps : initiator'[o] = initiator[o]
    BY <1>5, Places
<1> QED
    BY <1>7, <1>8, <1>9
-----------------------------------------------------------------------------
(* Theorems *)

(* The invariant, regrouped.                                               *)
LEMMA Parts == IInv <=> TypeOK /\ ListIsRegistered /\ CallsOK /\ SharesOK /\ QueueInv /\ QueuedUnaltered
BY FramesOK DEF IInv, CallsOK, SharesOK

(* Init establishes the invariant.                                         *)
LEMMA InvariantInit == Init => IInv
<1> SUFFICES ASSUME Init PROVE IInv
    OBVIOUS
<1>1. TypeOK
    <2>1. initiator \in [Objects -> 0 .. 15] /\ given \in [Apps -> 0 .. 15]
        BY DEF Init
    <2>2. logicalAddresses \in [Addrs -> 0 .. MaxAdds]
        BY AddressesAssumption DEF Init
    <2>3. wQueue \in Seq([obj : Objects, as : 0 .. 15]) /\ Len(wQueue) <= MaxQueue
        BY AddressesAssumption DEF Init
    <2>4. conn \in [Apps -> Conns \cup {Nothing}] /\ obj \in [Apps -> Objects \cup {Nothing}]
        BY DEF Init
    <2>5. sources \in [Apps -> SUBSET Addrs]
        BY DEF Init
    <2>6. headed \in [Apps -> BOOLEAN] /\ steady \in [Apps -> BOOLEAN] /\ alone \in [Apps -> BOOLEAN]
        BY DEF Init
    <2> QED
        BY <2>1, <2>2, <2>3, <2>4, <2>5, <2>6 DEF Init, TypeOK
<1>2. ListIsRegistered
    BY DEF Init, ListIsRegistered, IsValidLogicalAddress
<1>3. CallsOK /\ SharesOK
    BY DEF Init, CallsOK, CallInv, AloneInv, FrameOK, SharesOK, ShareInv, AuthInv
<1>4. QueueInv /\ QueuedUnaltered
    BY DEF Init, QueueInv, QueuedUnaltered, Range
<1> QED
    BY <1>1, <1>2, <1>3, <1>4, Parts

(* Every step keeps it.                                                    *)
LEMMA InvariantStep == IInv /\ [Next]_vars => IInv'
<1> SUFFICES ASSUME IInv, [Next]_vars PROVE IInv'
    OBVIOUS
<1>1. TypeOK /\ ListIsRegistered /\ CallsOK /\ SharesOK /\ QueueInv /\ QueuedUnaltered
    BY Parts
<1>2. TypeOK' /\ ListIsRegistered'
    BY <1>1, TypeStep, ListStep DEF CallsOK
<1>3. SUFFICES CallsOK' /\ SharesOK' /\ QueueInv' /\ QueuedUnaltered'
    <2>1. CallsOK' => CallInv' /\ AloneInv' /\ MatchInv' /\ SourceEnforced'
        BY DEF CallsOK, FrameOK, MatchInv, SourceEnforced
    <2> QED
        BY <1>2, <1>3, <2>1 DEF IInv, SharesOK
<1>4. ASSUME wQueue' = wQueue, \A k \in 1 .. MaxQueue : initiator'[Copy(k)] = initiator[Copy(k)]
      PROVE  QueueInv' /\ QueuedUnaltered'
    BY <1>1, <1>4, QueueStays
<1>5. \A k \in 1 .. MaxQueue : Copy(k) \in Objects /\ Copy(k) \notin Frames \cup Apps
    BY Places
<1>6. ASSUME NEW a \in Addrs, NEW res \in HalResult, AddLogicalAddress(a, res) \/ RemoveLogicalAddress(a)
      PROVE  CallsOK' /\ SharesOK' /\ QueueInv' /\ QueuedUnaltered'
    <2>1. UNCHANGED <<wQueue, initiator, source, pc, conn, obj, given, headed, sources>>
        BY <1>6 DEF AddLogicalAddress, RemoveLogicalAddress, locals
    <2>2. SharesOK'
        BY <1>1, <2>1, SharedStep DEF SharesOK, ShareInv
    <2> QED
        BY <1>1, <1>4, <1>6, <2>1, <2>2, ListCallStep
<1>7. ASSUME NEW c \in Conns, NEW a \in Addrs, SetSource(c, a)
      PROVE  CallsOK' /\ SharesOK' /\ QueueInv' /\ QueuedUnaltered'
    <2>1. UNCHANGED <<wQueue, initiator>>
        BY <1>7 DEF SetSource
    <2> QED
        BY <1>1, <1>4, <1>7, <2>1, SourceStep, SourceShared
<1>8. ASSUME NEW t \in Apps, NEW c \in Conns, NEW f \in Frames, Send(t, c, f)
      PROVE  CallsOK' /\ SharesOK' /\ QueueInv' /\ QueuedUnaltered'
    <2>1. UNCHANGED <<wQueue, initiator>> /\ Begin(t, c, f, initiator[f], FALSE)
        BY <1>8 DEF Send, Begin
    <2>2. CallsOK' /\ SharesOK'
        BY <1>1, <2>1, BeginStep, BeginShared
    <2> QED
        BY <1>4, <2>1, <2>2
<1>9. ASSUME NEW t \in Apps, NEW c \in Conns, NEW to \in Addrs, SendTo(t, c, to)
      PROVE  CallsOK' /\ SharesOK' /\ QueueInv' /\ QueuedUnaltered'
    <2> DEFINE i == HeaderInitiator(source[c], to)
    <2>1. wQueue' = wQueue /\ Begin(t, c, t, i, to < 16)
        BY <1>9 DEF SendTo, Begin
    <2>2. /\ initiator'[t] = i
          /\ \A p \in Objects : p # t => initiator'[p] = initiator[p]
        BY <1>1, <1>9, Places DEF SendTo, TypeOK
    <2>3. (to < 16) \in BOOLEAN /\ (to < 16 => i = Nibble(source[c]))
        BY <1>1, HeaderFacts DEF TypeOK
    <2> HIDE DEF i
    <2>4. CallsOK' /\ SharesOK'
        BY <1>1, <2>1, <2>2, <2>3, BeginStep, BeginShared
    <2> QED
        BY <1>4, <1>5, <2>1, <2>2, <2>4
<1>10. ASSUME NEW t \in Apps, MatchValid(t) \/ MatchCompare(t) \/ MatchAlter(t)
       PROVE  CallsOK' /\ SharesOK' /\ QueueInv' /\ QueuedUnaltered'
    <2>1. wQueue' = wQueue /\ pc[t] # "idle"
        BY <1>10 DEF MatchValid, MatchCompare, MatchAlter
    <2>2. obj[t] \in Frames \cup Apps
        BY <1>1, <2>1 DEF CallsOK, CallInv
    <2>3. \A o \in Objects : o # obj[t] => initiator'[o] = initiator[o]
        BY <1>1, <1>10 DEF MatchValid, MatchCompare, MatchAlter, TypeOK
    <2>4. CallsOK' /\ SharesOK'
        BY <1>1, <1>10, MatchStep, MatchShared
    <2> QED
        BY <1>4, <1>5, <2>1, <2>2, <2>3, <2>4
<1>11. ASSUME NEW t \in Apps, BusSend(t) PROVE CallsOK' /\ SharesOK' /\ QueueInv' /\ QueuedUnaltered'
    <2>1. End(t) /\ UNCHANGED <<source, registered, wQueue>>
        BY <1>11 DEF BusSend
    <2>2. \A o \in Objects : o # t => initiator'[o] = initiator[o]
        BY <1>1, <1>11 DEF BusSend, Destroyed, TypeOK
    <2>3. \A o \in Frames \cup (Apps \ {t}) : initiator'[o] = initiator[o]
        BY <2>2, Places, AddressesAssumption
    <2>4. CallsOK' /\ SharesOK'
        BY <1>1, <2>1, <2>3, EndStep, EndShared
    <2> QED
        BY <1>4, <1>5, <2>1, <2>2, <2>4
<1>12. ASSUME NEW t \in Apps, BusSendAsync(t) PROVE CallsOK' /\ SharesOK' /\ QueueInv' /\ QueuedUnaltered'
    <2>1. End(t) /\ UNCHANGED <<source, registered>>
        BY <1>12 DEF BusSendAsync
    <2>2. QueueInv' /\ QueuedUnaltered' /\ \A o \in Frames \cup (Apps \ {t}) : initiator'[o] = initiator[o]
        BY <1>1, <1>12, CopyStep
    <2> QED
        BY <1>1, <2>1, <2>2, EndStep, EndShared
<1>13. ASSUME UNCHANGED <<source, locals, history>>,
              \A t \in Apps : pc[t] # "idle" => initiator'[obj[t]] = initiator[obj[t]]
       PROVE  CallsOK' /\ SharesOK'
    <2>1. UNCHANGED <<source, pc, conn, obj, registered, given, headed, sources, steady, alone>>
        BY <1>13 DEF locals, history
    <2>2. \A t \in Apps : pc[t] # "idle" => source[conn[t]] \in sources[t]
        BY <1>1 DEF CallsOK, CallInv
    <2>3. CallsOK'
        BY <1>1, <1>13, <2>1, <2>2, OutsideStep
    <2>4. SharesOK'
        BY <1>1, <1>13, <2>1, SharedStep DEF SharesOK, ShareInv
    <2> QED
        BY <2>3, <2>4
<1>14. CASE WriterTakes
    <2>1. QueueInv' /\ QueuedUnaltered' /\ \A o \in Frames \cup Apps : initiator'[o] = initiator[o]
        BY <1>1, <1>14, TakeStep
    <2>2. \A t \in Apps : pc[t] # "idle" => initiator'[obj[t]] = initiator[obj[t]]
        BY <1>1, <2>1 DEF CallsOK, CallInv
    <2>3. UNCHANGED <<source, locals, history>>
        BY <1>14 DEF WriterTakes
    <2> QED
        BY <1>13, <2>1, <2>2, <2>3
<1>15. ASSUME NEW f \in Frames, WriteFrame(f, 0) PROVE CallsOK' /\ SharesOK' /\ QueueInv' /\ QueuedUnaltered'
    <2>1. UNCHANGED <<source, wQueue, locals, history>> /\ \A t \in Apps : obj[t] # f
        BY <1>15 DEF WriteFrame
    <2>2. \A o \in Objects : o # f => initiator'[o] = initiator[o]
        BY <1>1, <1>15 DEF WriteFrame, TypeOK
    <2>3. \A t \in Apps : pc[t] # "idle" => obj[t] \in Objects
        BY <1>1, Places DEF CallsOK, CallInv
    <2>4. CallsOK' /\ SharesOK'
        BY <1>13, <2>1, <2>2, <2>3
    <2> QED
        BY <1>4, <1>5, <2>1, <2>2, <2>4
<1>16. CASE DriverToggle \/ UNCHANGED vars
    <2>1. UNCHANGED <<source, initiator, wQueue, locals, history>>
        BY <1>16 DEF DriverToggle, vars
    <2> QED
        BY <1>4, <1>13, <2>1
<1>17. "SUCCESS" \in HalResult
    BY DEF HalResult
<1> QED
    BY <1>6, <1>7, <1>8, <1>9, <1>10, <1>11, <1>12, <1>14, <1>15, <1>16, <1>17 DEF Next, AppStep

(* The inductive invariant holds in every behaviour.                       *)
THEOREM Invariance == Spec => []IInv
BY InvariantInit, InvariantStep, PTL DEF Spec

(* The variables keep their types.                                         *)
THEOREM TypeCorrect == Spec => []TypeOK
<1>1. IInv => TypeOK
    BY DEF IInv
<1> QED
    BY <1>1, Invariance, PTL

(* isValidLogicalAddress answers by what was added and not removed since.  *)
THEOREM ListAnswers == Spec => []ListIsRegistered
<1>1. IInv => ListIsRegistered
    BY DEF IInv
<1> QED
    BY <1>1, Invariance, PTL

(* What sendTo addresses to a destination that fits leaves with a source   *)
(* its connection had meanwhile; any other frame with the initiator it     *)
(* came with or with a source of a connection that sent it meanwhile,      *)
(* whether or not several calls have the same frame at once.               *)
THEOREM Authenticity == Spec => []InitiatorAuthentic
<1>1. IInv => InitiatorAuthentic
    BY DEF IInv, AuthInv, InitiatorAuthentic
<1> QED
    BY <1>1, Invariance, PTL

(* ... and with the connection's source, if it is registered and nobody    *)
(* changes it or its registration during the call.                         *)
THEOREM Enforcement == Spec => []SourceEnforced
<1>1. IInv => SourceEnforced
    BY DEF IInv
<1> QED
    BY <1>1, Invariance, PTL

(* What Bus::sendAsync queued is not altered by later calls.               *)
THEOREM QueueIsolated == Spec => []QueuedUnaltered
<1>1. IInv => QueuedUnaltered
    BY DEF IInv
<1> QED
    BY <1>1, Invariance, PTL
=============================================================================
