-------------------------- MODULE ConnectionProofs --------------------------
(***************************************************************************)
(* Theorems about the dispatch of received frames, for any number of       *)
(* connections, listeners, threads, frames and sessions.                   *)
(***************************************************************************)
EXTENDS Connection, WellFoundedInduction, TLAPS

(* Every set of numbers that is not empty has a smallest one, which is how *)
(* the successor of an iterator is defined.                                *)
LEMMA SmallestNumber ==
    ASSUME NEW S \in SUBSET Nat, S # {}
    PROVE  \E m \in S : \A k \in S : m <= k
<1> DEFINE R == OpToRel(<, Nat)
<1>1. IsWellFoundedOn(R, Nat)
    BY NatLessThanWellFounded
<1>2. R = {ss \in Nat \X Nat : ss[1] < ss[2]}
    BY DEF OpToRel
<1>3. \A x, y \in Nat : y < x => <<y, x>> \in R
    BY <1>2
<1> HIDE DEF R
<1>4. PICK x \in S : \A y \in S : ~ (<<y, x>> \in R)
    BY <1>1, WFMin
<1>5. ASSUME NEW k \in S PROVE x <= k
    <2>1. ~ (k < x)
        BY <1>3, <1>4
    <2> QED
        BY <2>1
<1> QED
    BY <1>5

(* Advancing an iterator: the next node if there is one, and no node of    *)
(* the list is jumped over.                                                *)
LEMMA AfterFacts ==
    ASSUME NEW Who, NEW list \in SUBSET Node(Who), NEW id \in Nat
    PROVE  /\ After(list, id) = 0 \/ \E n \in list : n.id = After(list, id) /\ n.id > id
           /\ \A n \in list : n.id > id => After(list, id) # 0 /\ After(list, id) <= n.id
<1> DEFINE later == {n.id : n \in {m \in list : m.id > id}}
<1>1. After(list, id) = IF later = {} THEN 0 ELSE CHOOSE i \in later : \A j \in later : i <= j
    BY DEF After
<1>2. \A n \in list : n.id \in Nat /\ n.id # 0
    BY ConnectionAssumption DEF Node
<1>3. \A i \in later : i \in Nat /\ i # 0 /\ \E n \in list : n.id = i /\ n.id > id
    BY <1>2
<1>4. \A n \in list : n.id > id => n.id \in later
    OBVIOUS
<1> HIDE DEF later
<1>5. CASE later = {}
    BY <1>1, <1>4, <1>5
<1>6. CASE later # {}
    <2>1. \E i \in later : \A j \in later : i <= j
        BY <1>3, <1>6, SmallestNumber
    <2>2. After(list, id) \in later /\ \A j \in later : After(list, id) <= j
        BY <1>1, <1>6, <2>1
    <2> QED
        BY <1>3, <1>4, <2>2
<1> QED
    BY <1>5, <1>6

(* An id determines its node.                                              *)
LEMMA ChosenNode ==
    ASSUME NEW list, UniqueIds(list), NEW n \in list
    PROVE  (CHOOSE m \in list : m.id = n.id) = n
BY DEF UniqueIds

(* Allocating a node for a list keeps its ids unique.                      *)
LEMMA FreshNode ==
    ASSUME NEW Who, NEW list \in SUBSET Node(Who), UniqueIds(list), NEW last \in Nat,
           \A n \in list : n.id <= last, NEW who
    PROVE  LET new == list \cup {[id |-> last + 1, who |-> who]}
           IN  UniqueIds(new) /\ \A n \in new : n.id <= last + 1
<1>1. \A n \in list : n.id \in Nat
    BY ConnectionAssumption DEF Node
<1> QED
    BY <1>1 DEF UniqueIds

(* The successor of an iterator is a node's id, or 0.                      *)
LEMMA AfterType ==
    ASSUME NEW Who, NEW list \in SUBSET Node(Who), NEW id \in Nat
    PROVE  After(list, id) \in 0 .. MaxNodes
<1>1. \A n \in list : n.id \in 0 .. MaxNodes
    BY ConnectionAssumption DEF Node
<1> QED
    BY <1>1, AfterFacts, ConnectionAssumption

(* The connection under the reader's iterator is on the bus.               *)
LEMMA CurConnFacts ==
    ASSUME TypeOK, NodesInv, IteratorValid, bcur # 0
    PROVE  /\ CurConn \in Conns
           /\ \E n \in listeners : n.id = bcur /\ n.who = CurConn
<1>1. PICK n \in listeners : n.id = bcur
    BY DEF IteratorValid
<1>2. (CHOOSE m \in listeners : m.id = n.id) = n
    BY ChosenNode DEF NodesInv
<1>3. CurConn = n.who
    BY <1>1, <1>2 DEF CurConn
<1> QED
    BY <1>1, <1>3 DEF TypeOK, Node

(* ... and stays the same as long as its registration does.                *)
LEMMA CurConnStays ==
    ASSUME TypeOK, NodesInv, IteratorValid, bcur # 0, UniqueIds(listeners'), bcur' = bcur,
           \A n \in listeners : n.id = bcur /\ n.who = CurConn => n \in listeners'
    PROVE  CurConn' = CurConn
<1>1. PICK n \in listeners : n.id = bcur /\ n.who = CurConn
    BY CurConnFacts
<1>2. n \in listeners'
    BY <1>1
<1>3. (CHOOSE m \in listeners' : m.id = n.id) = n
    BY <1>2, ChosenNode
<1>4. CurConn' = (CHOOSE m \in listeners' : m.id = bcur').who
    BY DEF CurConn
<1> QED
    BY <1>1, <1>3, <1>4

(* The same for the listener under the other iterator.                     *)
LEMMA CurListenerFacts ==
    ASSUME TypeOK, NodesInv, IteratorValid, WalkInv, rpc = "listener"
    PROVE  /\ bcur # 0 /\ lcur # 0
           /\ \A n \in frameListeners[CurConn] : n.id = lcur => n.who = CurListener
<1>1. bcur # 0 /\ lcur # 0
    BY DEF WalkInv, InConn
<1>2. UniqueIds(frameListeners[CurConn])
    BY <1>1, CurConnFacts DEF NodesInv
<1>3. ASSUME NEW n \in frameListeners[CurConn], n.id = lcur PROVE n.who = CurListener
    <2>1. (CHOOSE m \in frameListeners[CurConn] : m.id = n.id) = n
        BY <1>2, ChosenNode
    <2> QED
        BY <1>3, <2>1 DEF CurListener
<1> QED
    BY <1>1, <1>3
-----------------------------------------------------------------------------
(* Types *)

(* Every step of a thread or of the reader keeps the types.                *)
LEMMA TypeStep == ASSUME IInv, [Next]_vars PROVE TypeOK'
<1>1. ASSUME NEW i \in Nat PROVE After(listeners, i) \in 0 .. MaxNodes
    <2>1. listeners \in SUBSET Node(Conns)
        BY DEF IInv, TypeOK
    <2> QED
        BY <2>1, AfterType
<1>2. ASSUME bcur # 0, NEW i \in Nat PROVE After(frameListeners[CurConn], i) \in 0 .. MaxNodes
    <2>1. frameListeners[CurConn] \in SUBSET Node(Listeners)
        BY <1>2, CurConnFacts DEF IInv, TypeOK
    <2> QED
        BY <2>1, AfterType
<1>3. InConn => bcur # 0
    BY DEF IInv, WalkInv
<1>4. TypeOK
    BY DEF IInv
<1> USE <1>4, ConnectionAssumption DEF TypeOK, Threads, Node, bus, lists, readerVars, counters
<1>5. ASSUME NEW t \in Threads, NEW c \in Conns, Open(t, c) PROVE TypeOK'
    BY <1>5 DEF Open
<1>6. ASSUME NEW t \in Threads, NEW c \in Conns, CloseClear(t, c) PROVE TypeOK'
    BY <1>6 DEF CloseClear
<1>7. ASSUME NEW t \in Threads, NEW c \in Conns, NEW l \in Listeners, AddFrameListener(t, c, l)
      PROVE  TypeOK'
    BY <1>7 DEF AddFrameListener
<1>8. ASSUME NEW t \in Threads, NEW c \in Conns, NEW l \in Listeners, RemoveFrameListener(t, c, l)
      PROVE  TypeOK'
    BY <1>8 DEF RemoveFrameListener
<1>9. ASSUME NEW t \in Threads, CloseRemove(t) PROVE TypeOK'
    BY <1>9 DEF CloseRemove
<1>10. CASE BusStart
    BY <1>10 DEF BusStart
<1>11. CASE BusStop
    BY <1>11 DEF BusStop
<1>12. CASE ReaderStopped
    BY <1>12 DEF ReaderStopped
<1>13. CASE WalkStart
    <2>1. bcur' \in 0 .. MaxNodes
        BY <1>1, <1>13 DEF WalkStart
    <2>2. owed' \subseteq Conns \X (1 .. MaxNodes)
        BY <1>13 DEF WalkStart
    <2> QED
        BY <1>13, <2>1, <2>2 DEF WalkStart
<1>14. CASE ConnSkip
    BY <1>1, <1>14 DEF ConnSkip
<1>15. CASE ListenerNotify
    BY <1>15 DEF ListenerNotify
<1>16. CASE WalkEnd
    BY <1>16 DEF WalkEnd
<1>17. CASE ConnEnter
    <2>1. lcur' \in 0 .. MaxNodes
        BY <1>2, <1>17 DEF ConnEnter
    <2> QED
        BY <1>17, <2>1 DEF ConnEnter
<1>18. CASE ListenerReturn
    <2>1. lcur' \in 0 .. MaxNodes
        BY <1>2, <1>3, <1>18 DEF ListenerReturn, InConn
    <2> QED
        BY <1>18, <2>1 DEF ListenerReturn
<1>19. CASE ListenerThrow
    <2>1. held' \in [Conns -> Threads \cup {None}]
        BY <1>19 DEF ListenerThrow
    <2>2. bcur' \in 0 .. MaxNodes /\ lcur' \in 0 .. MaxNodes /\ owed' \subseteq Conns \X (1 .. MaxNodes)
        BY <1>19 DEF ListenerThrow
    <2> QED
        BY <1>19, <2>1, <2>2 DEF ListenerThrow
<1>20. CASE ConnLeave
    <2>1. bcur' \in 0 .. MaxNodes
        BY <1>1, <1>20 DEF ConnLeave
    <2>2. held' \in [Conns -> Threads \cup {None}]
        BY <1>20 DEF ConnLeave
    <2> QED
        BY <1>20, <2>1, <2>2 DEF ConnLeave
<1>21. CASE UNCHANGED vars
    BY <1>21 DEF vars
<1> QED
    BY <1>5, <1>6, <1>7, <1>8, <1>9, <1>10, <1>11, <1>12, <1>13, <1>14, <1>15, <1>16, <1>17,
       <1>18, <1>19, <1>20, <1>21 DEF Next, Call, ReaderStep
-----------------------------------------------------------------------------
(* Lists *)

(* Allocation, removal and clear() keep the ids of every list unique.      *)
LEMMA NodesStep == ASSUME IInv, [Next]_vars PROVE NodesInv'
<1>1. TypeOK /\ NodesInv
    BY DEF IInv
<1>2. nodes \in Nat
    BY <1>1, ConnectionAssumption DEF TypeOK
<1>3. ASSUME NEW t \in Threads, NEW c \in Conns, Open(t, c) PROVE NodesInv'
    <2>1. listeners \in SUBSET Node(Conns) /\ UniqueIds(listeners) /\ \A n \in listeners : n.id <= nodes
        BY <1>1 DEF TypeOK, NodesInv
    <2>2. /\ listeners' = listeners \cup {[id |-> nodes + 1, who |-> c]}
          /\ frameListeners' = frameListeners /\ nodes' = nodes + 1
        BY <1>3 DEF Open
    <2>3. UniqueIds(listeners') /\ \A n \in listeners' : n.id <= nodes + 1
        BY <1>2, <2>1, <2>2, FreshNode
    <2>4. \A d \in Conns : \A n \in frameListeners[d] : n.id <= nodes + 1
        BY <1>1, <1>2, ConnectionAssumption DEF TypeOK, NodesInv, Node
    <2> QED
        BY <1>1, <2>2, <2>3, <2>4 DEF NodesInv
<1>4. ASSUME NEW t \in Threads, NEW c \in Conns, NEW l \in Listeners, AddFrameListener(t, c, l)
      PROVE  NodesInv'
    <2>1. \A d \in Conns : /\ frameListeners[d] \in SUBSET Node(Listeners) /\ UniqueIds(frameListeners[d])
                           /\ \A n \in frameListeners[d] : n.id <= nodes
        BY <1>1 DEF TypeOK, NodesInv
    <2>2. /\ \A d \in Conns : frameListeners'[d] =
                 IF d = c THEN frameListeners[c] \cup {[id |-> nodes + 1, who |-> l]} ELSE frameListeners[d]
          /\ listeners' = listeners /\ nodes' = nodes + 1
        BY <1>1, <1>4 DEF AddFrameListener, TypeOK
    <2>3. UniqueIds(frameListeners'[c]) /\ \A n \in frameListeners'[c] : n.id <= nodes + 1
        <3> DEFINE old == frameListeners[c]
        <3>1. /\ old \in SUBSET Node(Listeners) /\ UniqueIds(old)
              /\ \A n \in old : n.id <= nodes
            BY <2>1
        <3>2. frameListeners'[c] = old \cup {[id |-> nodes + 1, who |-> l]}
            BY <2>2
        <3> HIDE DEF old
        <3> DEFINE new == old \cup {[id |-> nodes + 1, who |-> l]}
        <3>3. UniqueIds(new) /\ \A n \in new : n.id <= nodes + 1
            BY <1>2, <3>1, FreshNode
        <3> HIDE DEF new
        <3>4. frameListeners'[c] = new
            BY <3>2 DEF new
        <3> QED
            BY <3>3, <3>4
    <2>4. \A d \in Conns : \A n \in frameListeners[d] : n.id <= nodes + 1
        BY <1>1, <1>2, ConnectionAssumption DEF TypeOK, NodesInv, Node
    <2>5. \A n \in listeners : n.id <= nodes + 1
        BY <1>1, <1>2, ConnectionAssumption DEF TypeOK, NodesInv, Node
    <2> QED
        BY <1>1, <2>1, <2>2, <2>3, <2>4, <2>5 DEF NodesInv
<1>5. ASSUME NEW t \in Threads, NEW c \in Conns, CloseClear(t, c) PROVE NodesInv'
    BY <1>1, <1>5 DEF CloseClear, TypeOK, NodesInv, UniqueIds, counters
<1>6. ASSUME NEW t \in Threads, NEW c \in Conns, NEW l \in Listeners, RemoveFrameListener(t, c, l)
      PROVE  NodesInv'
    BY <1>1, <1>6 DEF RemoveFrameListener, TypeOK, NodesInv, UniqueIds, counters
<1>7. ASSUME NEW t \in Threads, CloseRemove(t) PROVE NodesInv'
    BY <1>1, <1>7 DEF CloseRemove, NodesInv, UniqueIds, counters
<1>8. CASE BusStart \/ BusStop \/ ReaderStopped \/ WalkStart \/ ReaderStep \/ ListenerThrow \/ UNCHANGED vars
    <2>1. UNCHANGED <<listeners, frameListeners, nodes>>
        BY <1>8 DEF BusStart, BusStop, ReaderStopped, WalkStart, ReaderStep, ConnEnter, ConnSkip,
                    ListenerNotify, ListenerReturn, ConnLeave, WalkEnd, ListenerThrow, vars, lists, counters
    <2> QED
        BY <1>1, <2>1 DEF NodesInv
<1> QED
    BY <1>3, <1>4, <1>5, <1>6, <1>7, <1>8 DEF Next, Call

(* With CloseBeforeStop, a connection that was closed is not on the bus.   *)
LEMMA ClosedStep == ASSUME IInv, [Next]_vars PROVE ClosedInv'
<1> SUFFICES ASSUME CloseBeforeStop PROVE ClosedInv'
    BY DEF ClosedInv
<1>1. TypeOK /\ ClosedInv
    BY DEF IInv
<1>2. ASSUME NEW t \in Threads, NEW c \in Conns, Open(t, c) PROVE ClosedInv'
    BY <1>1, <1>2 DEF Open, ClosedInv, TypeOK, bus
<1>3. ASSUME NEW t \in Threads, CloseRemove(t) PROVE ClosedInv'
    BY <1>1, <1>3 DEF CloseRemove, ClosedInv, TypeOK, bus
<1>4. CASE BusStart
    BY <1>1, <1>4 DEF BusStart, ClosedInv, lists
<1>5. CASE BusStop
    BY <1>1, <1>5 DEF BusStop, ClosedInv, lists
<1>6. ASSUME NEW t \in Threads, NEW c \in Conns, NEW l \in Listeners,
             AddFrameListener(t, c, l) \/ RemoveFrameListener(t, c, l)
      PROVE  UNCHANGED <<started, listeners, shut>>
    BY <1>6 DEF AddFrameListener, RemoveFrameListener, bus
<1>7. ASSUME NEW t \in Threads, NEW c \in Conns, CloseClear(t, c)
      PROVE  UNCHANGED <<started, listeners, shut>>
    BY <1>7 DEF CloseClear, bus
<1>8. ASSUME ReaderStopped \/ WalkStart \/ ReaderStep \/ ListenerThrow \/ UNCHANGED vars
      PROVE  UNCHANGED <<started, listeners, shut>>
    BY <1>8 DEF ReaderStopped, WalkStart, ReaderStep, ConnEnter, ConnSkip, ListenerNotify,
                ListenerReturn, ConnLeave, WalkEnd, ListenerThrow, vars, bus, lists
<1>9. UNCHANGED <<started, listeners, shut>> => ClosedInv'
    BY <1>1 DEF ClosedInv
<1> QED
    BY <1>2, <1>3, <1>4, <1>5, <1>6, <1>7, <1>8, <1>9 DEF Next, Call
-----------------------------------------------------------------------------
(* The walk *)

(* A step that leaves the reader where it is, keeps the nodes under its    *)
(* iterators and keeps what it owes on the lists, does not disturb it.     *)
LEMMA QuietStep ==
    ASSUME IInv, NodesInv', UNCHANGED <<rpc, to, bcur, lcur, held, source>>,
           bcur # 0 => \A n \in listeners : n.who = CurConn => n \in listeners',
           InConn => \A n \in frameListeners[CurConn] : n.id = lcur => n \in frameListeners'[CurConn],
           owed' \subseteq owed,
           \A c \in Conns, i \in 1 .. MaxNodes : <<c, i>> \in owed' =>
               /\ c # closing'[Reader]
               /\ \A n \in listeners : n.who = c => n \in listeners'
               /\ \A n \in frameListeners[c] : n.id = i => n \in frameListeners'[c],
           closing'[Reader] # None => rpc = "listener" /\ closing'[Reader] # CurConn
    PROVE  IteratorValid' /\ WalkInv' /\ OwedInv'
<1>1. TypeOK /\ NodesInv /\ IteratorValid /\ WalkInv /\ OwedInv
    BY DEF IInv
<1>2. InConn => bcur # 0
    BY <1>1 DEF WalkInv
<1>3. bcur # 0 => CurConn' = CurConn
    BY <1>1, CurConnStays DEF NodesInv
<1>4. InConn' = InConn
    BY DEF InConn
<1>5. IteratorValid'
    <2>1. bcur # 0 => \E n \in listeners' : n.id = bcur
        BY <1>1, CurConnFacts
    <2>2. InConn /\ lcur # 0 => \E n \in frameListeners'[CurConn] : n.id = lcur
        BY <1>1 DEF IteratorValid, InConn
    <2> QED
        BY <1>2, <1>3, <2>1, <2>2 DEF IteratorValid, InConn
<1>6. WalkInv'
    <2>1. ASSUME NEW c \in Conns
          PROVE  held'[c] = IF InConn' /\ c = CurConn' THEN Reader ELSE None
        BY <1>1, <1>2, <1>3, <1>4 DEF WalkInv
    <2>2. closing'[Reader] # None => rpc' = "listener" /\ closing'[Reader] # CurConn'
        BY <1>2, <1>3 DEF InConn
    <2> QED
        BY <1>1, <1>4, <2>1, <2>2 DEF WalkInv
<1>7. OwedInv'
    <2>1. rpc' = "idle" => owed' = {}
        BY <1>1 DEF OwedInv
    <2>2. ASSUME NEW c \in Conns, NEW i \in 1 .. MaxNodes, <<c, i>> \in owed'
          PROVE  /\ ~Filtered(c, to)' /\ c # closing'[Reader] /\ bcur' # 0
                 /\ \E n \in frameListeners'[c] : n.id = i
                 /\ \/ Ahead(c)'
                    \/ rpc' = "bus" /\ CurConn' = c
                    \/ rpc' = "conn" /\ CurConn' = c /\ lcur' # 0 /\ lcur' <= i
                    \/ rpc' = "listener" /\ CurConn' = c /\ lcur' < i
        <3>1. <<c, i>> \in owed
            BY <2>2
        <3>2. /\ ~Filtered(c, to) /\ bcur # 0 /\ \E n \in frameListeners[c] : n.id = i
              /\ \/ Ahead(c)
                 \/ rpc = "bus" /\ CurConn = c
                 \/ rpc = "conn" /\ CurConn = c /\ lcur # 0 /\ lcur <= i
                 \/ rpc = "listener" /\ CurConn = c /\ lcur < i
            BY <1>1, <3>1 DEF OwedInv
        <3>3. Filtered(c, to)' = Filtered(c, to)
            BY DEF Filtered
        <3>4. Ahead(c) => Ahead(c)'
            BY <2>2 DEF Ahead
        <3>5. \E n \in frameListeners'[c] : n.id = i
            BY <2>2, <3>2
        <3> QED
            BY <1>3, <2>2, <3>2, <3>3, <3>4, <3>5
    <2> QED
        BY <2>1, <2>2 DEF OwedInv
<1> QED
    BY <1>5, <1>6, <1>7

(* A thread other than the reader never has the mutex of the connection    *)
(* the reader is in.                                                       *)
LEMMA OwnMutex ==
    ASSUME IInv, InConn, NEW t \in Threads, NEW c \in Conns, CMutexFor(t, c), c = CurConn
    PROVE  t = Reader
<1>1. held[c] = Reader
    BY DEF IInv, WalkInv
<1> QED
    BY <1>1 DEF CMutexFor, None, Reader

(* Calls of application threads and of listeners.                          *)
LEMMA CallStep ==
    ASSUME IInv, NodesInv', NEW t \in Threads, Call(t) \/ CloseRemove(t)
    PROVE  IteratorValid' /\ WalkInv' /\ OwedInv'
<1>1. TypeOK /\ NodesInv /\ IteratorValid /\ WalkInv /\ OwedInv
    BY DEF IInv
<1>2. UNCHANGED <<rpc, to, bcur, lcur, held, source>>
    BY DEF Call, Open, CloseClear, AddFrameListener, RemoveFrameListener, CloseRemove, readerVars
<1>3. /\ closing[Reader] # None => rpc = "listener" /\ closing[Reader] # CurConn
      /\ \A c \in Conns, i \in 1 .. MaxNodes : <<c, i>> \in owed => c # closing[Reader]
    BY <1>1 DEF WalkInv, OwedInv
<1>4. CASE \E c \in Conns : Open(t, c)
    <2>1. listeners \subseteq listeners' /\ UNCHANGED <<frameListeners, closing, owed>>
        BY <1>4 DEF Open
    <2> QED
        BY <1>2, <1>3, <2>1, QuietStep
<1>5. ASSUME NEW c \in Conns, NEW l \in Listeners, AddFrameListener(t, c, l)
      PROVE  IteratorValid' /\ WalkInv' /\ OwedInv'
    <2>1. UNCHANGED <<listeners, closing, owed>>
        BY <1>5 DEF AddFrameListener
    <2>2. \A d \in Conns : frameListeners[d] \subseteq frameListeners'[d]
        BY <1>1, <1>5 DEF AddFrameListener, TypeOK
    <2>3. InConn => CurConn \in Conns
        BY <1>1, CurConnFacts DEF WalkInv
    <2> QED
        BY <1>2, <1>3, <2>1, <2>2, <2>3, QuietStep
<1>6. ASSUME NEW c \in Conns, CloseClear(t, c)
      PROVE  IteratorValid' /\ WalkInv' /\ OwedInv'
    <2>1. listeners' = listeners /\ owed' = {o \in owed : o[1] # c}
        BY <1>6 DEF CloseClear
    <2>2. InConn => CurConn \in Conns /\ c # CurConn
        <3>1. InConn => CurConn \in Conns
            BY <1>1, CurConnFacts DEF WalkInv
        <3>2. CMutexFor(t, c) /\ ~(t = Reader /\ c = CurConn)
            BY <1>6 DEF CloseClear, Forbidden
        <3> QED
            BY <3>1, <3>2, OwnMutex
    <2>3. \A d \in Conns : d # c => frameListeners'[d] = frameListeners[d]
        BY <1>1, <1>6 DEF CloseClear, TypeOK
    <2>4. \A d \in Conns, i \in 1 .. MaxNodes : <<d, i>> \in owed' => d # c /\ <<d, i>> \in owed
        BY <2>1
    <2>5. CASE t = Reader
        <3>1. closing'[Reader] = c
            BY <1>1, <1>6, <2>5 DEF CloseClear, TypeOK
        <3>2. rpc = "listener" /\ InConn
            BY <1>6, <2>5 DEF CloseClear, MayCall, InConn
        <3>3. owed' \subseteq owed
            BY <2>1
        <3> QED
            BY <1>2, <2>1, <2>2, <2>3, <2>4, <3>1, <3>2, <3>3, QuietStep
    <2>6. CASE t # Reader
        <3>1. closing'[Reader] = closing[Reader]
            BY <1>1, <1>6, <2>6 DEF CloseClear, TypeOK, Threads
        <3>2. owed' \subseteq owed
            BY <2>1
        <3> QED
            BY <1>2, <1>3, <2>1, <2>2, <2>3, <2>4, <3>1, <3>2, QuietStep
    <2> QED
        BY <2>5, <2>6
<1>7. ASSUME NEW c \in Conns, NEW l \in Listeners, RemoveFrameListener(t, c, l)
      PROVE  IteratorValid' /\ WalkInv' /\ OwedInv'
    <2> DEFINE gone == {n \in frameListeners[c] : n.who = l}
    <2>1. UNCHANGED <<listeners, closing>> /\ owed' = owed \ {<<c, n.id>> : n \in gone}
        BY <1>7 DEF RemoveFrameListener
    <2>2. \A d \in Conns : frameListeners'[d] = IF d = c THEN frameListeners[c] \ gone ELSE frameListeners[d]
        BY <1>1, <1>7 DEF RemoveFrameListener, TypeOK
    <2>3. InConn => \A n \in frameListeners[CurConn] : n.id = lcur => n \in frameListeners'[CurConn]
        <3>1. InConn => CurConn \in Conns
            BY <1>1, CurConnFacts DEF WalkInv
        <3>2. ASSUME InConn, c = CurConn PROVE l # CurListener /\ rpc = "listener"
            <4>1. CMutexFor(t, c) /\ MayCall(t) /\ (Forbidden(t, c) => l # CurListener)
                BY <1>7 DEF RemoveFrameListener
            <4>2. t = Reader
                BY <3>2, <4>1, OwnMutex
            <4> QED
                BY <3>2, <4>1, <4>2 DEF MayCall, Forbidden
        <3>3. ASSUME InConn, c = CurConn, NEW n \in frameListeners[CurConn], n.id = lcur
              PROVE  n.who = CurListener
            BY <1>1, <3>2, <3>3, CurListenerFacts
        <3> QED
            BY <2>2, <3>1, <3>2, <3>3
    <2>4. \A d \in Conns, i \in 1 .. MaxNodes : <<d, i>> \in owed' =>
              \A n \in frameListeners[d] : n.id = i => n \in frameListeners'[d]
        BY <2>1, <2>2
    <2>5. owed' \subseteq owed
        BY <2>1
    <2> HIDE DEF gone
    <2> QED
        BY <1>2, <1>3, <2>1, <2>3, <2>4, <2>5, QuietStep
<1>8. CASE CloseRemove(t)
    <2>1. UNCHANGED <<frameListeners, owed>>
        BY <1>8 DEF CloseRemove
    <2>2. closing[t] \in Conns \cup {None} /\ closing[t] # None
        BY <1>1, <1>8 DEF CloseRemove, TypeOK
    <2>3. \A n \in listeners : n.who # closing[t] => n \in listeners'
        BY <1>8 DEF CloseRemove
    <2>4. CASE t = Reader
        <3>1. closing'[Reader] = None
            BY <1>1, <1>8, <2>4 DEF CloseRemove, TypeOK
        <3>2. CurConn # closing[Reader]
            BY <1>3, <2>2, <2>4
        <3>3. \A c \in Conns, i \in 1 .. MaxNodes : <<c, i>> \in owed => c # closing[Reader] /\ c # None
            BY <1>3, ConnectionAssumption
        <3> QED
            BY <1>2, <2>1, <2>3, <2>4, <3>1, <3>2, <3>3, QuietStep
    <2>5. CASE t # Reader
        <3>1. closing'[Reader] = closing[Reader]
            BY <1>1, <1>8, <2>5 DEF CloseRemove, TypeOK, Threads
        <3>2. rpc = "idle" /\ bcur = 0 /\ ~InConn /\ owed = {}
            BY <1>1, <1>8, <2>5 DEF CloseRemove, RMutexFor, WalkInv, OwedInv, InConn
        <3> QED
            BY <1>2, <1>3, <2>1, <3>1, <3>2, QuietStep
    <2> QED
        BY <2>4, <2>5
<1> QED
    BY <1>4, <1>5, <1>6, <1>7, <1>8 DEF Call

(* When the reader moves on in Bus::listeners, a registration in front of  *)
(* it is the one it comes to, or is still in front.                        *)
LEMMA Advance ==
    ASSUME IInv, listeners' = listeners, NEW id \in Nat, bcur' = After(listeners, id),
           NEW n \in listeners, n.id > id
    PROVE  bcur' # 0 /\ (Ahead(n.who)' \/ CurConn' = n.who)
<1>1. listeners \in SUBSET Node(Conns) /\ UniqueIds(listeners)
    BY DEF IInv, TypeOK, NodesInv
<1>2. bcur' # 0 /\ bcur' <= n.id
    BY <1>1, AfterFacts
<1>3. n.id \in Nat /\ bcur' \in Nat
    BY <1>1, AfterType, ConnectionAssumption DEF Node
<1>4. CASE bcur' = n.id
    <2>1. (CHOOSE m \in listeners : m.id = n.id) = n
        BY <1>1, ChosenNode
    <2> QED
        BY <1>2, <1>4, <2>1 DEF CurConn
<1>5. CASE bcur' < n.id
    BY <1>2, <1>5 DEF Ahead
<1> QED
    BY <1>2, <1>3, <1>4, <1>5

(* ... and its iterator is valid again.                                    *)
LEMMA AdvanceValid ==
    ASSUME IInv, listeners' = listeners, NEW id \in Nat, bcur' = After(listeners, id)
    PROVE  bcur' # 0 => \E n \in listeners' : n.id = bcur'
<1>1. listeners \in SUBSET Node(Conns)
    BY DEF IInv, TypeOK
<1> QED
    BY <1>1, AfterFacts

(* The reader takes a frame and goes to the first connection.              *)
LEMMA StartStep == ASSUME IInv, WalkStart PROVE IteratorValid' /\ WalkInv' /\ OwedInv'
<1>1. TypeOK /\ WalkInv
    BY DEF IInv
<1>2. /\ rpc = "idle" /\ rpc' = "bus" /\ bcur' = After(listeners, 0)
      /\ UNCHANGED <<listeners, frameListeners, source, held, closing>>
    BY DEF WalkStart, lists
<1>3. IteratorValid'
    BY <1>2, AdvanceValid DEF IteratorValid
<1>4. WalkInv'
    BY <1>1, <1>2 DEF WalkInv, InConn
<1>5. ASSUME NEW c \in Conns, NEW i \in 1 .. MaxNodes, <<c, i>> \in owed'
      PROVE  /\ ~Filtered(c, to)' /\ c # closing'[Reader] /\ bcur' # 0
             /\ \E n \in frameListeners'[c] : n.id = i
             /\ Ahead(c)' \/ CurConn' = c
    <2>1. PICK d \in {n.who : n \in listeners} : ~Filtered(d, to') /\ <<c, i>> \in {<<d, n.id>> : n \in frameListeners[d]}
        BY <1>5 DEF WalkStart
    <2>2. c = d /\ \E n \in frameListeners[c] : n.id = i
        BY <2>1
    <2>3. PICK n \in listeners : n.who = c
        BY <2>1, <2>2
    <2>4. n.id \in Nat /\ n.id > 0
        BY <1>1, ConnectionAssumption DEF TypeOK, Node
    <2>5. bcur' # 0 /\ (Ahead(c)' \/ CurConn' = c)
        BY <1>2, <2>3, <2>4, Advance
    <2>6. c # closing'[Reader]
        BY <1>1, <1>2, ConnectionAssumption DEF WalkInv
    <2>7. ~Filtered(c, to)'
        BY <1>2, <2>1, <2>2 DEF Filtered
    <2> QED
        BY <1>2, <2>2, <2>5, <2>6, <2>7
<1>6. OwedInv'
    BY <1>2, <1>5 DEF OwedInv
<1> QED
    BY <1>3, <1>4, <1>6

(* The reader is through with a connection, or its filter drops the frame. *)
LEMMA NextConnStep ==
    ASSUME IInv, ConnSkip \/ ConnLeave
    PROVE  IteratorValid' /\ WalkInv' /\ OwedInv'
<1>1. TypeOK /\ NodesInv /\ IteratorValid /\ WalkInv /\ OwedInv
    BY DEF IInv
<1>2. /\ rpc \in {"bus", "conn"} /\ rpc' = "bus" /\ bcur' = After(listeners, bcur)
      /\ UNCHANGED <<listeners, frameListeners, source, closing, to, owed>>
    BY DEF ConnSkip, ConnLeave, lists
<1>3. bcur \in Nat /\ bcur # 0
    BY <1>1, ConnectionAssumption DEF TypeOK, WalkInv, InConn, ConnSkip, ConnLeave
<1>4. IteratorValid'
    BY <1>2, <1>3, AdvanceValid DEF IteratorValid
<1>5. WalkInv'
    <2>1. CASE ConnSkip
        BY <1>1, <1>2, <2>1 DEF WalkInv, InConn, ConnSkip
    <2>2. CASE ConnLeave
        <3>1. \A c \in Conns : held'[c] = IF c = CurConn THEN None ELSE held[c]
            BY <1>1, <2>2 DEF ConnLeave, TypeOK
        <3>2. \A c \in Conns : held'[c] = None
            BY <1>1, <2>2, <3>1 DEF WalkInv
        <3> QED
            BY <1>1, <1>2, <3>2 DEF WalkInv, InConn
    <2> QED
        BY <2>1, <2>2
<1>6. ASSUME NEW c \in Conns, NEW i \in 1 .. MaxNodes, <<c, i>> \in owed'
      PROVE  /\ ~Filtered(c, to)' /\ c # closing'[Reader] /\ bcur' # 0
             /\ \E n \in frameListeners'[c] : n.id = i
             /\ Ahead(c)' \/ CurConn' = c
    <2>1. /\ ~Filtered(c, to) /\ c # closing[Reader] /\ bcur # 0
          /\ \E n \in frameListeners[c] : n.id = i
          /\ \/ Ahead(c)
             \/ rpc = "bus" /\ CurConn = c
             \/ rpc = "conn" /\ CurConn = c /\ lcur # 0 /\ lcur <= i
             \/ rpc = "listener" /\ CurConn = c /\ lcur < i
        BY <1>1, <1>2, <1>6 DEF OwedInv
    <2>2. Ahead(c)
        BY <1>2, <2>1 DEF ConnSkip, ConnLeave
    <2>3. bcur' # 0 /\ (Ahead(c)' \/ CurConn' = c)
        BY <1>2, <1>3, <2>2, Advance DEF Ahead
    <2> QED
        BY <1>2, <2>1, <2>3 DEF Filtered
<1>7. OwedInv'
    BY <1>2, <1>6 DEF OwedInv
<1> QED
    BY <1>4, <1>5, <1>7

(* The reader goes from listener to listener of the connection it is in.   *)
LEMMA InConnStep ==
    ASSUME IInv, ConnEnter \/ ListenerNotify \/ ListenerReturn
    PROVE  IteratorValid' /\ WalkInv' /\ OwedInv'
<1>1. TypeOK /\ NodesInv /\ IteratorValid /\ WalkInv /\ OwedInv
    BY DEF IInv
<1>2. UNCHANGED <<listeners, frameListeners, source, closing, to, bcur>> /\ InConn'
    BY DEF ConnEnter, ListenerNotify, ListenerReturn, lists, InConn
<1>3. bcur # 0 /\ CurConn \in Conns
    BY <1>1, CurConnFacts DEF WalkInv, InConn, ConnEnter, ListenerNotify, ListenerReturn
<1>4. CurConn' = CurConn
    BY <1>2 DEF CurConn
<1>5. lcur \in Nat /\ frameListeners[CurConn] \in SUBSET Node(Listeners)
    BY <1>1, <1>3, ConnectionAssumption DEF TypeOK
<1>6. \A c \in Conns : held'[c] = IF c = CurConn THEN Reader ELSE None
    <2>1. CASE ConnEnter
        BY <1>1, <2>1 DEF ConnEnter, TypeOK, WalkInv, InConn
    <2>2. CASE ListenerNotify \/ ListenerReturn
        BY <1>1, <2>2 DEF ListenerNotify, ListenerReturn, WalkInv, InConn
    <2> QED
        BY <2>1, <2>2
<1>7. closing[Reader] = None
    BY <1>1 DEF WalkInv, ConnEnter, ListenerNotify, ListenerReturn
<1>8. rpc' = "listener" => lcur' # 0
    BY DEF ConnEnter, ListenerNotify, ListenerReturn
<1>9. WalkInv'
    BY <1>2, <1>3, <1>4, <1>6, <1>7, <1>8 DEF WalkInv, InConn
<1>10. lcur' # 0 => \E n \in frameListeners[CurConn] : n.id = lcur'
    <2>1. CASE ConnEnter
        <3>1. lcur' = After(frameListeners[CurConn], 0)
            BY <2>1 DEF ConnEnter
        <3> QED
            BY <1>5, <3>1, AfterFacts
    <2>2. CASE ListenerNotify
        BY <1>1, <2>2 DEF ListenerNotify, IteratorValid
    <2>3. CASE ListenerReturn
        <3>1. lcur' = After(frameListeners[CurConn], lcur)
            BY <2>3 DEF ListenerReturn
        <3> QED
            BY <1>5, <3>1, AfterFacts
    <2> QED
        BY <2>1, <2>2, <2>3
<1>11. IteratorValid'
    BY <1>1, <1>2, <1>4, <1>10 DEF IteratorValid
<1>12. ASSUME NEW i \in 1 .. MaxNodes, <<CurConn, i>> \in owed', ~Ahead(CurConn)
       PROVE  \/ rpc' = "conn" /\ lcur' # 0 /\ lcur' <= i
              \/ rpc' = "listener" /\ lcur' < i
    <2>1. <<CurConn, i>> \in owed
        BY <1>12 DEF ConnEnter, ListenerNotify, ListenerReturn
    <2>2. PICK n \in frameListeners[CurConn] : n.id = i
        BY <1>1, <1>3, <2>1 DEF OwedInv
    <2>3. \/ rpc = "bus"
          \/ rpc = "conn" /\ lcur # 0 /\ lcur <= i
          \/ rpc = "listener" /\ lcur < i
        BY <1>1, <1>3, <1>12, <2>1 DEF OwedInv
    <2>4. CASE ConnEnter
        <3>1. lcur' = After(frameListeners[CurConn], 0) /\ rpc' = "conn"
            BY <2>4 DEF ConnEnter
        <3>2. n.id > 0
            BY <2>2
        <3> QED
            BY <1>5, <2>2, <3>1, <3>2, AfterFacts
    <2>5. CASE ListenerNotify
        <3>1. rpc = "conn" /\ i # lcur /\ lcur' = lcur /\ rpc' = "listener"
            BY <1>12, <2>5 DEF ListenerNotify
        <3> QED
            BY <1>5, <2>3, <3>1
    <2>6. CASE ListenerReturn
        <3>1. lcur' = After(frameListeners[CurConn], lcur) /\ rpc' = "conn" /\ rpc = "listener"
            BY <2>6 DEF ListenerReturn
        <3>2. n.id > lcur
            BY <1>5, <2>2, <2>3, <3>1
        <3> QED
            BY <1>5, <2>2, <3>1, <3>2, AfterFacts
    <2> QED
        BY <2>4, <2>5, <2>6
<1>13. OwedInv'
    <2>1. rpc' # "idle"
        BY <1>2 DEF InConn
    <2>2. ASSUME NEW c \in Conns, NEW i \in 1 .. MaxNodes, <<c, i>> \in owed'
          PROVE  /\ ~Filtered(c, to)' /\ c # closing'[Reader] /\ bcur' # 0
                 /\ \E n \in frameListeners'[c] : n.id = i
                 /\ \/ Ahead(c)'
                    \/ rpc' = "conn" /\ CurConn' = c /\ lcur' # 0 /\ lcur' <= i
                    \/ rpc' = "listener" /\ CurConn' = c /\ lcur' < i
        <3>1. <<c, i>> \in owed
            BY <2>2 DEF ConnEnter, ListenerNotify, ListenerReturn
        <3>2. /\ ~Filtered(c, to) /\ c # closing[Reader]
              /\ \E n \in frameListeners[c] : n.id = i
              /\ Ahead(c) \/ CurConn = c
            BY <1>1, <3>1 DEF OwedInv
        <3>3. Ahead(c)' = Ahead(c) /\ Filtered(c, to)' = Filtered(c, to)
            BY <1>2 DEF Ahead, Filtered
        <3> QED
            BY <1>2, <1>3, <1>4, <1>12, <2>2, <3>2, <3>3
    <2> QED
        BY <2>1, <2>2 DEF OwedInv
<1> QED
    BY <1>9, <1>11, <1>13

(* The walk is over, or a listener's exception ends it.                    *)
LEMMA EndStep ==
    ASSUME IInv, WalkEnd \/ ListenerThrow
    PROVE  IteratorValid' /\ WalkInv' /\ OwedInv'
<1>1. TypeOK /\ WalkInv /\ OwedInv
    BY DEF IInv
<1>2. /\ rpc' = "idle" /\ bcur' = 0 /\ UNCHANGED closing
      /\ closing[Reader] = None
    BY <1>1 DEF WalkEnd, ListenerThrow, WalkInv
<1>3. owed' = {}
    <2>1. CASE WalkEnd
        <3>1. \A c \in Conns, i \in 1 .. MaxNodes : <<c, i>> \notin owed
            BY <1>1, <2>1 DEF WalkEnd, OwedInv
        <3> QED
            BY <1>1, <2>1, <3>1 DEF WalkEnd, TypeOK
    <2>2. CASE ListenerThrow
        BY <2>2 DEF ListenerThrow
    <2> QED
        BY <2>1, <2>2
<1>4. \A c \in Conns : held'[c] = None
    <2>1. CASE WalkEnd
        BY <1>1, <2>1 DEF WalkEnd, WalkInv, InConn
    <2>2. CASE ListenerThrow
        <3>1. \A c \in Conns : held'[c] = IF c = CurConn THEN None ELSE held[c]
            BY <1>1, <2>2 DEF ListenerThrow, TypeOK
        <3> QED
            BY <1>1, <2>2, <3>1 DEF WalkInv
    <2> QED
        BY <2>1, <2>2
<1> QED
    BY <1>2, <1>3, <1>4 DEF IteratorValid, WalkInv, OwedInv, InConn
-----------------------------------------------------------------------------
(* Theorems *)

(* Init establishes the invariant.                                         *)
LEMMA InvariantInit == Init => IInv
<1> SUFFICES ASSUME Init PROVE IInv
    OBVIOUS
<1>1. TypeOK
    <2>1. frameListeners \in [Conns -> SUBSET Node(Listeners)] /\ listeners \subseteq Node(Conns)
        BY DEF Init
    <2>2. held \in [Conns -> Threads \cup {None}] /\ closing \in [Threads -> Conns \cup {None}]
        BY DEF Init
    <2>3. 0 \in 0 .. MaxNodes /\ 0 \in 0 .. MaxFrames /\ 0 \in 0 .. MaxSessions
        BY ConnectionAssumption
    <2> QED
        BY <2>1, <2>2, <2>3 DEF Init, TypeOK
<1>2. NodesInv
    BY DEF Init, NodesInv, UniqueIds
<1>3. IteratorValid /\ OwedInv
    BY DEF Init, IteratorValid, OwedInv
<1>4. WalkInv
    <2>1. closing[Reader] = None
        BY DEF Init, Threads
    <2> QED
        BY <2>1 DEF Init, WalkInv, InConn
<1>5. ClosedInv
    BY DEF Init, ClosedInv
<1> QED
    BY <1>1, <1>2, <1>3, <1>4, <1>5 DEF IInv

(* Every step keeps it.                                                    *)
LEMMA InvariantStep == IInv /\ [Next]_vars => IInv'
<1> SUFFICES ASSUME IInv, [Next]_vars PROVE IInv'
    OBVIOUS
<1>1. TypeOK' /\ NodesInv' /\ ClosedInv'
    BY TypeStep, NodesStep, ClosedStep
<1>2. CASE \E t \in Threads : Call(t) \/ CloseRemove(t)
    BY <1>1, <1>2, CallStep DEF IInv
<1>3. CASE BusStart \/ BusStop \/ ReaderStopped \/ UNCHANGED vars
    <2>1. UNCHANGED <<rpc, to, bcur, lcur, held, source, listeners, frameListeners, closing, owed>>
        BY <1>3 DEF BusStart, BusStop, ReaderStopped, vars, lists, readerVars
    <2>2. /\ closing[Reader] # None => rpc = "listener" /\ closing[Reader] # CurConn
          /\ \A c \in Conns, i \in 1 .. MaxNodes : <<c, i>> \in owed => c # closing[Reader]
        BY DEF IInv, WalkInv, OwedInv
    <2>3. IteratorValid' /\ WalkInv' /\ OwedInv'
        BY <1>1, <2>1, <2>2, QuietStep
    <2> QED
        BY <1>1, <2>3 DEF IInv
<1>4. CASE WalkStart
    BY <1>1, <1>4, StartStep DEF IInv
<1>5. CASE ConnSkip \/ ConnLeave
    BY <1>1, <1>5, NextConnStep DEF IInv
<1>6. CASE ConnEnter \/ ListenerNotify \/ ListenerReturn
    BY <1>1, <1>6, InConnStep DEF IInv
<1>7. CASE WalkEnd \/ ListenerThrow
    BY <1>1, <1>7, EndStep DEF IInv
<1> QED
    BY <1>2, <1>3, <1>4, <1>5, <1>6, <1>7 DEF Next, ReaderStep

(* The inductive invariant holds in every behaviour.                       *)
THEOREM Invariance == Spec => []IInv
BY InvariantInit, InvariantStep, PTL DEF Spec

(* The variables keep their types.                                         *)
THEOREM TypeCorrect == Spec => []TypeOK
<1>1. IInv => TypeOK
    BY DEF IInv
<1> QED
    BY <1>1, Invariance, PTL

(* No thread, and no listener that keeps off its own registration, erases  *)
(* a node under the reader's iterators.                                    *)
THEOREM IteratorsStayValid == Spec => []IteratorValid
<1>1. IInv => IteratorValid
    BY DEF IInv
<1> QED
    BY <1>1, Invariance, PTL

(* When the reader's walk is over and no listener threw, every listener    *)
(* that was to be notified of the frame has been.                          *)
THEOREM NobodyIsPassedOver == Spec => []EveryoneNotified
<1>1. IInv => EveryoneNotified
    BY DEF IInv, OwedInv, EveryoneNotified
<1> QED
    BY <1>1, Invariance, PTL

(* While the reader dispatches a frame it never finds a connection's mutex *)
(* with a thread that waits for rMutex, for every number of connections    *)
(* and threads.                                                            *)
THEOREM MutexesAreOrdered == Spec => []LockOrder
<1>1. IInv => LockOrder
    <2> SUFFICES ASSUME IInv, NEW c \in Conns PROVE held[c] \in {None, Reader}
        BY DEF LockOrder, CMutexFor
    <2> QED
        BY DEF IInv, WalkInv
<1> QED
    BY <1>1, Invariance, PTL

(* In an application that closes its connections before it stops the bus,  *)
(* neither the bus nor the reader refers to a connection after close().    *)
THEOREM SafeToDestroy == ASSUME CloseBeforeStop PROVE Spec => []ClosedIsUnreferenced
<1>1. IInv => ClosedIsUnreferenced
    <2> SUFFICES ASSUME IInv, NEW c \in Conns, shut[c]
                 PROVE  held[c] = None /\ \A n \in listeners : n.who # c
        BY DEF ClosedIsUnreferenced
    <2>1. \A n \in listeners : n.who # c
        BY DEF IInv, ClosedInv
    <2>2. InConn => c # CurConn
        BY <2>1, CurConnFacts DEF IInv, WalkInv
    <2> QED
        BY <2>1, <2>2 DEF IInv, WalkInv
<1> QED
    BY <1>1, Invariance, PTL

(* ... and no listener is notified through a closed connection.            *)
THEOREM SilentAfterClose == ASSUME CloseBeforeStop PROVE Spec => []ClosedIsSilent
<1>1. IInv => ClosedIsSilent
    <2> SUFFICES ASSUME IInv, rpc = "listener" PROVE ~shut[CurConn]
        BY DEF ClosedIsSilent
    <2>1. CurConn \in Conns /\ \E n \in listeners : n.who = CurConn
        BY CurConnFacts DEF IInv, WalkInv, InConn
    <2> QED
        BY <2>1 DEF IInv, ClosedInv
<1> QED
    BY <1>1, Invariance, PTL
=============================================================================
