----------------------------- MODULE Connection -----------------------------
(***************************************************************************)
(* Connections and the dispatch of received frames: Bus::listeners, each   *)
(* Connection's frameListeners and filter, and the reader thread's walk    *)
(* over both lists with rMutex and the connection's mutex held.  Calls     *)
(* come from application threads, and from listeners while the reader      *)
(* notifies them (the mutexes are recursive).                              *)
(*                                                                         *)
(* A std::list that only grows at its end is a set of nodes with ever      *)
(* larger ids: iteration goes from one id to the next larger one, and an   *)
(* iterator dangles when its node is no longer in the set.                 *)
(***************************************************************************)
EXTENDS Naturals, FiniteSets

CONSTANTS Conns,           \* Connection objects
          Listeners,       \* FrameListener objects of the application
          Apps,            \* application threads
          Addresses,       \* logical addresses in use
          MaxNodes,        \* bound: list nodes ever allocated
          MaxFrames,       \* bound: frames dispatched
          MaxSessions,     \* bound: bus starts
          CloseBeforeStop  \* the application closes its connections before it stops the bus

(* LogicalAddress::UNREGISTERED and LogicalAddress::BROADCAST are both 15. *)
Broadcast == 15
None == "none"
Reader == "reader"

ASSUME ConnectionAssumption ==
    /\ Addresses \subseteq 0 .. 14
    /\ MaxNodes \in Nat /\ MaxFrames \in Nat /\ MaxSessions \in Nat
    /\ CloseBeforeStop \in BOOLEAN
    /\ {None, Reader} \cap Apps = {} /\ None \notin Conns

VARIABLES
    started,         \* Bus::started
    reading,         \* the reader thread of the session has not ended
    listeners,       \* Bus::listeners: nodes [id, who], who a Connection
    frameListeners,  \* per Connection: nodes [id, who], who a FrameListener
    source,          \* DefaultFilter::source, a copy; setSource() does not reach it
    held,            \* held[c]: the thread that holds c's mutex, or None
    closing,         \* closing[t]: the Connection t is about to take off the bus, or None
    shut,            \* history: shut[c]: a close() of c ended and no open() followed
    rpc,             \* where the reader is; it holds rMutex unless "idle"
    to,              \* destination of the frame it dispatches
    bcur, lcur,      \* its iterators: ids of nodes, 0 at the end of the list
    owed,            \* history: who must still be notified of this frame
    nodes, frames, sessions   \* the bounded counters

bus == <<started, reading>>
lists == <<listeners, frameListeners>>
readerVars == <<rpc, to, bcur, lcur>>
counters == <<nodes, frames, sessions>>
vars == <<bus, lists, source, held, closing, shut, readerVars, owed, counters>>

Threads == Apps \cup {Reader}

Init ==
    /\ started = FALSE /\ reading = FALSE
    /\ listeners = {} /\ frameListeners = [c \in Conns |-> {}]
    /\ source \in [Conns -> Addresses \cup {Broadcast}]
    /\ held = [c \in Conns |-> None] /\ closing = [t \in Threads |-> None]
    /\ shut = [c \in Conns |-> FALSE]
    /\ rpc = "idle" /\ to = Broadcast /\ bcur = 0 /\ lcur = 0 /\ owed = {}
    /\ nodes = 0 /\ frames = 0 /\ sessions = 0
-----------------------------------------------------------------------------
(* list_it++: the next node, or 0 for end().                               *)
After(list, id) ==
    LET later == {n.id : n \in {m \in list : m.id > id}}
    IN  IF later = {} THEN 0 ELSE CHOOSE i \in later : \A j \in later : i <= j

(* The connection and the listener under the reader's iterators.           *)
CurConn == (CHOOSE n \in listeners : n.id = bcur).who
CurListener == (CHOOSE n \in frameListeners[CurConn] : n.id = lcur).who

(* DefaultFilter::isFiltered, on the filter's own copy of the source.      *)
Filtered(c, dest) ==
    source[c] # Broadcast /\ dest # Broadcast /\ dest # source[c]

(* The recursive mutexes: a listener runs in the reader thread.            *)
RMutexFor(t) == rpc = "idle" \/ t = Reader
CMutexFor(t, c) == held[c] \in {None, t}

(* An idle application thread may call; a listener while it is notified.   *)
MayCall(t) == closing[t] = None /\ (t = Reader => rpc = "listener")
-----------------------------------------------------------------------------
(* Calls on a Connection                                                   *)

(* open(): Bus::addFrameListener, refused unless the bus is started.       *)
Open(t, c) ==
    /\ MayCall(t) /\ RMutexFor(t) /\ started
    /\ nodes < MaxNodes
    /\ nodes' = nodes + 1
    /\ listeners' = listeners \cup {[id |-> nodes', who |-> c]}
    /\ shut' = [shut EXCEPT ![c] = FALSE]
    /\ UNCHANGED <<bus, frameListeners, source, held, closing, readerVars, owed,
                   frames, sessions>>

(* Assumed of the application: a listener does not take itself off the     *)
(* list the reader walks (close() would, too): nothing in the code guards  *)
(* the iterator against that.                                              *)
Forbidden(t, c) == t = Reader /\ c = CurConn

(* Mutant: the connection's mutex is still held when close() asks for      *)
(* rMutex.                                                                 *)
CloseClearKeepsLock(t, c) ==
    /\ MayCall(t) /\ CMutexFor(t, c) /\ ~Forbidden(t, c)
    /\ frameListeners' = [frameListeners EXCEPT ![c] = {}]
    /\ owed' = {o \in owed : o[1] # c}
    /\ closing' = [closing EXCEPT ![t] = c]
    /\ held' = [held EXCEPT ![c] = t]
    /\ UNCHANGED <<bus, listeners, source, shut, readerVars, counters>>

(* close(), first half: the connection's own list.                         *)
CloseClear(t, c) ==
    /\ MayCall(t) /\ CMutexFor(t, c) /\ ~Forbidden(t, c)
    /\ frameListeners' = [frameListeners EXCEPT ![c] = {}]
    /\ owed' = {o \in owed : o[1] # c}
    /\ closing' = [closing EXCEPT ![t] = c]
    /\ UNCHANGED <<bus, listeners, source, held, shut, readerVars, counters>>

(* Mutant: only one registration of the connection is taken off the bus.   *)
CloseRemoveFirst(t) ==
    /\ closing[t] # None /\ RMutexFor(t)
    /\ LET c == closing[t]
           first == {n \in listeners : n.who = c /\ \A m \in listeners : m.who = c => n.id <= m.id}
       IN  /\ listeners' = IF started THEN listeners \ first ELSE listeners
           /\ shut' = [shut EXCEPT ![c] = TRUE]
    /\ closing' = [closing EXCEPT ![t] = None]
    /\ UNCHANGED <<bus, frameListeners, source, held, readerVars, owed, counters>>

(* Mutant: close() only tries rMutex, and gives up if the reader has it.   *)
CloseRemoveTryLock(t) ==
    /\ closing[t] # None
    /\ LET c == closing[t]
       IN  /\ listeners' = IF started /\ RMutexFor(t) THEN {n \in listeners : n.who # c} ELSE listeners
           /\ shut' = [shut EXCEPT ![c] = TRUE]
    /\ closing' = [closing EXCEPT ![t] = None]
    /\ UNCHANGED <<bus, frameListeners, source, held, readerVars, owed, counters>>

(* Second half, Bus::removeFrameListener: every registration goes, but on  *)
(* a bus that is not started it throws and none does.                      *)
CloseRemove(t) ==
    /\ closing[t] # None /\ RMutexFor(t)
    /\ LET c == closing[t]
       IN  /\ listeners' = IF started THEN {n \in listeners : n.who # c} ELSE listeners
           /\ shut' = [shut EXCEPT ![c] = TRUE]
    /\ closing' = [closing EXCEPT ![t] = None]
    /\ UNCHANGED <<bus, frameListeners, source, held, readerVars, owed, counters>>

(* Mutant: the listener is registered with the bus, past the connection.   *)
AddFrameListenerToBus(t, c, l) ==
    /\ MayCall(t) /\ CMutexFor(t, c)
    /\ nodes < MaxNodes
    /\ nodes' = nodes + 1
    /\ listeners' = listeners \cup {[id |-> nodes', who |-> l]}
    /\ UNCHANGED <<bus, frameListeners, source, held, closing, shut, readerVars, owed,
                   frames, sessions>>

(* push_back under the connection's mutex; no check for duplicates.        *)
AddFrameListener(t, c, l) ==
    /\ MayCall(t) /\ CMutexFor(t, c)
    /\ nodes < MaxNodes
    /\ nodes' = nodes + 1
    /\ frameListeners' = [frameListeners EXCEPT ![c] = @ \cup {[id |-> nodes', who |-> l]}]
    /\ UNCHANGED <<bus, listeners, source, held, closing, shut, readerVars, owed,
                   frames, sessions>>

(* Mutant: the list is changed without the mutex.                          *)
RemoveFrameListenerUnlocked(t, c, l) ==
    /\ MayCall(t)
    /\ Forbidden(t, c) => l # CurListener
    /\ LET gone == {n \in frameListeners[c] : n.who = l}
       IN  /\ frameListeners' = [frameListeners EXCEPT ![c] = @ \ gone]
           /\ owed' = owed \ {<<c, n.id>> : n \in gone}
    /\ UNCHANGED <<bus, listeners, source, held, closing, shut, readerVars, counters>>

(* std::list::remove takes every occurrence.                               *)
RemoveFrameListener(t, c, l) ==
    /\ MayCall(t) /\ CMutexFor(t, c)
    /\ Forbidden(t, c) => l # CurListener
    /\ LET gone == {n \in frameListeners[c] : n.who = l}
       IN  /\ frameListeners' = [frameListeners EXCEPT ![c] = @ \ gone]
           /\ owed' = owed \ {<<c, n.id>> : n \in gone}
    /\ UNCHANGED <<bus, listeners, source, held, closing, shut, readerVars, counters>>

-----------------------------------------------------------------------------
(* The bus is started and stopped (see module Bus)                         *)

BusStart ==
    /\ ~started /\ ~reading /\ sessions < MaxSessions
    /\ sessions' = sessions + 1
    /\ started' = TRUE /\ reading' = TRUE
    /\ UNCHANGED <<lists, source, held, closing, shut, readerVars, owed, nodes, frames>>

BusStop ==
    /\ started /\ rpc = "idle"
    /\ CloseBeforeStop => listeners = {} /\ \A t \in Threads : closing[t] = None
    /\ started' = FALSE
    /\ UNCHANGED <<reading, lists, source, held, closing, shut, readerVars, owed, counters>>

(* Reader::stop has waited for the reader to finish.                       *)
ReaderStopped ==
    /\ ~started /\ reading /\ rpc = "idle"
    /\ reading' = FALSE
    /\ UNCHANGED <<started, lists, source, held, closing, shut, readerVars, owed, counters>>
-----------------------------------------------------------------------------
(* Bus::Reader::run with a frame, and DefaultFrameListener::notify         *)

(* rMutex, and the beginning of Bus::listeners.                            *)
WalkStart ==
    /\ reading /\ rpc = "idle" /\ frames < MaxFrames
    /\ frames' = frames + 1
    /\ rpc' = "bus" /\ to' \in Addresses \cup {Broadcast}
    /\ bcur' = After(listeners, 0)
    /\ owed' = UNION {{<<c, n.id>> : n \in frameListeners[c]} :
                         c \in {d \in {n.who : n \in listeners} : ~Filtered(d, to')}}
    /\ UNCHANGED <<bus, lists, source, held, closing, shut, lcur, nodes, sessions>>

(* The connection's mutex, and its filter lets the frame pass ...          *)
ConnEnter ==
    /\ rpc = "bus" /\ bcur # 0
    /\ CMutexFor(Reader, CurConn) /\ ~Filtered(CurConn, to)
    /\ held' = [held EXCEPT ![CurConn] = Reader]
    /\ lcur' = After(frameListeners[CurConn], 0)
    /\ rpc' = "conn"
    /\ UNCHANGED <<bus, lists, source, closing, shut, to, bcur, owed, counters>>

(* ... or drops it.                                                        *)
ConnSkip ==
    /\ rpc = "bus" /\ bcur # 0
    /\ CMutexFor(Reader, CurConn) /\ Filtered(CurConn, to)
    /\ bcur' = After(listeners, bcur)
    /\ UNCHANGED <<bus, lists, source, held, closing, shut, rpc, to, lcur, owed, counters>>

ListenerNotify ==
    /\ rpc = "conn" /\ lcur # 0
    /\ owed' = owed \ {<<CurConn, lcur>>}
    /\ rpc' = "listener"
    /\ UNCHANGED <<bus, lists, source, held, closing, shut, to, bcur, lcur, counters>>

(* Mutant: the iterator is advanced once more.                             *)
ListenerReturnSkips ==
    /\ rpc = "listener" /\ closing[Reader] = None
    /\ lcur' = LET next == After(frameListeners[CurConn], lcur)
               IN  IF next = 0 THEN 0 ELSE After(frameListeners[CurConn], next)
    /\ rpc' = "conn"
    /\ UNCHANGED <<bus, lists, source, held, closing, shut, to, bcur, owed, counters>>

ListenerReturn ==
    /\ rpc = "listener" /\ closing[Reader] = None
    /\ lcur' = After(frameListeners[CurConn], lcur)
    /\ rpc' = "conn"
    /\ UNCHANGED <<bus, lists, source, held, closing, shut, to, bcur, owed, counters>>

(* Reader::run catches InvalidStateException outside its loop over the     *)
(* listeners: the walk is over, the listeners after this one get nothing,  *)
(* and both locks are released on the way.                                 *)
ListenerThrow ==
    /\ rpc = "listener" /\ closing[Reader] = None
    /\ held' = [held EXCEPT ![CurConn] = None]
    /\ rpc' = "idle" /\ bcur' = 0 /\ lcur' = 0 /\ owed' = {}
    /\ UNCHANGED <<bus, lists, source, closing, shut, to, counters>>

ConnLeave ==
    /\ rpc = "conn" /\ lcur = 0
    /\ held' = [held EXCEPT ![CurConn] = None]
    /\ bcur' = After(listeners, bcur)
    /\ rpc' = "bus"
    /\ UNCHANGED <<bus, lists, source, closing, shut, to, lcur, owed, counters>>

WalkEnd ==
    /\ rpc = "bus" /\ bcur = 0
    /\ rpc' = "idle"
    /\ UNCHANGED <<bus, lists, source, held, closing, shut, to, bcur, lcur, owed, counters>>
-----------------------------------------------------------------------------
ReaderStep ==
    ConnEnter \/ ConnSkip \/ ListenerNotify \/ ListenerReturn \/ ConnLeave \/ WalkEnd

Call(t) ==
    \E c \in Conns : \/ Open(t, c) \/ CloseClear(t, c)
                     \/ \E l \in Listeners : AddFrameListener(t, c, l) \/ RemoveFrameListener(t, c, l)

Next ==
    \/ \E t \in Threads : Call(t) \/ CloseRemove(t)
    \/ BusStart \/ BusStop \/ ReaderStopped
    \/ WalkStart \/ ReaderStep \/ ListenerThrow

Spec == Init /\ [][Next]_vars

(* Threads keep running, in the walk and inside close().  That a listener  *)
(* does return, however many calls it makes, is the application's duty.    *)
FairSpec ==
    /\ Spec
    /\ WF_vars(ReaderStep) /\ SF_vars(ListenerReturn)
    /\ \A t \in Threads : WF_vars(CloseRemove(t))
-----------------------------------------------------------------------------
(* Properties                                                              *)

Node(Who) == [id : 1 .. MaxNodes, who : Who]

(* The variables have their types.                                         *)
TypeOK ==
    /\ started \in BOOLEAN /\ reading \in BOOLEAN
    /\ listeners \subseteq Node(Conns)
    /\ frameListeners \in [Conns -> SUBSET Node(Listeners)]
    /\ source \in [Conns -> Addresses \cup {Broadcast}]
    /\ held \in [Conns -> Threads \cup {None}]
    /\ closing \in [Threads -> Conns \cup {None}] /\ shut \in [Conns -> BOOLEAN]
    /\ rpc \in {"idle", "bus", "conn", "listener"} /\ to \in Addresses \cup {Broadcast}
    /\ bcur \in 0 .. MaxNodes /\ lcur \in 0 .. MaxNodes
    /\ owed \subseteq Conns \X (1 .. MaxNodes)
    /\ nodes \in 0 .. MaxNodes /\ frames \in 0 .. MaxFrames
    /\ sessions \in 0 .. MaxSessions

(* The reader's iterators point into their lists: nobody erases a node     *)
(* under Reader::run or under notify(), whatever other threads and other   *)
(* listeners add, remove and close meanwhile.                              *)
IteratorValid ==
    /\ bcur # 0 => \E n \in listeners : n.id = bcur
    /\ rpc \in {"conn", "listener"} /\ lcur # 0 =>
           \E n \in frameListeners[CurConn] : n.id = lcur

(* Once close() is over, its application's listeners get no frame through  *)
(* that connection until it is opened again.                               *)
ClosedIsSilent == rpc = "listener" => ~shut[CurConn]

(* When close() returns, neither Bus::listeners nor the reader in the      *)
(* middle of its walk refers to the connection any more: ~Connection does  *)
(* not take it off the bus, so only this makes it safe to destroy it.      *)
ClosedIsUnreferenced ==
    \A c \in Conns : shut[c] => held[c] = None /\ \A n \in listeners : n.who # c

(* A frame reaches every listener that was registered, on an open          *)
(* connection whose filter lets it pass, when the walk began and that was  *)
(* not removed before its turn came, unless a listener before it throws.   *)
EveryoneNotified == rpc = "idle" => owed = {}

(* The lock order: while the reader has rMutex, no thread that could come  *)
(* to wait for rMutex keeps a connection's mutex, so that the reader, and  *)
(* a listener it notifies, gets every one it asks for.                     *)
LockOrder == rpc # "idle" => \A c \in Conns : CMutexFor(Reader, c)

(* The inductive invariant behind these, in parts.  Ids are unique within  *)
(* a list, and a new node gets a larger one.                               *)
UniqueIds(list) == \A m, n \in list : m.id = n.id => m = n

NodesInv ==
    /\ UniqueIds(listeners) /\ \A n \in listeners : n.id <= nodes
    /\ \A c \in Conns : /\ UniqueIds(frameListeners[c])
                        /\ \A n \in frameListeners[c] : n.id <= nodes

(* Where the reader is in the walk, and what it holds there.  A listener   *)
(* in the middle of a close() closes another connection than its own.      *)
InConn == rpc \in {"conn", "listener"}

WalkInv ==
    /\ rpc = "idle" => bcur = 0
    /\ InConn => bcur # 0
    /\ rpc = "listener" => lcur # 0
    /\ \A c \in Conns : held[c] = IF InConn /\ c = CurConn THEN Reader ELSE None
    /\ closing[Reader] # None => rpc = "listener" /\ closing[Reader] # CurConn

(* A registration of connection c that the walk has yet to come to.        *)
Ahead(c) == \E n \in listeners : n.who = c /\ n.id > bcur

(* Who is still to be notified is on its list, and in front of the reader. *)
OwedInv ==
    /\ rpc = "idle" => owed = {}
    /\ \A c \in Conns, i \in 1 .. MaxNodes : <<c, i>> \in owed =>
           /\ ~Filtered(c, to) /\ c # closing[Reader] /\ bcur # 0
           /\ \E n \in frameListeners[c] : n.id = i
           /\ \/ Ahead(c)
              \/ rpc = "bus" /\ CurConn = c
              \/ rpc = "conn" /\ CurConn = c /\ lcur # 0 /\ lcur <= i
              \/ rpc = "listener" /\ CurConn = c /\ lcur < i

(* What an application that closes in time can rely on.                    *)
ClosedInv ==
    CloseBeforeStop =>
        /\ started \/ listeners = {}
        /\ \A c \in Conns : shut[c] => \A n \in listeners : n.who # c

IInv == TypeOK /\ NodesInv /\ IteratorValid /\ WalkInv /\ OwedInv /\ ClosedInv

(* The dispatch of a frame ends, and so does every close(): rMutex and the *)
(* connection's mutex are never waited for in a circle.                    *)
NoCircularWait ==
    /\ (rpc # "idle") ~> (rpc = "idle")
    /\ \A t \in Threads : (closing[t] # None) ~> (closing[t] = None)
=============================================================================
