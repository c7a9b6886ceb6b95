--------------------- MODULE SerialPortHandlerCollection ---------------------
(***************************************************************************)
(* All ports and all clients of the daemon: the clients come and go, the   *)
(* first client of a port name creates its SerialPortHandler, the last one *)
(* stops it, and a shutdown stops them all.  A handler iterates over its   *)
(* clients while what it calls for one of them may iterate again, stop     *)
(* clients or destroy them.                                                *)
(*                                                                         *)
(* Everything runs in one thread.  calls holds what is left to do of the   *)
(* handler that runs, the innermost call first; a new handler starts when  *)
(* it is empty.  Objects live by reference counts: a client by the list of *)
(* the server and by the calls that hold a pointer to it, and the stopper  *)
(* of a port by the clients attached to it.                                *)
(*                                                                         *)
(* ProtocolState and the TCP endpoints are the callers of the operations   *)
(* here; what the station does is in the module of that name, and what a   *)
(* client is told in SerialPort.                                           *)
(***************************************************************************)
EXTENDS Naturals, FiniteSets, Functions, SequencesExt

CONSTANTS
  Clients,    \* HdlcdServerHandler objects
  Handlers,   \* SerialPortHandler objects
  Names,      \* names of serial ports
  Sessions,   \* the buffer types the clients ask for
  None

BufferTypes == {"PAYLOAD", "PORT_STATUS", "RAW", "DISSECTED"}

ASSUME ConstantsAssumption ==
  /\ IsFiniteSet(Clients)
  /\ Sessions \subseteq BufferTypes
  /\ IsFiniteSet(Handlers)
  /\ Cardinality(Handlers) >= Cardinality(Names)  \* more are never in use
  /\ None \notin Clients \cup Handlers \cup Names

VARIABLES
  client, handler,
  m_SerialPortHandlerMap,    \* None also stands for an expired entry
  m_HdlcdServerHandlerList,  \* of HdlcdServerHandlerCollection, in no order
  s_bCyclicCallGuard,
  calls,
  daemon

objects == <<client, handler>>
collections == <<m_SerialPortHandlerMap, m_HdlcdServerHandlerList>>
vars == <<objects, collections, s_bCyclicCallGuard, calls, daemon>>

ClientType ==
  [exists: BOOLEAN,                        \* weak pointers to it have not expired
   m_Registered: BOOLEAN,
   m_eBufferType: BufferTypes,
   m_SerialPortHandlerStopper: Handlers \cup {None},
   m_bLockedBySelf: BOOLEAN]

HandlerType ==
  [m_Registered: BOOLEAN,
   m_SerialPortName: Names \cup {None},
   open: BOOLEAN,                          \* m_SerialPort is open, ProtocolState started
   m_NbrOfLocks: 0..Cardinality(Clients),
   clients: Seq(Clients),                  \* m_HdlcdServerHandlerList, of weak pointers
   m_BufferTypeSubscribers: [BufferTypes -> 0..Cardinality(Clients)]]

\* What ForEachHdlcdServerHandler does for a client.
Functions == {"update", "deliver", "query", "enqueue", "count", "stop"}

CallType ==
  [do: {"ForEach"}, handler: Handlers, function: Functions, next: Clients \cup {None},
   rebuild: BOOLEAN, seen: SUBSET Clients]
  \cup [do: {"LeaveClient"}, client: Clients, locked: BOOLEAN]
  \cup [do: {"StopClient", "DestroyClient", "ReleaseStopper"}, client: Clients]
  \cup [do: {"Deliver"}, handler: Handlers, type: BufferTypes]
  \cup [do: {"Propagate", "Query", "Open", "Resume", "Stop"}, handler: Handlers]
  \cup [do: {"Attach"}, handler: Handlers, client: Clients]

TypeOK ==
  /\ client \in [Clients -> ClientType]
  /\ handler \in [Handlers -> HandlerType]
  /\ m_SerialPortHandlerMap \in [Names -> Handlers \cup {None}]
  /\ m_HdlcdServerHandlerList \subseteq Clients
  /\ s_bCyclicCallGuard \in BOOLEAN
  /\ calls \in Seq(CallType)
  /\ daemon \in {"running", "shutdown", "stopped", "failed"}

NoClient ==
  [exists |-> FALSE, m_Registered |-> FALSE, m_eBufferType |-> "PAYLOAD",
   m_SerialPortHandlerStopper |-> None, m_bLockedBySelf |-> FALSE]

NoSubscribers == [t \in BufferTypes |-> 0]

NoHandler ==
  [m_Registered |-> FALSE, m_SerialPortName |-> None, open |-> FALSE, m_NbrOfLocks |-> 0,
   clients |-> <<>>, m_BufferTypeSubscribers |-> NoSubscribers]

Init ==
  /\ client = [x \in Clients |-> NoClient]
  /\ handler = [h \in Handlers |-> NoHandler]
  /\ m_SerialPortHandlerMap = [n \in Names |-> None]
  /\ m_HdlcdServerHandlerList = {}
  /\ s_bCyclicCallGuard = FALSE
  /\ calls = <<>>
  /\ daemon = "running"

-----------------------------------------------------------------------------
(* The calls.                                                              *)

ForHandler(do, h) == <<[do |-> do, handler |-> h]>>
ForClient(do, x) == <<[do |-> do, client |-> x]>>
Deliver(h, t) == <<[do |-> "Deliver", handler |-> h, type |-> t]>>

\* The station hands over a frame; an I-frame and a UI frame deliver the payload first.
DeliverSent(h) == Deliver(h, "RAW") \o Deliver(h, "DISSECTED")
DeliverSentPayload(h) == Deliver(h, "PAYLOAD") \o DeliverSent(h)

FirstOf(list) == IF list = <<>> THEN None ELSE list[1]
Position(list, x) == CHOOSE i \in DOMAIN list: list[i] = x
After(list, x) == IF Position(list, x) = Len(list) THEN None ELSE list[Position(list, x) + 1]

ForEach(h, function) ==
  <<[do |-> "ForEach", handler |-> h, function |-> function, next |-> FirstOf(handler[h].clients),
     rebuild |-> FALSE, seen |-> {}]>>

Running(do) == calls # <<>> /\ calls[1].do = do
Call(inner) == calls' = inner \o Tail(calls)

\* The clients and stoppers that calls keep alive.
HeldClients(rest) == {rest[i].client: i \in {i \in DOMAIN rest: rest[i].do \in {"LeaveClient", "Attach"}}}
HeldStoppers(rest) == {rest[i].handler: i \in {i \in DOMAIN rest: rest[i].do = "Attach"}}

DestroyIfUnused(x, rest) == IF x \in HeldClients(rest) THEN <<>> ELSE ForClient("DestroyClient", x)

-----------------------------------------------------------------------------
(* SerialPortHandler::ForEachHdlcdServerHandler.                           *)

Iterating(function) == Running("ForEach") /\ calls[1].function = function

MeetsClient == Running("ForEach") /\ \E x \in Clients: calls[1].next = x /\ client[x].exists
MeetsOutdated == Running("ForEach") /\ \E x \in Clients: calls[1].next = x /\ ~client[x].exists

\* The iteration on top, behind the client it has met.
Onwards == LET c == calls[1]
           IN [c EXCEPT !.next = After(handler[c.handler].clients, @), !.seen = @ \cup {c.next}]

\* The client is held, and the guard locked, until what was called for it returns.
VisitCalling(inner, onwards) ==
  /\ MeetsClient
  /\ s_bCyclicCallGuard' = TRUE
  /\ Call(inner \o <<[do |-> "LeaveClient", client |-> calls[1].next, locked |-> ~s_bCyclicCallGuard],
                     onwards>>)
  /\ UNCHANGED <<objects, collections, daemon>>

\* Nothing is called back: UpdateSerialPortState and DeliverBufferToClient send
\* to the client, and so does a query of a client without a packet that suits;
\* while a frame is being written a packet is only queued.
VisitQuietly ==
  /\ MeetsClient
  /\ calls[1].function # "stop"
  /\ Call(<<Onwards>>)
  /\ LET x == calls[1].next
     IN handler' = IF calls[1].function = "count"
                   THEN [handler EXCEPT ![calls[1].handler].m_BufferTypeSubscribers[client[x].m_eBufferType] = @ + 1]
                   ELSE handler
  /\ UNCHANGED <<client, collections, s_bCyclicCallGuard, daemon>>

\* The packet of the client is sent at once.
VisitToQuery ==
  /\ Iterating("query")
  /\ VisitCalling(DeliverSentPayload(calls[1].handler), [Onwards EXCEPT !.function = "enqueue"])

VisitToStop ==
  /\ Iterating("stop")
  /\ VisitCalling(ForClient("StopClient", calls[1].next), Onwards)

LeaveClient ==
  /\ Running("LeaveClient")
  /\ LET x == calls[1].client
     IN /\ s_bCyclicCallGuard' = (s_bCyclicCallGuard /\ ~calls[1].locked)
        /\ Call(IF client[x].m_Registered THEN <<>> ELSE DestroyIfUnused(x, Tail(calls)))
  /\ UNCHANGED <<objects, collections, daemon>>

\* An outdated entry is removed, unless an outer iteration is at work.
PassAndRemove(removes, recounts) ==
  /\ MeetsOutdated
  /\ LET c == calls[1]
     IN /\ Call(<<[Onwards EXCEPT !.rebuild = @ \/ recounts]>>)
        /\ handler' = IF removes THEN [handler EXCEPT ![c.handler].clients = RemoveAt(@, Position(@, c.next))] ELSE handler
  /\ UNCHANGED <<client, collections, s_bCyclicCallGuard, daemon>>

\* Mutant: the guard is not asked.
PassOutdatedUnguarded == PassAndRemove(TRUE, TRUE)

\* Mutant: counts again although nothing was removed.
PassOutdatedCounting == PassAndRemove(~s_bCyclicCallGuard, TRUE)

PassOutdated == PassAndRemove(~s_bCyclicCallGuard, ~s_bCyclicCallGuard)

\* At the end the subscriptions are counted again.  A handler that has stopped
\* its clients is not used any more: what gets its name next is a new one.
EndAndCount(handlers) ==
  /\ Running("ForEach") /\ calls[1].next = None
  /\ LET c == calls[1]
     IN IF c.rebuild
        THEN /\ Call(ForEach(c.handler, "count"))
             /\ handler' = handlers
        ELSE /\ Call(<<>>)
             /\ handler' = IF handler[c.handler].m_Registered THEN handler
                           ELSE [handler EXCEPT ![c.handler] = NoHandler]
  /\ UNCHANGED <<client, collections, s_bCyclicCallGuard, daemon>>

\* Mutant: counts without starting from zero.
EndForEachAddingUp == EndAndCount(handler)

EndForEach ==
  EndAndCount([handler EXCEPT ![calls[1].handler].m_BufferTypeSubscribers = NoSubscribers])

-----------------------------------------------------------------------------
(* The other operations of SerialPortHandler.                              *)

Keep == UNCHANGED <<client, m_HdlcdServerHandlerList, s_bCyclicCallGuard>>

BeginForEach ==
  /\ \/ Running("Propagate") /\ Call(ForEach(calls[1].handler, "update"))
     \/ Running("Query") /\ Call(ForEach(calls[1].handler, "query"))
     \/ /\ Running("Deliver")  \* RequiresBufferType
        /\ Call(IF handler[calls[1].handler].m_BufferTypeSubscribers[calls[1].type] # 0
                THEN ForEach(calls[1].handler, "deliver") ELSE <<>>)
  /\ Keep /\ UNCHANGED <<handler, m_SerialPortHandlerMap, daemon>>

\* DeregisterSerialPortHandler: the map loses the handler.
Deregistered(h) == [n \in Names |-> IF m_SerialPortHandlerMap[n] = h THEN None ELSE m_SerialPortHandlerMap[n]]

\* The station sends its first probe; or the device cannot be opened.
OpenSerialPort ==
  /\ Running("Open")
  /\ LET h == calls[1].handler
     IN \/ /\ handler' = [handler EXCEPT ![h].open = TRUE]
           /\ Call(DeliverSent(h) \o ForHandler("Propagate", h))
           /\ UNCHANGED m_SerialPortHandlerMap
        \/ /\ handler' = [handler EXCEPT ![h].m_Registered = FALSE, ![h].open = FALSE]
           /\ m_SerialPortHandlerMap' = Deregistered(h)
           /\ Call(ForEach(h, "stop"))
  /\ Keep /\ UNCHANGED daemon

ResumeSerialPort ==
  /\ Running("Resume")
  /\ LET h == calls[1].handler
     IN IF ~handler[h].m_Registered THEN Call(<<>>) /\ UNCHANGED handler
        ELSE /\ handler' = [handler EXCEPT ![h].m_NbrOfLocks = @ - 1]
             /\ Call(ForHandler(IF handler'[h].m_NbrOfLocks = 0 THEN "Open" ELSE "Propagate", h))
  /\ Keep /\ UNCHANGED <<m_SerialPortHandlerMap, daemon>>

\* cancel throws when the port is not open, which ends the daemon.
StopHandler ==
  /\ Running("Stop")
  /\ LET h == calls[1].handler
     IN IF ~handler[h].m_Registered
        THEN Call(<<>>) /\ UNCHANGED <<handler, m_SerialPortHandlerMap, daemon>>
        ELSE /\ handler' = [handler EXCEPT ![h].m_Registered = FALSE, ![h].open = FALSE]
             /\ IF handler[h].open
                THEN /\ m_SerialPortHandlerMap' = Deregistered(h)
                     /\ Call(ForEach(h, "stop"))
                     /\ UNCHANGED daemon
                ELSE calls' = <<>> /\ daemon' = "failed" /\ UNCHANGED m_SerialPortHandlerMap
  /\ Keep

-----------------------------------------------------------------------------
(* The operations of HdlcdServerHandler.                                   *)

\* Stop.  Nobody but the list of the server and calls in progress hold the client.
StopClient ==
  /\ Running("StopClient")
  /\ LET x == calls[1].client
     IN /\ client' = [client EXCEPT ![x].m_Registered = FALSE]
        /\ m_HdlcdServerHandlerList' = m_HdlcdServerHandlerList \ {x}
        /\ Call(DestroyIfUnused(x, Tail(calls)))
  /\ UNCHANGED <<handler, m_SerialPortHandlerMap, s_bCyclicCallGuard, daemon>>

\* Mutant: the members are declared in another order.
DestroyClientStopperFirst ==
  /\ Running("DestroyClient")
  /\ LET x == calls[1].client
         h == client[x].m_SerialPortHandlerStopper
     IN /\ client' = [client EXCEPT ![x] = [NoClient EXCEPT !.m_SerialPortHandlerStopper = h]]
        /\ Call((IF h # None THEN ForClient("ReleaseStopper", x) ELSE <<>>)
                \o (IF client[x].m_bLockedBySelf THEN ForHandler("Resume", h) ELSE <<>>))
  /\ UNCHANGED <<handler, collections, s_bCyclicCallGuard, daemon>>

\* The members are destroyed: first LockGuard, last the pointer to the stopper.
DestroyClient ==
  /\ Running("DestroyClient")
  /\ LET x == calls[1].client
         h == client[x].m_SerialPortHandlerStopper
     IN /\ client' = [client EXCEPT ![x] = [NoClient EXCEPT !.m_SerialPortHandlerStopper = h]]
        /\ Call((IF client[x].m_bLockedBySelf THEN ForHandler("Resume", h) ELSE <<>>)
                \o (IF h # None THEN ForClient("ReleaseStopper", x) ELSE <<>>))
  /\ UNCHANGED <<handler, collections, s_bCyclicCallGuard, daemon>>

\* Mutant: the port outlives its clients.
ReleaseStopperQuietly ==
  /\ Running("ReleaseStopper")
  /\ LET x == calls[1].client
         h == client[x].m_SerialPortHandlerStopper
         last == /\ \A y \in Clients \ {x}: client[y].m_SerialPortHandlerStopper # h
                 /\ h \notin HeldStoppers(calls)
     IN /\ client' = [client EXCEPT ![x].m_SerialPortHandlerStopper = None]
        /\ m_SerialPortHandlerMap' = IF last THEN Deregistered(h) ELSE m_SerialPortHandlerMap
        /\ Call(<<>>)
  /\ UNCHANGED <<handler, m_HdlcdServerHandlerList, s_bCyclicCallGuard, daemon>>

\* The last pointer to the stopper expires the entry of the map and stops the port.
ReleaseStopper ==
  /\ Running("ReleaseStopper")
  /\ LET x == calls[1].client
         h == client[x].m_SerialPortHandlerStopper
         last == /\ \A y \in Clients \ {x}: client[y].m_SerialPortHandlerStopper # h
                 /\ h \notin HeldStoppers(calls)
     IN /\ client' = [client EXCEPT ![x].m_SerialPortHandlerStopper = None]
        /\ m_SerialPortHandlerMap' = IF last THEN Deregistered(h) ELSE m_SerialPortHandlerMap
        /\ Call(IF last THEN ForHandler("Stop", h) ELSE <<>>)
  /\ UNCHANGED <<handler, m_HdlcdServerHandlerList, s_bCyclicCallGuard, daemon>>

\* The rest of OnFrame: a port that could not be started takes the client with it.
Attach ==
  /\ Running("Attach")
  /\ LET x == calls[1].client
         h == calls[1].handler
     IN IF handler[h].m_Registered
        THEN /\ client' = [client EXCEPT ![x].m_SerialPortHandlerStopper = h]
             /\ Call(ForHandler("Propagate", h))
        ELSE /\ UNCHANGED client
             /\ Call(ForHandler("Stop", h) \o ForClient("DestroyClient", x))
  /\ UNCHANGED <<handler, collections, s_bCyclicCallGuard, daemon>>

-----------------------------------------------------------------------------
(* Handlers of the io_service.                                             *)

Handle(sequence) == daemon = "running" /\ calls = <<>> /\ calls' = sequence
Attached(x) == client[x].m_Registered /\ client[x].m_SerialPortHandlerStopper # None
AwaitsHeader(x) == client[x].m_Registered /\ client[x].m_SerialPortHandlerStopper = None

\* New objects.  Which of the unused ones does not matter.
UnusedClients == {x \in Clients: /\ ~client[x].exists
                                 /\ \A h \in Handlers: ~Contains(handler[h].clients, x)}
UnusedHandlers == {h \in Handlers: ~handler[h].m_Registered}

\* DoAccept and Start.
DoAccept ==
  /\ UnusedClients # {}
  /\ Handle(<<>>)
  /\ LET x == CHOOSE x \in UnusedClients: TRUE
     IN /\ client' = [client EXCEPT ![x] = [NoClient EXCEPT !.exists = TRUE, !.m_Registered = TRUE]]
        /\ m_HdlcdServerHandlerList' = m_HdlcdServerHandlerList \cup {x}
  /\ UNCHANGED <<handler, m_SerialPortHandlerMap, s_bCyclicCallGuard, daemon>>

\* AddHdlcdServerHandler.
Added(state, x, type) ==
  [state EXCEPT !.m_BufferTypeSubscribers[type] = @ + 1, !.clients = Append(@, x)]

\* The session header, up to the end of GetSerialPortHandler.
OnFrame(x, name, type) ==
  /\ AwaitsHeader(x)
  /\ client' = [client EXCEPT ![x].m_eBufferType = type]
  /\ LET h == m_SerialPortHandlerMap[name]
         attach(g) == <<[do |-> "Attach", handler |-> g, client |-> x]>>
     IN IF h # None
        THEN /\ handler' = [handler EXCEPT ![h] = Added(@, x, type)]
             /\ Handle((IF handler[h].open THEN ForHandler("Propagate", h) ELSE <<>>) \o attach(h))
             /\ UNCHANGED m_SerialPortHandlerMap
        ELSE LET g == CHOOSE g \in UnusedHandlers: TRUE
             IN /\ UnusedHandlers # {}
                /\ handler' = [handler EXCEPT ![g] =
                     Added([NoHandler EXCEPT !.m_Registered = TRUE, !.m_SerialPortName = name], x, type)]
                /\ m_SerialPortHandlerMap' = [m_SerialPortHandlerMap EXCEPT ![name] = g]
                /\ Handle(ForHandler("Open", g) \o attach(g))
  /\ UNCHANGED <<m_HdlcdServerHandlerList, s_bCyclicCallGuard, daemon>>

\* The connection is closed, or the session header is rejected.
OnClosed(x) ==
  /\ client[x].m_Registered
  /\ Handle(ForClient("StopClient", x))
  /\ UNCHANGED <<objects, collections, s_bCyclicCallGuard, daemon>>

\* SuspendSerialPort; the station and the port itself propagate the state.
AcquireLock(x) ==
  /\ Attached(x)
  /\ ~client[x].m_bLockedBySelf
  /\ LET h == client[x].m_SerialPortHandlerStopper
     IN /\ handler' = [handler EXCEPT ![h].m_NbrOfLocks = @ + 1, ![h].open = FALSE]
        /\ Handle((IF handler[h].open THEN ForHandler("Propagate", h) ELSE <<>>)
                  \o ForHandler("Propagate", h))
  /\ client' = [client EXCEPT ![x].m_bLockedBySelf = TRUE]
  /\ UNCHANGED <<collections, s_bCyclicCallGuard, daemon>>

\* Mutant: a lock is given back that is not held.
ReleaseAnyLock(x) ==
  /\ Attached(x)
  /\ client' = [client EXCEPT ![x].m_bLockedBySelf = FALSE]
  /\ Handle(ForHandler("Resume", client[x].m_SerialPortHandlerStopper))
  /\ UNCHANGED <<handler, collections, s_bCyclicCallGuard, daemon>>

ReleaseLock(x) ==
  /\ Attached(x)
  /\ client[x].m_bLockedBySelf
  /\ client' = [client EXCEPT ![x].m_bLockedBySelf = FALSE]
  /\ Handle(ForHandler("Resume", client[x].m_SerialPortHandlerStopper))
  /\ UNCHANGED <<handler, collections, s_bCyclicCallGuard, daemon>>

\* A kill request of a client, or a read or write that fails.
StopRequest(h) ==
  /\ handler[h].m_Registered
  /\ Handle(ForHandler("Stop", h))
  /\ UNCHANGED <<objects, collections, s_bCyclicCallGuard, daemon>>

\* What the station calls while it is started.
StationCalls(h) ==
  /\ handler[h].open
  /\ \/ \E t \in Sessions: handler[h].m_BufferTypeSubscribers[t] # 0 /\ Handle(Deliver(h, t))
     \/ \E do \in {"Propagate", "Query"}: Handle(ForHandler(do, h))
  /\ UNCHANGED <<objects, collections, s_bCyclicCallGuard, daemon>>

-----------------------------------------------------------------------------
(* main: a signal ends the event loop, and all clients are stopped.        *)

Signal ==
  /\ Handle(<<>>)
  /\ daemon' = "shutdown"
  /\ UNCHANGED <<objects, collections, s_bCyclicCallGuard>>

Shutdown ==
  /\ daemon = "shutdown" /\ calls = <<>>
  /\ IF m_HdlcdServerHandlerList # {}
     THEN (\E x \in m_HdlcdServerHandlerList: calls' = ForClient("StopClient", x)) /\ UNCHANGED daemon
     ELSE daemon' = "stopped" /\ UNCHANGED calls
  /\ UNCHANGED <<objects, collections, s_bCyclicCallGuard>>

\* The innermost call.
Continue ==
  \/ VisitQuietly \/ VisitToQuery \/ VisitToStop
  \/ LeaveClient \/ PassOutdated \/ EndForEach
  \/ BeginForEach \/ OpenSerialPort \/ ResumeSerialPort \/ StopHandler
  \/ StopClient \/ DestroyClient \/ ReleaseStopper \/ Attach

NextHandler ==
  \/ DoAccept
  \/ \E x \in Clients:
       \/ OnClosed(x) \/ AcquireLock(x) \/ ReleaseLock(x)
       \/ \E name \in Names, type \in Sessions: OnFrame(x, name, type)
  \/ \E h \in Handlers: StopRequest(h) \/ StationCalls(h)
  \/ Signal

Next == Continue \/ NextHandler \/ Shutdown

Spec == Init /\ [][Next]_vars

(* A call that was made goes on, and main goes on when the event loop has  *)
(* ended.  Nothing has to arrive from outside.                             *)
FairSpec == Spec /\ WF_vars(Continue) /\ WF_vars(Shutdown)
-----------------------------------------------------------------------------
Iterations == {calls[i]: i \in {i \in DOMAIN calls: calls[i].do = "ForEach"}}
LiveEntries(h) == {x \in ToSet(handler[h].clients): client[x].exists}
AheadOf(it) ==
  LET list == handler[it.handler].clients
  IN {list[i]: i \in {i \in DOMAIN list: \E j \in 1..i: list[j] = it.next}}

(* The "next" iterator of every iteration in progress, however deeply they *)
(* are nested, points into the list, and no client that is still there     *)
(* has been passed over.                                                   *)
NobodyIsPassedOver ==
  \A it \in Iterations:
    /\ it.next \in ToSet(handler[it.handler].clients) \cup {None}
    /\ LiveEntries(it.handler) \subseteq it.seen \cup AheadOf(it)

Total(subscribers) ==
  subscribers["PAYLOAD"] + subscribers["PORT_STATUS"] + subscribers["RAW"] + subscribers["DISSECTED"]

(* RequiresBufferType never denies a buffer that a client waits for, also  *)
(* within an iteration that removes outdated entries; and when no          *)
(* iteration is in progress the counters count the entries of the list.    *)
SubscribersAreCounted ==
  \A h \in Handlers \ UnusedHandlers:
    LET subscribers == handler[h].m_BufferTypeSubscribers
        own == {it \in Iterations: it.handler = h}
    IN /\ \/ \E it \in own: it.function = "count"
          \/ \A t \in BufferTypes:
               subscribers[t] >= Cardinality({x \in LiveEntries(h): client[x].m_eBufferType = t})
       /\ own = {} => Total(subscribers) = Len(handler[h].clients)

(* Between two handlers, a handler that is registered has clients attached *)
(* and is the one its name leads to; clients are attached to such handlers *)
(* only, are entered there, and are destroyed when they are stopped.  Its  *)
(* lock counter counts its clients' locks, and it is open unless locked.   *)
PortsFollowClients ==
  calls = <<>> /\ daemon # "failed" =>
    /\ ~s_bCyclicCallGuard
    /\ \A h \in Handlers:
         LET attached == {x \in Clients: client[x].m_SerialPortHandlerStopper = h}
         IN /\ handler[h].m_Registered <=> attached # {}
            /\ attached = LiveEntries(h)
            /\ \A n \in Names: m_SerialPortHandlerMap[n] = h <=> handler[h].m_Registered /\ handler[h].m_SerialPortName = n
            /\ handler[h].m_NbrOfLocks = Cardinality({x \in attached: client[x].m_bLockedBySelf})
            /\ handler[h].m_Registered => handler[h].open = (handler[h].m_NbrOfLocks = 0)
    /\ \A x \in Clients: client[x].exists = (x \in m_HdlcdServerHandlerList)

(* Every call returns: iterations that remove entries and count again, and *)
(* stopping that destroys clients that stop their port, come to an end.    *)
CallsReturn == calls # <<>> ~> calls = <<>>

(* A shutdown ends and leaves no client and no registered port, although   *)
(* clients give back locks on the way and so reopen ports.                 *)
ShutdownReleasesAll ==
  daemon = "shutdown" ~>
    /\ daemon = "stopped"
    /\ \A x \in Clients: ~client[x].exists
    /\ \A h \in Handlers: ~handler[h].m_Registered
=============================================================================
