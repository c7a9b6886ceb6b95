----------------------------- MODULE SerialPort -----------------------------
(***************************************************************************)
(* One serial port of the daemon and the clients that share it: the        *)
(* SerialPortHandler with its SerialPortLock, and per client the Hdlcd-    *)
(* ServerHandler with its LockGuard and AliveGuard.                        *)
(*                                                                         *)
(* ProtocolState is the module of the same name; here it is the caller of  *)
(* TransmitHDLCFrame, QueryForPayload and PropagateSerialPortState, which  *)
(* it does while it is started, one frame at a time.  External are the     *)
(* endpoint of the TCP connection (HdlcdPacketEndpoint), which delivers    *)
(* the packets of a client in order and stalls on request, and the asio    *)
(* serial_port: cancel and close leave behind the completion handlers of   *)
(* the operations that were outstanding.                                   *)
(***************************************************************************)
EXTENDS Naturals, FiniteSets

CONSTANTS
  Clients,
  MaxQueue,           \* bound: packets of the clients in the queues of ProtocolState
  MaxOperations       \* bound: operations of the serial port whose handler has not run

\* Opening a port starts a read and a write.
ASSUME ConstantsAssumption ==
  /\ IsFiniteSet(Clients)
  /\ MaxQueue \in Nat
  /\ MaxOperations \in Nat /\ MaxOperations >= 2

VARIABLES
  port,    \* SerialPortHandler, SerialPortLock and what it sees of ProtocolState
  client,  \* HdlcdServerHandler, LockGuard and AliveGuard of each client
  told,    \* the status each client was sent last
  failure  \* how the process ended, if it did

vars == <<port, client, told, failure>>

PacketKinds == {"reliable", "unreliable"}
Nothing == "nothing"
\* The completion handlers that cancel leaves behind, by what they are told.
Completions == {"read_aborted", "read_done", "write_aborted", "write_partly", "write_done"}
Status == [alive: BOOLEAN, self: BOOLEAN, others: BOOLEAN]

PortType ==
  [m_Registered: BOOLEAN,
   m_NbrOfLocks: 0..Cardinality(Clients),
   open: BOOLEAN,                              \* m_SerialPort is open
   m_bStarted: BOOLEAN,                        \* of ProtocolState
   alive: BOOLEAN,                             \* ProtocolState::IsAlive
   writing: BOOLEAN,                           \* ~m_bAwaitsNextHDLCFrame
   m_SendBufferOffset: {0, 1},                 \* 1: a part of the frame was written
   reads: 0..MaxOperations,                    \* outstanding on the open port
   writes: 0..MaxOperations,
   stale: [Completions -> 0..MaxOperations],   \* left behind by suspensions
   overlapped: BOOLEAN,                        \* auxiliary: resumed with some of them left
   queued: 0..MaxQueue]                        \* packets in the wait queues

ClientType ==
  [m_Registered: BOOLEAN,
   m_bLockedBySelf: BOOLEAN, m_bLockedByOthers: BOOLEAN,
   m_bLastLockedBySelf: BOOLEAN, m_bLastLockedByOthers: BOOLEAN,
   m_bAlive: BOOLEAN,
   m_bDeliverInitialState: BOOLEAN,
   m_bSerialPortHandlerAwaitsPacket: BOOLEAN,
   m_PendingIncomingPacketData: PacketKinds \cup {Nothing},
   receiving: BOOLEAN]                         \* the endpoint is not stalled

TypeOK ==
  /\ port \in PortType
  /\ client \in [Clients -> ClientType]
  /\ told \in [Clients -> Status]
  /\ failure \in {"none", "cancel_on_closed_port", "write_in_progress"}

\* No SerialPortHandler, and a client that is not connected.
NoPort ==
  [m_Registered |-> FALSE, m_NbrOfLocks |-> 0, open |-> FALSE, m_bStarted |-> FALSE,
   alive |-> FALSE, writing |-> FALSE, m_SendBufferOffset |-> 0, reads |-> 0,
   writes |-> 0, stale |-> [k \in Completions |-> 0], overlapped |-> FALSE, queued |-> 0]

NoClient ==
  [m_Registered |-> FALSE, m_bLockedBySelf |-> FALSE, m_bLockedByOthers |-> FALSE,
   m_bLastLockedBySelf |-> FALSE, m_bLastLockedByOthers |-> FALSE, m_bAlive |-> TRUE,
   m_bDeliverInitialState |-> TRUE, m_bSerialPortHandlerAwaitsPacket |-> FALSE,
   m_PendingIncomingPacketData |-> Nothing, receiving |-> FALSE]

NotTold == [alive |-> FALSE, self |-> FALSE, others |-> FALSE]

Init ==
  /\ port = NoPort
  /\ client = [c \in Clients |-> NoClient]
  /\ told = [c \in Clients |-> NotTold]
  /\ failure = "none"

Attached == {c \in Clients: client[c].m_Registered}
Holders == {c \in Attached: client[c].m_bLockedBySelf}
StaleIn(p) == \E k \in Completions: p.stale[k] > 0
StaleCount(stale) == stale["read_aborted"] + stale["read_done"] + stale["write_aborted"]
                       + stale["write_partly"] + stale["write_done"]
Operations == port.reads + port.writes + StaleCount(port.stale)

-----------------------------------------------------------------------------
(* HdlcdServerHandler::UpdateSerialPortState with the two guards.          *)

\* Mutant: the last state told of the other clients is not kept up to date.
LockGuardUpdateForgets(h, lockHolders) ==
  [h EXCEPT !.m_bLockedByOthers = lockHolders > (IF h.m_bLockedBySelf THEN 1 ELSE 0),
            !.m_bLastLockedBySelf = h.m_bLockedBySelf]

LockGuardUpdate(h, lockHolders) ==
  [h EXCEPT !.m_bLockedByOthers = lockHolders > (IF h.m_bLockedBySelf THEN 1 ELSE 0),
            !.m_bLastLockedBySelf = h.m_bLockedBySelf,
            !.m_bLastLockedByOthers = lockHolders > (IF h.m_bLockedBySelf THEN 1 ELSE 0)]

UpdateSerialPortState(h, p) ==
  [LockGuardUpdate(h, p.m_NbrOfLocks) EXCEPT !.m_bAlive = p.alive, !.m_bDeliverInitialState = FALSE]

\* The client is sent its status when it changed, and once initially.
Delivers(h, p) ==
  LET u == UpdateSerialPortState(h, p)
  IN \/ h.m_bDeliverInitialState
     \/ h.m_bAlive # u.m_bAlive
     \/ h.m_bLastLockedBySelf # u.m_bLastLockedBySelf
     \/ h.m_bLastLockedByOthers # u.m_bLastLockedByOthers

StatusOf(h) == [alive |-> h.m_bAlive, self |-> h.m_bLockedBySelf, others |-> h.m_bLockedByOthers]

\* The handler ends with the port p and the clients h, after the last call of
\* PropagateSerialPortState.  The calls before it saw the same port and locks.
Propagate(p, h) ==
  /\ port' = p
  /\ client' = [c \in Clients |-> IF h[c].m_Registered THEN UpdateSerialPortState(h[c], p) ELSE h[c]]
  /\ told' = [c \in Clients |-> IF h[c].m_Registered /\ Delivers(h[c], p)
                                THEN StatusOf(UpdateSerialPortState(h[c], p))
                                ELSE IF h[c].m_Registered THEN told[c] ELSE NotTold]

\* The port has been stopped: the clients are closed, and their guards call
\* ResumeSerialPort of a port that is not registered, which does nothing.
StopClients ==
  /\ port' = NoPort
  /\ client' = [c \in Clients |-> NoClient]
  /\ told' = [c \in Clients |-> NotTold]

-----------------------------------------------------------------------------
(* Opening and closing the port.                                           *)

\* The assertion in TransmitHDLCFrame: the last frame is not complete.
WriteInProgress == failure' = "write_in_progress" /\ UNCHANGED <<port, client, told>>

\* Mutant: nobody reads.
OpenSerialPortDeaf(p, h) ==
  \/ /\ p.m_SendBufferOffset = 0
     /\ Propagate([p EXCEPT !.open = TRUE, !.m_bStarted = TRUE, !.alive = FALSE,
                            !.writing = TRUE, !.writes = @ + 1],
                  h)
     /\ UNCHANGED failure
  \/ p.m_SendBufferOffset # 0 /\ WriteInProgress
  \/ StopClients /\ UNCHANGED failure

\* OpenSerialPort starts ProtocolState, which hands over a probe, unless the
\* device cannot be opened: then the port is given up before it gets there.
OpenSerialPort(p, h) ==
  \/ /\ p.m_SendBufferOffset = 0
     /\ Propagate([p EXCEPT !.open = TRUE, !.m_bStarted = TRUE, !.alive = FALSE,
                            !.writing = TRUE, !.reads = @ + 1, !.writes = @ + 1,
                            !.overlapped = @ \/ StaleIn(p)],
                  h)
     /\ UNCHANGED failure
  \/ p.m_SendBufferOffset # 0 /\ WriteInProgress
  \/ StopClients /\ UNCHANGED failure

\* ProtocolState::Stop, cancel and close.  The handlers of the operations that
\* had completed (n[k] of them) will be told so, the others that they were aborted.
Interrupted(p) == {n \in [{"read_done", "write_partly", "write_done"} -> 0..MaxOperations]:
                     /\ n["read_done"] <= p.reads
                     /\ n["write_partly"] + n["write_done"] <= p.writes}

ClosePort(p, n) ==
  [p EXCEPT !.m_bStarted = FALSE, !.alive = FALSE, !.open = FALSE, !.writing = FALSE,
            !.reads = 0, !.writes = 0,
            !.stale = [k \in Completions |-> @[k] +
                         CASE k = "read_aborted" -> p.reads - n["read_done"]
                           [] k = "write_aborted" -> p.writes - n["write_partly"] - n["write_done"]
                           [] OTHER -> n[k]]]

SuspendSerialPort(h) ==
  LET p == [port EXCEPT !.m_NbrOfLocks = @ + 1]
  IN /\ UNCHANGED failure
     /\ IF p.m_NbrOfLocks = 1 THEN \E n \in Interrupted(p): Propagate(ClosePort(p, n), h)
                              ELSE Propagate(p, h)

\* Mutant: any released lock resumes the port.
ResumeSerialPortEarly(h) == OpenSerialPort([port EXCEPT !.m_NbrOfLocks = @ - 1], h)

ResumeSerialPort(h) ==
  LET p == [port EXCEPT !.m_NbrOfLocks = @ - 1]
  IN IF p.m_NbrOfLocks = 0 THEN OpenSerialPort(p, h)
     ELSE UNCHANGED failure /\ Propagate(p, h)

\* cancel() throws when the port is not open.
StopPort ==
  IF port.open THEN StopClients /\ UNCHANGED failure
  ELSE failure' = "cancel_on_closed_port" /\ UNCHANGED <<port, client, told>>

-----------------------------------------------------------------------------
(* The clients.                                                            *)

\* The session header arrived: OnFrame, GetSerialPortHandler and, for the
\* first client, SerialPortHandler::Start.
Connect(c) ==
  /\ ~client[c].m_Registered
  /\ LET h == [client EXCEPT ![c] = [NoClient EXCEPT !.m_Registered = TRUE, !.receiving = TRUE,
                                                     !.m_bSerialPortHandlerAwaitsPacket = TRUE]]
     IN IF port.m_Registered THEN Propagate(port, h) /\ UNCHANGED failure
        ELSE OpenSerialPort([NoPort EXCEPT !.m_Registered = TRUE], h)

\* Mutant: a client acquires a second lock.
AcquireLockTwice(c) ==
  /\ client[c].receiving
  /\ SuspendSerialPort([client EXCEPT ![c].m_bLockedBySelf = TRUE])

AcquireLock(c) ==
  /\ client[c].receiving
  /\ ~client[c].m_bLockedBySelf
  /\ SuspendSerialPort([client EXCEPT ![c].m_bLockedBySelf = TRUE])

Resumes == Operations + 2 <= MaxOperations

ReleaseLock(c) ==
  /\ client[c].receiving
  /\ client[c].m_bLockedBySelf
  /\ Resumes
  /\ ResumeSerialPort([client EXCEPT ![c].m_bLockedBySelf = FALSE])

PortKillRequest(c) ==
  /\ client[c].receiving
  /\ StopPort

\* Mutant: the lock of a client is not released with it.
DisconnectKeepsLock(c) ==
  /\ client[c].m_Registered
  /\ IF Attached = {c} THEN StopClients
     ELSE /\ client' = [client EXCEPT ![c] = NoClient]
          /\ told' = [told EXCEPT ![c] = NotTold]
          /\ UNCHANGED port
  /\ UNCHANGED failure

\* OnClosed.  The object is destroyed: first its guard gives back the lock,
\* and may reopen the port, then the last client stops the port.
Disconnect(c) ==
  /\ client[c].m_Registered
  /\ LET h == [client EXCEPT ![c] = NoClient]
     IN IF Attached = {c} /\ (client[c].m_bLockedBySelf => port.m_SendBufferOffset = 0)
        THEN StopClients /\ UNCHANGED failure
        ELSE IF client[c].m_bLockedBySelf
        THEN Resumes /\ ResumeSerialPort(h)
        ELSE /\ client' = h
             /\ told' = [told EXCEPT ![c] = NotTold]
             /\ UNCHANGED <<port, failure>>

\* A packet is delivered to the queues of ProtocolState if it was asked for;
\* otherwise it is kept, and the endpoint stalls.
OnDataReceived(c, kind) ==
  /\ client[c].receiving
  /\ IF client[c].m_bSerialPortHandlerAwaitsPacket
     THEN /\ port.queued < MaxQueue
          /\ port' = [port EXCEPT !.queued = @ + 1]
          /\ client' = [client EXCEPT ![c].m_bSerialPortHandlerAwaitsPacket = FALSE]
     ELSE /\ client' = [client EXCEPT ![c].m_PendingIncomingPacketData = kind, ![c].receiving = FALSE]
          /\ UNCHANGED port
  /\ UNCHANGED <<told, failure>>

-----------------------------------------------------------------------------
(* The calls of ProtocolState.                                             *)

TransmitHDLCFrame ==
  /\ port.m_bStarted /\ ~port.writing
  /\ Operations < MaxOperations
  /\ IF port.m_SendBufferOffset # 0
     THEN WriteInProgress
     ELSE /\ port' = [port EXCEPT !.writing = TRUE, !.writes = @ + 1]
          /\ UNCHANGED <<client, told, failure>>

Suits(h, reliable) ==
  h.m_PendingIncomingPacketData = "unreliable" \/ (reliable /\ h.m_PendingIncomingPacketData = "reliable")

\* Mutant: a client whose packet does not suit is told to deliver the next one.
QueryForPayloadOfAll(reliable) ==
  LET delivering == {c \in Attached: Suits(client[c], reliable)}
  IN /\ port.m_bStarted /\ port.alive /\ ~port.writing
     /\ port.queued + Cardinality(delivering) <= MaxQueue
     /\ port' = [port EXCEPT !.queued = @ + Cardinality(delivering)]
     /\ client' = [c \in Clients |->
          CASE c \in delivering -> [client[c] EXCEPT !.m_PendingIncomingPacketData = Nothing,
                                                     !.receiving = TRUE]
            [] c \in Attached \ delivering -> [client[c] EXCEPT !.m_bSerialPortHandlerAwaitsPacket = TRUE]
            [] OTHER -> client[c]]
     /\ UNCHANGED <<told, failure>>

QueryForPayload(reliable) ==
  LET delivering == {c \in Attached: Suits(client[c], reliable)}
  IN /\ port.m_bStarted /\ port.alive /\ ~port.writing
     /\ port.queued + Cardinality(delivering) <= MaxQueue
     /\ port' = [port EXCEPT !.queued = @ + Cardinality(delivering)]
     /\ client' = [c \in Clients |->
          CASE c \in delivering -> [client[c] EXCEPT !.m_PendingIncomingPacketData = Nothing,
                                                     !.receiving = TRUE]
            [] c \in Attached /\ client[c].m_PendingIncomingPacketData = Nothing ->
                 [client[c] EXCEPT !.m_bSerialPortHandlerAwaitsPacket = TRUE, !.receiving = TRUE]
            [] OTHER -> client[c]]
     /\ UNCHANGED <<told, failure>>

\* A packet leaves the queues: it was acknowledged or sent unreliably.
Unqueue ==
  /\ port.m_bStarted /\ port.queued > 0
  /\ port' = [port EXCEPT !.queued = @ - 1]
  /\ UNCHANGED <<client, told, failure>>

\* A read completes with a frame that brings the device to life.
ReadCompletes ==
  /\ port.open /\ port.reads > 0 /\ ~port.alive
  /\ Propagate([port EXCEPT !.alive = TRUE], client)
  /\ UNCHANGED failure

\* AliveState gives up the device: nobody is told until the next baud rate.
GivesUpDevice ==
  /\ port.alive
  /\ port' = [port EXCEPT !.alive = FALSE]
  /\ UNCHANGED <<client, told, failure>>

ChangesBaudRate ==
  /\ port.m_bStarted /\ ~port.alive
  /\ Propagate(port, client)
  /\ UNCHANGED failure

-----------------------------------------------------------------------------
(* Completion handlers of the serial port.                                 *)

WriteCompletes ==
  /\ port.open /\ port.writes > 0
  /\ \/ port' = [port EXCEPT !.m_SendBufferOffset = 0, !.writes = @ - 1,
                             !.writing = FALSE]                           \* TriggerNextHDLCFrame
     \/ port' = [port EXCEPT !.m_SendBufferOffset = 1]                    \* DoWrite
  /\ UNCHANGED <<client, told, failure>>

\* A read or a write reports an error: the device is gone.
PortFails ==
  /\ port.open
  /\ StopPort

\* What a suspension left behind.  A port that is resumed by now takes an
\* aborted operation for an error, and continues a successful one.
StaleCompletes(k) ==
  LET resumed == port.m_NbrOfLocks = 0
      p == [port EXCEPT !.stale[k] = @ - 1]
  IN /\ port.stale[k] > 0
     /\ IF resumed /\ k \in {"read_aborted", "write_aborted"} THEN StopPort
        ELSE /\ port' = CASE k = "read_done" -> [p EXCEPT !.reads = @ + (IF resumed THEN 1 ELSE 0)]
                          [] k = "write_partly" -> [p EXCEPT !.m_SendBufferOffset = 1,
                                                             !.writes = @ + (IF resumed THEN 1 ELSE 0)]
                          [] k = "write_done" -> [p EXCEPT !.m_SendBufferOffset = 0,
                                                           !.writing = @ /\ ~resumed]
                          [] OTHER -> p
             /\ UNCHANGED <<client, told, failure>>

Next ==
  /\ failure = "none"
  /\ \/ \E c \in Clients:
          \/ Connect(c) \/ AcquireLock(c) \/ ReleaseLock(c) \/ PortKillRequest(c) \/ Disconnect(c)
          \/ \E kind \in PacketKinds: OnDataReceived(c, kind)
     \/ TransmitHDLCFrame
     \/ \E reliable \in BOOLEAN: QueryForPayload(reliable)
     \/ Unqueue
     \/ ReadCompletes
     \/ GivesUpDevice
     \/ ChangesBaudRate
     \/ WriteCompletes
     \/ PortFails
     \/ \E k \in Completions: StaleCompletes(k)

Spec == Init /\ [][Next]_vars
-----------------------------------------------------------------------------
(* The lock counter is the number of guards that hold a lock, through      *)
(* every order of acquisitions, releases, disconnects, kill requests and   *)
(* reopening failures; and nobody holds a lock of a port that runs.        *)
LocksAreCounted ==
  /\ port.m_NbrOfLocks = Cardinality(Holders)
  /\ port.m_bStarted => port.m_NbrOfLocks = 0

(* The status a client was sent last is the one it has: which locks exist, *)
(* from its very first packet on, and that the device came to life.        *)
(* UpdateSerialPortState suppresses what it takes for no change.           *)
ClientsAreInformed ==
  failure = "none" =>
    \A c \in Attached:
      /\ told[c].self = (c \in Holders)
      /\ told[c].others = (Holders \ {c} # {})
      /\ port.alive => told[c].alive

(* The assertion in OnDataReceived: no packet arrives while one is still   *)
(* pending.  And a stalled endpoint has a packet that QueryForPayload can  *)
(* take: no client is stalled for ever by the flags alone.                 *)
StalledByItsPacket ==
  \A c \in Attached:
    /\ client[c].receiving = (client[c].m_PendingIncomingPacketData = Nothing)
    /\ client[c].m_bSerialPortHandlerAwaitsPacket => client[c].receiving

(* An open port always has a read outstanding, however often it was        *)
(* suspended and resumed, and a port that is not open none.  It has just   *)
(* one, and one write per frame, if what the suspensions left behind is    *)
(* handled before the port is resumed.                                     *)
ListensWhileOpen ==
  /\ port.reads > 0 <=> port.open
  /\ port.overlapped \/ (port.reads <= 1 /\ port.writes = IF port.writing THEN 1 ELSE 0)

Locking == INSTANCE PortLocking WITH attached <- Attached, holders <- Holders, open <- port.open

(* Suspending and resuming implements the abstract locking of a port.      *)
ImplementsPortLocking == Locking!Spec

-----------------------------------------------------------------------------
(* What the code or its documentation says and the program does not do.    *)

(* TransmitHDLCFrame asserts m_SendBufferOffset == 0: no frame is handed   *)
(* over while a part of the previous one is unwritten.                     *)
NoWriteInProgress == failure # "write_in_progress"

(* "Port kill request (immediate shutdown serial port handler and          *)
(* terminate all related TCP connections)" of the access protocol: it      *)
(* never ends the process by an exception of cancel.                       *)
NoCancelOnClosedPort == failure # "cancel_on_closed_port"
=============================================================================
