--------------------------- MODULE SerialPort_proofs ---------------------------
(***************************************************************************)
(* What a serial port guarantees to any finite number of clients, for      *)
(* every bound on the queues and on the operations of the port.            *)
(*                                                                         *)
(* A handler computes the port p and the clients h that it leaves behind   *)
(* and then propagates the state, so that the invariants are stated for    *)
(* such values.  Before the propagation a client may not have been told    *)
(* yet (Telling), after it every client was (Informed).                    *)
(***************************************************************************)
EXTENDS SerialPort, FiniteSetTheorems, TLAPS

AttachedIn(h) == {c \in Clients: h[c].m_Registered}
HoldersIn(h) == {c \in AttachedIn(h): h[c].m_bLockedBySelf}
OperationsOf(p) == p.reads + p.writes + StaleCount(p.stale)

PortInv(p) ==
  /\ p \in PortType
  /\ p.m_bStarted = p.open
  /\ p.reads > 0 <=> p.open
  /\ ~p.open => p.writes = 0 /\ ~p.writing /\ ~p.alive
  /\ p.open = (p.m_Registered /\ p.m_NbrOfLocks = 0)
  /\ ~p.m_Registered => p = NoPort
  /\ p.overlapped \/ (p.reads <= 1 /\ p.writes = IF p.writing THEN 1 ELSE 0)
  /\ p.m_NbrOfLocks = 0 /\ StaleIn(p) => p.overlapped
  /\ OperationsOf(p) <= MaxOperations

Stalled(r) ==
  /\ r.receiving = (r.m_PendingIncomingPacketData = Nothing)
  /\ r.m_bSerialPortHandlerAwaitsPacket => r.receiving

ClientsInv(h) ==
  /\ h \in [Clients -> ClientType]
  /\ \A c \in Clients: IF h[c].m_Registered THEN Stalled(h[c]) ELSE h[c] = NoClient

\* The port has a registered handler while it has clients, and counts their locks.
Counted(p, h) ==
  /\ p.m_NbrOfLocks = Cardinality(HoldersIn(h))
  /\ p.m_Registered <=> AttachedIn(h) # {}

\* What the guards of a client remember is what it was told last.
Remembered(r) ==
  [alive |-> r.m_bAlive, self |-> r.m_bLastLockedBySelf, others |-> r.m_bLastLockedByOthers]

Telling(h, t) ==
  \A c \in Clients: h[c].m_Registered => h[c].m_bDeliverInitialState \/ t[c] = Remembered(h[c])

Informed(p, h, t) ==
  \A c \in Clients: h[c].m_Registered =>
    /\ ~h[c].m_bDeliverInitialState
    /\ t[c] = Remembered(h[c])
    /\ h[c].m_bLastLockedBySelf = h[c].m_bLockedBySelf
    /\ h[c].m_bLastLockedByOthers = (p.m_NbrOfLocks > (IF h[c].m_bLockedBySelf THEN 1 ELSE 0))
    /\ p.alive => h[c].m_bAlive

IInv ==
  /\ PortInv(port)
  /\ ClientsInv(client)
  /\ Counted(port, client)
  /\ Informed(port, client, told)
  /\ told \in [Clients -> Status]
  /\ failure \in {"none", "cancel_on_closed_port", "write_in_progress"}

-----------------------------------------------------------------------------
(* Facts about the constants and initial values.                           *)

(* The holders are finitely many, and not more than the clients.           *)
LEMMA HoldersFinite ==
  ASSUME NEW h
  PROVE  /\ IsFiniteSet(HoldersIn(h))
         /\ Cardinality(Clients) \in Nat
         /\ Cardinality(HoldersIn(h)) \in 0..Cardinality(Clients)
<1>1. HoldersIn(h) \subseteq Clients
  BY DEF HoldersIn, AttachedIn
<1>2. IsFiniteSet(Clients)
  BY ConstantsAssumption
<1>3. /\ IsFiniteSet(HoldersIn(h))
      /\ Cardinality(HoldersIn(h)) <= Cardinality(Clients)
  BY <1>1, <1>2, FS_Subset
<1>4. Cardinality(Clients) \in Nat /\ Cardinality(HoldersIn(h)) \in Nat
  BY <1>2, <1>3, FS_CardinalityType
<1> QED
  BY <1>3, <1>4

(* A port without a handler is consistent, and so is a client that is not  *)
(* connected.                                                              *)
LEMMA NoPortFacts ==
  /\ PortInv(NoPort)
  /\ ~NoPort.m_Registered /\ NoPort.m_NbrOfLocks = 0
  /\ NoClient \in ClientType /\ ~NoClient.m_Registered
  /\ NotTold \in Status
<1> DEFINE zero == [k \in Completions |-> 0]
<1>1. Cardinality(Clients) \in Nat /\ MaxOperations \in Nat /\ MaxQueue \in Nat
  BY HoldersFinite, ConstantsAssumption
<1>2. zero \in [Completions -> 0..MaxOperations] /\ NoPort.stale = zero
  BY <1>1 DEF NoPort
<1>3. NoPort \in PortType
  BY <1>1, <1>2 DEF NoPort, PortType
<1>4. \A k \in Completions: NoPort.stale[k] = 0
  BY <1>2
<1>5. OperationsOf(NoPort) = 0
  BY <1>4 DEF OperationsOf, StaleCount, Completions, NoPort
<1>6. ~StaleIn(NoPort)
  BY <1>4 DEF StaleIn
<1>7. PortInv(NoPort)
  <2>1. /\ ~NoPort.m_Registered /\ NoPort.m_NbrOfLocks = 0
        /\ ~NoPort.open /\ ~NoPort.m_bStarted /\ ~NoPort.alive /\ ~NoPort.writing
        /\ NoPort.open = FALSE /\ NoPort.m_bStarted = FALSE /\ NoPort.m_Registered = FALSE
        /\ NoPort.reads = 0 /\ NoPort.writes = 0
    BY DEF NoPort
  <2>2. NoPort.m_bStarted = NoPort.open
    BY <2>1
  <2>3. NoPort.open = (NoPort.m_Registered /\ NoPort.m_NbrOfLocks = 0)
    BY <2>1
  <2>4. NoPort.reads <= 1 /\ NoPort.writes = IF NoPort.writing THEN 1 ELSE 0
    BY <2>1
  <2>5. OperationsOf(NoPort) <= MaxOperations
    BY <1>1, <1>5
  <2> QED
    BY <1>3, <1>6, <2>1, <2>2, <2>3, <2>4, <2>5 DEF PortInv
<1>8. NoClient \in ClientType /\ ~NoClient.m_Registered
  BY DEF NoClient, ClientType, PacketKinds, Nothing
<1>9. NotTold \in Status
  BY DEF NotTold, Status
<1> QED
  BY <1>7, <1>8, <1>9 DEF NoPort

(* The variables are consistent as values.                                 *)
LEMMA Values ==
  ASSUME IInv
  PROVE  /\ PortInv(port) /\ ClientsInv(client) /\ Counted(port, client)
         /\ Informed(port, client, told) /\ Telling(client, told)
         /\ Attached = AttachedIn(client) /\ Holders = HoldersIn(client)
  BY DEF IInv, Informed, Telling, Attached, Holders, AttachedIn, HoldersIn

(* Without clients everything is consistent.                               *)
LEMMA NobodyFacts ==
  ASSUME NEW h, h = [c \in Clients |-> NoClient]
  PROVE  ClientsInv(h) /\ AttachedIn(h) = {} /\ Counted(NoPort, h)
<1>1. \A c \in Clients: h[c] = NoClient
  OBVIOUS
<1>2. ClientsInv(h)
  BY <1>1, NoPortFacts DEF ClientsInv
<1>3. AttachedIn(h) = {}
  BY <1>1, NoPortFacts DEF AttachedIn
<1>4. HoldersIn(h) = {}
  BY <1>3 DEF HoldersIn
<1> QED
  BY <1>2, <1>3, <1>4, NoPortFacts, FS_EmptySet DEF Counted

(* The inductive invariant holds initially.                                *)
LEMMA InitInv == Init => IInv
<1> SUFFICES ASSUME Init PROVE IInv
  OBVIOUS
<1>1. ClientsInv(client) /\ AttachedIn(client) = {} /\ Counted(port, client)
  BY NobodyFacts DEF Init
<1>2. Informed(port, client, told)
  BY <1>1 DEF Informed, AttachedIn
<1>3. PortInv(port)
  BY NoPortFacts DEF Init
<1>4. told \in [Clients -> Status]
  BY NoPortFacts DEF Init
<1> QED
  BY <1>1, <1>2, <1>3, <1>4 DEF Init, IInv

-----------------------------------------------------------------------------
(* How a handler ends.                                                     *)

(* A handler that ends with PropagateSerialPortState informs everybody.    *)
LEMMA PropagateInv ==
  ASSUME IInv, NEW p, NEW h, PortInv(p), ClientsInv(h), Counted(p, h), Telling(h, told),
         Propagate(p, h), UNCHANGED failure
  PROVE  IInv' /\ Attached' = AttachedIn(h) /\ Holders' = HoldersIn(h)
<1> DEFINE u(c) == UpdateSerialPortState(h[c], p)
<1>0. /\ p.m_NbrOfLocks \in Nat /\ p.alive \in BOOLEAN
      /\ \A c \in Clients: h[c] \in ClientType
  BY HoldersFinite DEF PortInv, PortType, ClientsInv
<1>1. ASSUME NEW c \in Clients, h[c].m_Registered
      PROVE  /\ client'[c] = u(c)
             /\ u(c) \in ClientType
             /\ u(c).m_Registered
             /\ u(c).m_bLockedBySelf = h[c].m_bLockedBySelf
             /\ u(c).m_bLastLockedBySelf = h[c].m_bLockedBySelf
             /\ u(c).m_bLastLockedByOthers = (p.m_NbrOfLocks > (IF h[c].m_bLockedBySelf THEN 1 ELSE 0))
             /\ u(c).m_bLockedByOthers = u(c).m_bLastLockedByOthers
             /\ u(c).m_bAlive = p.alive
             /\ ~u(c).m_bDeliverInitialState
             /\ u(c).receiving = h[c].receiving
             /\ u(c).m_PendingIncomingPacketData = h[c].m_PendingIncomingPacketData
             /\ u(c).m_bSerialPortHandlerAwaitsPacket = h[c].m_bSerialPortHandlerAwaitsPacket
  <2>1. client'[c] = u(c)
    BY <1>1 DEF Propagate
  <2>2. h[c] \in ClientType
    BY <1>0
  <2> DEFINE others == p.m_NbrOfLocks > (IF h[c].m_bLockedBySelf THEN 1 ELSE 0)
  <2>3. others \in BOOLEAN
    BY <1>0
  <2>4. u(c) = [h[c] EXCEPT !.m_bLockedByOthers = others,
                            !.m_bLastLockedBySelf = h[c].m_bLockedBySelf,
                            !.m_bLastLockedByOthers = others,
                            !.m_bAlive = p.alive, !.m_bDeliverInitialState = FALSE]
    BY <2>2 DEF UpdateSerialPortState, LockGuardUpdate, ClientType
  <2> HIDE DEF others, u
  <2>5. u(c) \in ClientType
    BY <1>0, <2>2, <2>3, <2>4 DEF ClientType
  <2>6. /\ u(c).m_Registered = h[c].m_Registered
        /\ u(c).m_bLockedBySelf = h[c].m_bLockedBySelf
        /\ u(c).m_bLastLockedBySelf = h[c].m_bLockedBySelf
        /\ u(c).m_bLastLockedByOthers = others
        /\ u(c).m_bLockedByOthers = others
        /\ u(c).m_bAlive = p.alive
        /\ u(c).m_bDeliverInitialState = FALSE
        /\ u(c).receiving = h[c].receiving
        /\ u(c).m_PendingIncomingPacketData = h[c].m_PendingIncomingPacketData
        /\ u(c).m_bSerialPortHandlerAwaitsPacket = h[c].m_bSerialPortHandlerAwaitsPacket
    BY <2>2, <2>4 DEF ClientType
  <2> QED
    BY <1>1, <2>1, <2>5, <2>6 DEF others
<1> HIDE DEF u
<1>2. ASSUME NEW c \in Clients, ~h[c].m_Registered
      PROVE  client'[c] = h[c] /\ h[c] = NoClient
  BY <1>2 DEF Propagate, ClientsInv
<1>3. client' \in [Clients -> ClientType]
  <2>1. \A c \in Clients: client'[c] \in ClientType
    BY <1>1, <1>2, NoPortFacts
  <2> QED
    BY <2>1 DEF Propagate
<1>4. ClientsInv(client')
  <2>1. ASSUME NEW c \in Clients
        PROVE IF client'[c].m_Registered THEN Stalled(client'[c]) ELSE client'[c] = NoClient
    BY <1>1, <1>2, NoPortFacts DEF ClientsInv, Stalled
  <2> QED
    BY <1>3, <2>1 DEF ClientsInv
<1>5. AttachedIn(client') = AttachedIn(h) /\ HoldersIn(client') = HoldersIn(h)
  <2>1. \A c \in Clients: client'[c].m_Registered <=> h[c].m_Registered
    BY <1>1, <1>2
  <2>2. \A c \in Clients: h[c].m_Registered => (client'[c].m_bLockedBySelf <=> h[c].m_bLockedBySelf)
    BY <1>1
  <2> QED
    BY <2>1, <2>2 DEF AttachedIn, HoldersIn
<1>6. port' = p
  BY DEF Propagate
<1>7. ASSUME NEW c \in Clients, h[c].m_Registered
      PROVE  told'[c] = Remembered(u(c))
  <2>1. StatusOf(u(c)) = Remembered(u(c))
    BY <1>1, <1>7 DEF StatusOf, Remembered
  <2>2. CASE Delivers(h[c], p)
    BY <1>7, <2>1, <2>2 DEF Propagate, u
  <2>3. CASE ~Delivers(h[c], p)
    <3>1. told'[c] = told[c]
      BY <1>7, <2>3 DEF Propagate
    <3>2. /\ ~h[c].m_bDeliverInitialState
          /\ h[c].m_bAlive = u(c).m_bAlive
          /\ h[c].m_bLastLockedBySelf = u(c).m_bLastLockedBySelf
          /\ h[c].m_bLastLockedByOthers = u(c).m_bLastLockedByOthers
      BY <2>3 DEF Delivers, u
    <3>3. told[c] = Remembered(h[c])
      BY <1>7, <3>2 DEF Telling
    <3> QED
      BY <3>1, <3>2, <3>3 DEF Remembered
  <2> QED
    BY <2>2, <2>3
<1>8. told' \in [Clients -> Status]
  <2>1. ASSUME NEW c \in Clients PROVE told'[c] \in Status
    <3>1. CASE h[c].m_Registered
      <4>1. u(c) \in ClientType /\ told'[c] = Remembered(u(c))
        BY <1>1, <1>7, <3>1
      <4> QED
        BY <4>1 DEF Remembered, Status, ClientType
    <3>2. CASE ~h[c].m_Registered
      BY <3>2, NoPortFacts DEF Propagate
    <3> QED
      BY <3>1, <3>2
  <2> QED
    BY <2>1 DEF Propagate
<1>9. Informed(p, client', told')
  BY <1>1, <1>2, <1>7, NoPortFacts DEF Informed
<1>10. Counted(p, client')
  BY <1>5 DEF Counted
<1> QED
  BY <1>4, <1>5, <1>6, <1>8, <1>9, <1>10
     DEF IInv, Attached, Holders, AttachedIn, HoldersIn, PortInv, ClientsInv, Counted, Informed,
         OperationsOf, StaleIn

(* The port is stopped and its clients are closed.                         *)
LEMMA StopInv ==
  ASSUME StopClients, failure' \in {"none", "cancel_on_closed_port", "write_in_progress"}
  PROVE  IInv' /\ Attached' = {} /\ Holders' = {}
<1>1. ClientsInv(client') /\ AttachedIn(client') = {} /\ Counted(port', client')
  BY NobodyFacts DEF StopClients
<1>2. Informed(port', client', told')
  BY <1>1 DEF Informed, AttachedIn
<1>3. PortInv(port') /\ told' \in [Clients -> Status]
  BY NoPortFacts DEF StopClients
<1>4. HoldersIn(client') = {}
  BY <1>1 DEF HoldersIn
<1> QED
  BY <1>1, <1>2, <1>3, <1>4
     DEF IInv, Attached, Holders, AttachedIn, HoldersIn, PortInv, ClientsInv, Counted, Informed,
         OperationsOf, StaleIn

(* The process ends, or nothing happens.                                   *)
LEMMA KeptInv ==
  ASSUME IInv, UNCHANGED <<port, client, told>>,
         failure' \in {"none", "cancel_on_closed_port", "write_in_progress"}
  PROVE  IInv'
  BY DEF IInv, PortInv, ClientsInv, Counted, Informed, AttachedIn, HoldersIn, OperationsOf, StaleIn

\* What a handler that reopens, suspends or stops the port leaves behind.
Ends(attached, holders) ==
  \/ Attached' = attached /\ Holders' = holders
  \/ Attached' = {} /\ Holders' = {}
  \/ UNCHANGED <<port, client, told>>

\* A port that can be opened.
Closed(p) ==
  /\ p \in PortType
  /\ p.m_Registered /\ p.m_NbrOfLocks = 0
  /\ p.reads = 0 /\ p.writes = 0 /\ p.writing = FALSE

(* The completions to come are counted kind by kind.                       *)
LEMMA StaleCountFacts ==
  ASSUME NEW s, \A k \in Completions: s[k] \in Nat
  PROVE  /\ StaleCount(s) \in Nat
         /\ \A k \in Completions: s[k] <= StaleCount(s)
<1>1. /\ s["read_aborted"] \in Nat /\ s["read_done"] \in Nat
      /\ s["write_aborted"] \in Nat /\ s["write_partly"] \in Nat /\ s["write_done"] \in Nat
  BY Zenon DEF Completions
<1>2. StaleCount(s) \in Nat
  BY <1>1 DEF StaleCount
<1>3. /\ s["read_aborted"] <= StaleCount(s) /\ s["read_done"] <= StaleCount(s)
      /\ s["write_aborted"] <= StaleCount(s) /\ s["write_partly"] <= StaleCount(s)
      /\ s["write_done"] <= StaleCount(s)
  BY <1>1 DEF StaleCount
<1>4. \A k \in Completions: s[k] <= StaleCount(s)
  BY <1>3, Zenon DEF Completions
<1> QED
  BY <1>2, <1>4

(* A port that is opened has one more read and one more write.             *)
LEMMA OpenedPortInv ==
  ASSUME NEW p, Closed(p), OperationsOf(p) + 2 <= MaxOperations,
         NEW q, q = [p EXCEPT !.open = TRUE, !.m_bStarted = TRUE, !.alive = FALSE,
                              !.writing = TRUE, !.reads = @ + 1, !.writes = @ + 1,
                              !.overlapped = @ \/ StaleIn(p)]
  PROVE  PortInv(q) /\ q.m_NbrOfLocks = p.m_NbrOfLocks /\ q.m_Registered = p.m_Registered
<1>1. p \in PortType /\ MaxOperations \in Nat /\ MaxOperations >= 2
  BY ConstantsAssumption DEF Closed
<1>2. StaleIn(p) \in BOOLEAN
  BY DEF StaleIn
<1>3. 1 \in 0..MaxOperations
  BY <1>1
<1>4. q = [p EXCEPT !.open = TRUE, !.m_bStarted = TRUE, !.alive = FALSE, !.writing = TRUE,
                    !.reads = 1, !.writes = 1, !.overlapped = p.overlapped \/ StaleIn(p)]
  BY <1>1 DEF Closed, PortType
<1> DEFINE overlap == p.overlapped \/ StaleIn(p)
<1>5. overlap \in BOOLEAN
  OBVIOUS
<1> HIDE DEF overlap
<1>6. q = [p EXCEPT !.open = TRUE, !.m_bStarted = TRUE, !.alive = FALSE, !.writing = TRUE,
                    !.reads = 1, !.writes = 1, !.overlapped = overlap]
  BY <1>4 DEF overlap
<1>7. q \in PortType
  BY <1>1, <1>3, <1>5, <1>6 DEF PortType
<1>8. /\ q.m_Registered = p.m_Registered /\ q.m_NbrOfLocks = p.m_NbrOfLocks
      /\ q.open = TRUE /\ q.m_bStarted = TRUE /\ q.alive = FALSE /\ q.writing = TRUE
      /\ q.reads = 1 /\ q.writes = 1 /\ q.overlapped = overlap /\ q.stale = p.stale
  BY <1>1, <1>6 DEF PortType
<1>9. StaleIn(q) => q.overlapped
  BY <1>8 DEF StaleIn, overlap
<1>10. OperationsOf(q) <= MaxOperations
  <2>1. StaleCount(p.stale) \in Nat
    BY <1>1, StaleCountFacts DEF PortType
  <2> QED
    BY <1>1, <1>8, <2>1 DEF OperationsOf, Closed
<1>11. q.open = (q.m_Registered /\ q.m_NbrOfLocks = 0)
  BY <1>8 DEF Closed
<1>12. q.reads > 0 /\ q.reads <= 1 /\ q.writes = IF q.writing THEN 1 ELSE 0
  BY <1>8
<1> QED
  BY <1>7, <1>8, <1>9, <1>10, <1>11, <1>12 DEF PortInv, Closed

(* OpenSerialPort informs the clients of the open port, gives them up, or  *)
(* ends the process.                                                       *)
LEMMA OpenSerialPortInv ==
  ASSUME IInv, NEW p, NEW h, Closed(p), OperationsOf(p) + 2 <= MaxOperations,
         ClientsInv(h), Counted(p, h), Telling(h, told), OpenSerialPort(p, h)
  PROVE  IInv' /\ Ends(AttachedIn(h), HoldersIn(h))
<1> DEFINE q == [p EXCEPT !.open = TRUE, !.m_bStarted = TRUE, !.alive = FALSE,
                          !.writing = TRUE, !.reads = @ + 1, !.writes = @ + 1,
                          !.overlapped = @ \/ StaleIn(p)]
<1>1. CASE WriteInProgress
  BY <1>1, KeptInv DEF WriteInProgress, Ends
<1>2. CASE p.m_SendBufferOffset = 0 /\ Propagate(q, h) /\ UNCHANGED failure
  <2>1. PortInv(q) /\ q.m_NbrOfLocks = p.m_NbrOfLocks /\ q.m_Registered = p.m_Registered
    BY OpenedPortInv
  <2> HIDE DEF q
  <2>2. Counted(q, h)
    BY <2>1 DEF Counted
  <2> QED
    BY <1>2, <2>1, <2>2, PropagateInv DEF Ends
<1>3. CASE StopClients /\ UNCHANGED failure
  BY <1>3, StopInv DEF Ends, IInv
<1> QED
  BY <1>1, <1>2, <1>3 DEF OpenSerialPort

(* The operations of a port that is closed become completions to come.     *)
LEMMA ClosedPortInv ==
  ASSUME NEW p, PortInv(p), p.open, NEW l, l = [p EXCEPT !.m_NbrOfLocks = @ + 1],
         1 <= Cardinality(Clients), NEW n \in Interrupted(l)
  PROVE  LET q == ClosePort(l, n)
         IN PortInv(q) /\ q.m_NbrOfLocks = 1 /\ q.m_Registered
<1> DEFINE q == ClosePort(l, n)
           added(k) == CASE k = "read_aborted" -> l.reads - n["read_done"]
                         [] k = "write_aborted" -> l.writes - n["write_partly"] - n["write_done"]
                         [] OTHER -> n[k]
           stale == [k \in Completions |-> p.stale[k] + added(k)]
<1>1. /\ p \in PortType /\ p.m_NbrOfLocks = 0 /\ p.m_Registered
      /\ OperationsOf(p) <= MaxOperations /\ MaxOperations \in Nat
      /\ Cardinality(Clients) \in Nat
  BY ConstantsAssumption, HoldersFinite DEF PortInv
<1>2. l = [p EXCEPT !.m_NbrOfLocks = 1]
  BY <1>1 DEF PortType
<1>3. l.reads = p.reads /\ l.writes = p.writes /\ l.stale = p.stale /\ l.m_Registered
  BY <1>1, <1>2 DEF PortType
<1>4. /\ n["read_done"] \in Nat /\ n["write_partly"] \in Nat /\ n["write_done"] \in Nat
      /\ n["read_done"] <= p.reads /\ n["write_partly"] + n["write_done"] <= p.writes
  <2> DEFINE K == {"read_done", "write_partly", "write_done"}
  <2>1. /\ n \in [K -> 0..MaxOperations]
        /\ n["read_done"] <= p.reads /\ n["write_partly"] + n["write_done"] <= p.writes
    BY <1>3 DEF Interrupted
  <2>2. "read_done" \in K /\ "write_partly" \in K /\ "write_done" \in K
    OBVIOUS
  <2> HIDE DEF K
  <2> QED
    BY <1>1, <2>1, <2>2
<1>5. /\ p.reads \in Nat /\ p.writes \in Nat
      /\ \A k \in Completions: p.stale[k] \in Nat
  BY <1>1 DEF PortType
<1>6. /\ stale["read_aborted"] = p.stale["read_aborted"] + (p.reads - n["read_done"])
      /\ stale["read_done"] = p.stale["read_done"] + n["read_done"]
      /\ stale["write_aborted"] = p.stale["write_aborted"] + (p.writes - n["write_partly"] - n["write_done"])
      /\ stale["write_partly"] = p.stale["write_partly"] + n["write_partly"]
      /\ stale["write_done"] = p.stale["write_done"] + n["write_done"]
  BY <1>3 DEF Completions
<1>61. /\ p.stale["read_aborted"] \in Nat /\ p.stale["read_done"] \in Nat
       /\ p.stale["write_aborted"] \in Nat /\ p.stale["write_partly"] \in Nat
       /\ p.stale["write_done"] \in Nat
  BY <1>5, Zenon DEF Completions
<1> HIDE DEF stale
<1>62. /\ stale["read_aborted"] \in Nat /\ stale["read_done"] \in Nat
       /\ stale["write_aborted"] \in Nat /\ stale["write_partly"] \in Nat
       /\ stale["write_done"] \in Nat
  BY <1>4, <1>5, <1>6, <1>61
<1>7. \A k \in Completions: stale[k] \in Nat
  BY <1>62, Zenon DEF Completions
<1>8. StaleCount(stale) = StaleCount(p.stale) + p.reads + p.writes
  BY <1>4, <1>5, <1>6, <1>61 DEF StaleCount
<1>9. StaleCount(stale) <= MaxOperations
  <2>1. StaleCount(p.stale) \in Nat
    BY <1>5, StaleCountFacts
  <2> QED
    BY <1>1, <1>5, <1>8, <2>1 DEF OperationsOf
<1>10. stale \in [Completions -> 0..MaxOperations]
  <2>1. \A k \in Completions: stale[k] <= MaxOperations
    <3>1. StaleCount(stale) \in Nat /\ \A k \in Completions: stale[k] <= StaleCount(stale)
      BY <1>7, StaleCountFacts
    <3> QED
      BY <1>1, <1>7, <1>9, <3>1
  <2>2. stale = [k \in Completions |-> stale[k]]
    BY DEF stale
  <2> QED
    BY <1>1, <1>7, <2>1, <2>2
<1>11. q = [p EXCEPT !.m_NbrOfLocks = 1, !.m_bStarted = FALSE, !.alive = FALSE, !.open = FALSE,
                     !.writing = FALSE, !.reads = 0, !.writes = 0, !.stale = stale]
  <2>1. p.stale \in [Completions -> 0..MaxOperations]
    BY <1>1 DEF PortType
  <2>2. [k \in Completions |-> l.stale[k] + added(k)] = stale
    BY <1>3 DEF stale
  <2> QED
    BY <1>1, <1>2, <1>3, <2>1, <2>2 DEF ClosePort, PortType
<1> HIDE DEF q
<1>12. q \in PortType
  <2>1. 1 \in 0..Cardinality(Clients) /\ 0 \in 0..MaxOperations
    BY <1>1
  <2> DEFINE counts == [p EXCEPT !.m_NbrOfLocks = 1, !.reads = 0, !.writes = 0, !.stale = stale]
  <2>2. counts \in PortType
    BY <1>1, <1>10, <2>1 DEF PortType
  <2>3. q = [counts EXCEPT !.m_bStarted = FALSE, !.alive = FALSE, !.open = FALSE, !.writing = FALSE]
    BY <1>1, <1>11 DEF PortType
  <2> HIDE DEF counts
  <2> QED
    BY <2>2, <2>3 DEF PortType
<1>13. /\ q.m_NbrOfLocks = 1 /\ q.m_Registered = TRUE /\ q.m_bStarted = FALSE /\ q.open = FALSE
       /\ q.alive = FALSE /\ q.writing = FALSE /\ q.reads = 0 /\ q.writes = 0 /\ q.stale = stale
  BY <1>1, <1>11 DEF PortType
<1>14. OperationsOf(q) <= MaxOperations
  <2>1. StaleCount(stale) \in Nat
    BY <1>7, StaleCountFacts
  <2> QED
    BY <1>9, <1>13, <2>1 DEF OperationsOf
<1>15. q.open = (q.m_Registered /\ q.m_NbrOfLocks = 0)
  <2>1. q.m_NbrOfLocks # 0
    BY <1>13
  <2> QED
    BY <1>13, <2>1, Zenon
<1>16. q.reads <= 1 /\ q.writes = IF q.writing THEN 1 ELSE 0
  BY <1>13
<1>17. PortInv(q)
  <2>1. q.m_bStarted = q.open /\ ~q.open /\ ~q.writing /\ ~q.alive /\ q.m_Registered
    BY <1>13
  <2>2. ~(q.reads > 0) /\ q.writes = 0 /\ q.m_NbrOfLocks # 0
    BY <1>13
  <2> QED
    BY <1>12, <1>14, <1>15, <1>16, <2>1, <2>2 DEF PortInv
<1> QED
  BY <1>13, <1>17 DEF q

(* A locked port is locked and released once more without being opened.    *)
LEMMA LockedPortInv ==
  ASSUME NEW p, PortInv(p), p.m_NbrOfLocks > 0, p.m_Registered,
         NEW l \in 1..Cardinality(Clients), NEW q, q = [p EXCEPT !.m_NbrOfLocks = l]
  PROVE  PortInv(q) /\ q.m_NbrOfLocks = l /\ q.m_Registered = p.m_Registered
<1>1. p \in PortType /\ Cardinality(Clients) \in Nat /\ MaxOperations \in Nat
  BY ConstantsAssumption, HoldersFinite DEF PortInv
<1>2. l \in 0..Cardinality(Clients) /\ l # 0 /\ p.m_NbrOfLocks # 0
  BY <1>1 DEF PortType
<1>3. q \in PortType
  BY <1>1, <1>2 DEF PortType
<1>4. /\ q.m_Registered = p.m_Registered /\ q.m_NbrOfLocks = l
      /\ q.open = p.open /\ q.m_bStarted = p.m_bStarted /\ q.alive = p.alive
      /\ q.writing = p.writing /\ q.reads = p.reads /\ q.writes = p.writes
      /\ q.stale = p.stale /\ q.overlapped = p.overlapped
  BY <1>1 DEF PortType
<1>5. q.open = (q.m_Registered /\ q.m_NbrOfLocks = 0)
  BY <1>2, <1>4 DEF PortInv
<1>6. /\ q.m_bStarted = q.open /\ (q.reads > 0 <=> q.open)
      /\ ~q.open => q.writes = 0 /\ ~q.writing /\ ~q.alive
      /\ q.overlapped \/ (q.reads <= 1 /\ q.writes = IF q.writing THEN 1 ELSE 0)
      /\ OperationsOf(q) <= MaxOperations
  BY <1>4 DEF PortInv, OperationsOf
<1> QED
  BY <1>2, <1>3, <1>4, <1>5, <1>6 DEF PortInv

(* A suspended port is the port it was, or closed for the first lock.      *)
LEMMA SuspendSerialPortInv ==
  ASSUME IInv, NEW h, port.m_Registered, AttachedIn(h) # {}, ClientsInv(h), Telling(h, told),
         Cardinality(HoldersIn(h)) = port.m_NbrOfLocks + 1, SuspendSerialPort(h)
  PROVE  IInv' /\ Ends(AttachedIn(h), HoldersIn(h))
<1> DEFINE p == [port EXCEPT !.m_NbrOfLocks = @ + 1]
<1>1. /\ PortInv(port) /\ port \in PortType /\ port.m_NbrOfLocks \in Nat
      /\ port.m_NbrOfLocks + 1 <= Cardinality(Clients) /\ Cardinality(Clients) \in Nat
  BY HoldersFinite DEF IInv, PortInv, PortType
<1>2. p.m_NbrOfLocks = port.m_NbrOfLocks + 1
  BY <1>1 DEF PortType
<1>3. CASE p.m_NbrOfLocks = 1
  <2>1. PICK n \in Interrupted(p): Propagate(ClosePort(p, n), h) /\ UNCHANGED failure
    BY <1>3 DEF SuspendSerialPort
  <2>2. port.m_NbrOfLocks = 0 /\ 1 <= Cardinality(Clients)
    BY <1>1, <1>2, <1>3
  <2>3. port.open
    BY <1>1, <2>2 DEF PortInv
  <2> DEFINE q == ClosePort(p, n)
  <2>4. PortInv(q) /\ q.m_NbrOfLocks = 1 /\ q.m_Registered
    BY <1>1, <2>2, <2>3, ClosedPortInv
  <2> HIDE DEF q
  <2>5. Counted(q, h)
    BY <2>2, <2>4 DEF Counted
  <2>6. Propagate(q, h)
    BY <2>1 DEF q
  <2> QED
    BY <2>1, <2>4, <2>5, <2>6, PropagateInv DEF Ends
<1>4. CASE p.m_NbrOfLocks # 1
  <2>1. Propagate(p, h) /\ UNCHANGED failure
    BY <1>4 DEF SuspendSerialPort
  <2>2. port.m_NbrOfLocks > 0 /\ port.m_NbrOfLocks + 1 \in 1..Cardinality(Clients)
    BY <1>1, <1>2, <1>4
  <2>3. PortInv(p) /\ p.m_Registered
    BY <1>1, <2>2, LockedPortInv
  <2> HIDE DEF p
  <2>4. Counted(p, h)
    BY <1>2, <2>3 DEF Counted
  <2> QED
    BY <2>1, <2>3, <2>4, PropagateInv DEF Ends
<1> QED
  BY <1>3, <1>4

(* The last lock that is released opens the port.                          *)
LEMMA ResumeSerialPortInv ==
  ASSUME IInv, NEW h, port.m_Registered, AttachedIn(h) # {}, ClientsInv(h), Telling(h, told),
         port.m_NbrOfLocks > 0, Cardinality(HoldersIn(h)) = port.m_NbrOfLocks - 1,
         Resumes, ResumeSerialPort(h)
  PROVE  IInv' /\ Ends(AttachedIn(h), HoldersIn(h))
<1> DEFINE p == [port EXCEPT !.m_NbrOfLocks = @ - 1]
<1>1. /\ PortInv(port) /\ port \in PortType /\ port.m_NbrOfLocks \in 0..Cardinality(Clients)
      /\ Cardinality(Clients) \in Nat
  BY HoldersFinite DEF IInv, PortInv, PortType
<1>2. /\ p.m_NbrOfLocks = port.m_NbrOfLocks - 1 /\ p.m_Registered /\ p.reads = port.reads
      /\ p.writes = port.writes /\ p.writing = port.writing /\ p.stale = port.stale
  BY <1>1 DEF PortType
<1>3. CASE p.m_NbrOfLocks = 0
  <2>1. OpenSerialPort(p, h)
    BY <1>3 DEF ResumeSerialPort
  <2>2. ~port.open
    <3>1. port.m_NbrOfLocks # 0
      BY <1>1
    <3> QED
      BY <1>1, <3>1 DEF PortInv
  <2>3. ~(port.reads > 0) /\ port.writes = 0 /\ ~port.writing
    BY <1>1, <2>2 DEF PortInv
  <2>4. port.reads = 0 /\ port.writing = FALSE
    <3>1. port.reads \in 0..MaxOperations /\ port.writing \in BOOLEAN
      BY <1>1 DEF PortType
    <3>2. port.reads = 0
      BY <2>3, <3>1, ConstantsAssumption
    <3>3. port.writing = FALSE
      BY <2>3, <3>1
    <3> QED
      BY <3>2, <3>3
  <2>5. p \in PortType
    BY <1>1, <1>2, <1>3 DEF PortType
  <2>6. OperationsOf(p) + 2 <= MaxOperations
    BY <1>2 DEF Resumes, Operations, OperationsOf
  <2> HIDE DEF p
  <2>7. Closed(p)
    BY <1>2, <1>3, <2>3, <2>4, <2>5 DEF Closed
  <2>8. Counted(p, h)
    BY <1>2 DEF Counted
  <2> QED
    BY <2>1, <2>6, <2>7, <2>8, OpenSerialPortInv
<1>4. CASE p.m_NbrOfLocks # 0
  <2>1. Propagate(p, h) /\ UNCHANGED failure
    BY <1>4 DEF ResumeSerialPort
  <2>2. port.m_NbrOfLocks - 1 \in 1..Cardinality(Clients)
    BY <1>1, <1>2, <1>4
  <2>3. PortInv(p)
    BY <1>1, <2>2, LockedPortInv
  <2> HIDE DEF p
  <2>4. Counted(p, h)
    BY <1>2 DEF Counted
  <2> QED
    BY <2>1, <2>3, <2>4, PropagateInv DEF Ends
<1> QED
  BY <1>3, <1>4

(* Stopping a port closes the clients or ends the process.                 *)
LEMMA StopPortInv ==
  ASSUME IInv, StopPort
  PROVE  IInv' /\ Ends({}, {})
<1>1. CASE port.open
  BY <1>1, StopInv DEF StopPort, Ends, IInv
<1>2. CASE ~port.open
  BY <1>2, KeptInv DEF StopPort, Ends
<1> QED
  BY <1>1, <1>2

-----------------------------------------------------------------------------
(* Steps that tell nobody anything.                                        *)

\* The guards of a client do not move.
SameGuards(r, s) ==
  /\ s.m_Registered = r.m_Registered
  /\ s.m_bLockedBySelf = r.m_bLockedBySelf
  /\ s.m_bLastLockedBySelf = r.m_bLastLockedBySelf
  /\ s.m_bLastLockedByOthers = r.m_bLastLockedByOthers
  /\ s.m_bAlive = r.m_bAlive
  /\ s.m_bDeliverInitialState = r.m_bDeliverInitialState

\* The port does not move its locks, and is not brought to life.
SameLocks(p, q) ==
  /\ q.m_Registered = p.m_Registered
  /\ q.m_NbrOfLocks = p.m_NbrOfLocks
  /\ q.alive => p.alive

(* Clients whose guards do not move are attached, locked and told as they  *)
(* were.                                                                   *)
LEMMA SameGuardsFacts ==
  ASSUME NEW g, NEW h, \A c \in Clients: SameGuards(g[c], h[c])
  PROVE  AttachedIn(h) = AttachedIn(g) /\ HoldersIn(h) = HoldersIn(g)
  BY DEF SameGuards, AttachedIn, HoldersIn

(* A step that moves neither the guards nor the locks keeps the invariant. *)
LEMMA QuietInv ==
  ASSUME IInv, UNCHANGED <<told, failure>>, PortInv(port'), SameLocks(port, port'),
         ClientsInv(client'), \A c \in Clients: SameGuards(client[c], client'[c])
  PROVE  IInv' /\ UNCHANGED <<Attached, Holders>>
<1>1. AttachedIn(client') = AttachedIn(client) /\ HoldersIn(client') = HoldersIn(client)
  BY SameGuardsFacts
<1>2. Counted(port', client')
  BY <1>1 DEF IInv, Counted, SameLocks
<1>3. Informed(port', client', told')
  <2> SUFFICES ASSUME NEW c \in Clients, client'[c].m_Registered
               PROVE  /\ ~client'[c].m_bDeliverInitialState
                      /\ told'[c] = Remembered(client'[c])
                      /\ client'[c].m_bLastLockedBySelf = client'[c].m_bLockedBySelf
                      /\ client'[c].m_bLastLockedByOthers =
                           (port'.m_NbrOfLocks > (IF client'[c].m_bLockedBySelf THEN 1 ELSE 0))
                      /\ port'.alive => client'[c].m_bAlive
    BY DEF Informed
  <2>1. SameGuards(client[c], client'[c]) /\ client[c].m_Registered
    BY DEF SameGuards
  <2>2. /\ ~client[c].m_bDeliverInitialState
        /\ told[c] = Remembered(client[c])
        /\ client[c].m_bLastLockedBySelf = client[c].m_bLockedBySelf
        /\ client[c].m_bLastLockedByOthers =
             (port.m_NbrOfLocks > (IF client[c].m_bLockedBySelf THEN 1 ELSE 0))
        /\ port.alive => client[c].m_bAlive
    BY <2>1 DEF IInv, Informed
  <2>3. Remembered(client'[c]) = Remembered(client[c])
    BY <2>1 DEF SameGuards, Remembered
  <2> QED
    BY <2>1, <2>2, <2>3 DEF SameGuards, SameLocks
<1> QED
  BY <1>1, <1>2, <1>3
     DEF IInv, Attached, Holders, AttachedIn, HoldersIn, PortInv, ClientsInv, Counted, Informed,
         OperationsOf, StaleIn

(* The same for a step of the port alone.                                  *)
LEMMA QuietPortInv ==
  ASSUME IInv, UNCHANGED <<client, told, failure>>, PortInv(port'), SameLocks(port, port')
  PROVE  IInv' /\ UNCHANGED <<Attached, Holders>>
<1>1. \A c \in Clients: SameGuards(client[c], client'[c])
  BY DEF SameGuards
<1>2. ClientsInv(client')
  BY DEF IInv, ClientsInv
<1> QED
  BY <1>1, <1>2, QuietInv

(* A packet enters or leaves the queues.                                   *)
LEMMA QueuedPortInv ==
  ASSUME NEW p, PortInv(p), p.m_Registered, NEW k \in 0..MaxQueue,
         NEW q, q = [p EXCEPT !.queued = k]
  PROVE  PortInv(q) /\ SameLocks(p, q)
<1>1. p \in PortType
  BY DEF PortInv
<1>2. q \in PortType
  BY <1>1 DEF PortType
<1>3. /\ q.m_Registered = p.m_Registered /\ q.m_NbrOfLocks = p.m_NbrOfLocks
      /\ q.open = p.open /\ q.m_bStarted = p.m_bStarted /\ q.alive = p.alive
      /\ q.writing = p.writing /\ q.reads = p.reads /\ q.writes = p.writes
      /\ q.stale = p.stale /\ q.overlapped = p.overlapped
  BY <1>1 DEF PortType
<1> QED
  BY <1>2, <1>3 DEF PortInv, SameLocks, OperationsOf, StaleIn

(* The device comes to life on an open port, or is given up.               *)
LEMMA AlivePortInv ==
  ASSUME NEW p, PortInv(p), NEW b \in BOOLEAN, b => p.open, p.m_Registered,
         NEW q, q = [p EXCEPT !.alive = b]
  PROVE  /\ PortInv(q) /\ q.m_Registered = p.m_Registered /\ q.m_NbrOfLocks = p.m_NbrOfLocks
         /\ q.alive = b
<1>1. p \in PortType
  BY DEF PortInv
<1>2. q \in PortType
  BY <1>1 DEF PortType
<1>3. /\ q.m_Registered = p.m_Registered /\ q.m_NbrOfLocks = p.m_NbrOfLocks
      /\ q.open = p.open /\ q.m_bStarted = p.m_bStarted /\ q.alive = b
      /\ q.writing = p.writing /\ q.reads = p.reads /\ q.writes = p.writes
      /\ q.stale = p.stale /\ q.overlapped = p.overlapped
  BY <1>1 DEF PortType
<1> QED
  BY <1>2, <1>3 DEF PortInv, OperationsOf, StaleIn

(* An open port has a handler.                                             *)
LEMMA OpenPortFacts ==
  ASSUME NEW p, PortInv(p)
  PROVE  /\ p \in PortType /\ MaxOperations \in Nat
         /\ p.open => p.m_Registered /\ p.m_NbrOfLocks = 0 /\ p.m_bStarted
         /\ p.m_bStarted => p.open
         /\ p.alive => p.open
         /\ (p.m_NbrOfLocks = 0 /\ p.m_Registered) => p.open
  BY ConstantsAssumption DEF PortInv

-----------------------------------------------------------------------------
(* The calls of ProtocolState and the completion handlers.                 *)

(* A frame is handed over: one more write is outstanding.                  *)
LEMMA TransmitHDLCFrameInv ==
  ASSUME IInv, TransmitHDLCFrame
  PROVE  IInv' /\ UNCHANGED <<Attached, Holders>>
<1>1. CASE port.m_SendBufferOffset # 0
  <2>1. IInv'
    BY <1>1, KeptInv DEF TransmitHDLCFrame, WriteInProgress
  <2> QED
    BY <1>1, <2>1 DEF TransmitHDLCFrame, WriteInProgress, Attached, Holders
<1>2. CASE port.m_SendBufferOffset = 0
  <2>1. /\ port' = [port EXCEPT !.writing = TRUE, !.writes = @ + 1]
        /\ UNCHANGED <<client, told, failure>>
        /\ port.m_bStarted /\ ~port.writing /\ Operations < MaxOperations
    BY <1>2 DEF TransmitHDLCFrame
  <2>2. PortInv(port) /\ port \in PortType /\ MaxOperations \in Nat /\ port.open
    BY <2>1, OpenPortFacts DEF IInv
  <2>3. /\ port.reads \in Nat /\ port.writes \in Nat /\ StaleCount(port.stale) \in Nat
    BY <2>2, StaleCountFacts DEF PortType
  <2>4. OperationsOf(port) < MaxOperations /\ port.writes + 1 \in 0..MaxOperations
    BY <2>1, <2>2, <2>3 DEF Operations, OperationsOf
  <2> DEFINE q == [port EXCEPT !.writing = TRUE, !.writes = port.writes + 1]
  <2>5. q \in PortType
    BY <2>2, <2>4 DEF PortType
  <2>6. /\ q.m_Registered = port.m_Registered /\ q.m_NbrOfLocks = port.m_NbrOfLocks
        /\ q.open = port.open /\ q.m_bStarted = port.m_bStarted /\ q.alive = port.alive
        /\ q.writing = TRUE /\ q.reads = port.reads /\ q.writes = port.writes + 1
        /\ q.stale = port.stale /\ q.overlapped = port.overlapped
    BY <2>2 DEF PortType
  <2>7. port' = q
    BY <2>1
  <2> HIDE DEF q
  <2>8. OperationsOf(q) <= MaxOperations
    BY <2>2, <2>3, <2>4, <2>6 DEF OperationsOf
  <2>9. q.overlapped \/ (q.reads <= 1 /\ q.writes = IF q.writing THEN 1 ELSE 0)
    BY <2>1, <2>2, <2>6 DEF PortInv
  <2>10. PortInv(q) /\ SameLocks(port, q)
    BY <2>2, <2>5, <2>6, <2>8, <2>9, OpenPortFacts DEF PortInv, SameLocks, StaleIn
  <2> QED
    BY <2>1, <2>7, <2>10, QuietPortInv
<1> QED
  BY <1>1, <1>2

(* The pending packets that suit the query leave their clients, and every  *)
(* client without one is asked for the next.                               *)
LEMMA QueryForPayloadInv ==
  ASSUME IInv, NEW reliable, QueryForPayload(reliable)
  PROVE  IInv' /\ UNCHANGED <<Attached, Holders>>
<1> DEFINE delivering == {c \in Attached: Suits(client[c], reliable)}
           n == Cardinality(delivering)
           takes(c) == [client[c] EXCEPT !.m_PendingIncomingPacketData = Nothing, !.receiving = TRUE]
           asks(c) == [client[c] EXCEPT !.m_bSerialPortHandlerAwaitsPacket = TRUE, !.receiving = TRUE]
<1>1. /\ port.m_bStarted /\ port.queued + n <= MaxQueue
      /\ port' = [port EXCEPT !.queued = port.queued + n]
      /\ UNCHANGED <<told, failure>>
  BY DEF QueryForPayload
<1>2. PortInv(port') /\ SameLocks(port, port')
  <2>1. n \in Nat
    <3>1. delivering \subseteq Clients
      BY DEF Attached
    <3> QED
      BY <3>1, ConstantsAssumption, FS_Subset, FS_CardinalityType
  <2>2. port.m_Registered /\ port.queued \in 0..MaxQueue /\ MaxQueue \in Nat /\ PortInv(port)
    BY <1>1, OpenPortFacts, ConstantsAssumption DEF IInv, PortType
  <2>3. port.queued + n \in 0..MaxQueue
    BY <1>1, <2>1, <2>2
  <2> QED
    BY <1>1, <2>2, <2>3, QueuedPortInv
<1>3. client' = [c \in Clients |->
          CASE c \in delivering -> takes(c)
            [] c \in Attached /\ client[c].m_PendingIncomingPacketData = Nothing -> asks(c)
            [] OTHER -> client[c]]
  BY DEF QueryForPayload
<1>31. \A c \in delivering: c \in Attached /\ client[c].m_PendingIncomingPacketData # Nothing
  BY DEF Suits, Nothing
<1> HIDE DEF delivering, takes, asks
<1>4. ASSUME NEW c \in Clients
      PROVE  /\ client'[c] \in ClientType
             /\ SameGuards(client[c], client'[c])
             /\ IF client'[c].m_Registered THEN Stalled(client'[c]) ELSE client'[c] = NoClient
  <2>1. /\ client[c] \in ClientType
        /\ IF client[c].m_Registered THEN Stalled(client[c]) ELSE client[c] = NoClient
    BY DEF IInv, ClientsInv
  <2>2. CASE c \in delivering
    <3>1. client'[c] = takes(c)
      BY <1>3, <1>31, <2>2
    <3>2. client[c].m_Registered
      BY <1>31, <2>2 DEF Attached
    <3> QED
      BY <2>1, <3>1, <3>2 DEF takes, ClientType, SameGuards, Stalled
  <2>3. CASE c \notin delivering /\ c \in Attached /\ client[c].m_PendingIncomingPacketData = Nothing
    <3>1. client'[c] = asks(c) /\ client[c].m_Registered
      BY <1>3, <2>3 DEF Attached
    <3> QED
      BY <2>1, <2>3, <3>1 DEF asks, ClientType, SameGuards, Stalled
  <2>4. CASE c \notin delivering /\ ~(c \in Attached /\ client[c].m_PendingIncomingPacketData = Nothing)
    <3>1. client'[c] = client[c]
      BY <1>3, <2>4
    <3> QED
      BY <2>1, <3>1 DEF SameGuards
  <2> QED
    BY <2>2, <2>3, <2>4
<1>5. ClientsInv(client')
  <2>1. client' \in [Clients -> ClientType]
    BY <1>3, <1>4
  <2> QED
    BY <1>4, <2>1 DEF ClientsInv
<1> QED
  BY <1>1, <1>2, <1>4, <1>5, QuietInv

(* A packet leaves the queues.                                             *)
LEMMA UnqueueInv ==
  ASSUME IInv, Unqueue
  PROVE  IInv' /\ UNCHANGED <<Attached, Holders>>
<1>1. /\ port' = [port EXCEPT !.queued = port.queued - 1] /\ UNCHANGED <<client, told, failure>>
      /\ port.m_bStarted /\ port.queued > 0
  BY DEF Unqueue
<1>2. PortInv(port) /\ port.m_Registered /\ port.queued \in 0..MaxQueue /\ MaxQueue \in Nat
  BY <1>1, OpenPortFacts, ConstantsAssumption DEF IInv, PortType
<1>3. port.queued - 1 \in 0..MaxQueue
  BY <1>1, <1>2
<1> QED
  BY <1>1, <1>2, <1>3, QueuedPortInv, QuietPortInv

(* The steps that change whether the device is alive, or tell it.          *)
LEMMA AliveInv ==
  ASSUME IInv, ReadCompletes \/ GivesUpDevice \/ ChangesBaudRate
  PROVE  IInv' /\ UNCHANGED <<Attached, Holders>>
<1>1. PortInv(port)
  BY DEF IInv
<1>2. CASE ReadCompletes
  <2> DEFINE q == [port EXCEPT !.alive = TRUE]
  <2>1. PortInv(q) /\ q.m_Registered = port.m_Registered /\ q.m_NbrOfLocks = port.m_NbrOfLocks
    BY <1>1, <1>2, OpenPortFacts, AlivePortInv DEF ReadCompletes
  <2>2. Propagate(q, client) /\ UNCHANGED failure
    BY <1>2 DEF ReadCompletes
  <2> HIDE DEF q
  <2>3. Counted(q, client)
    BY <2>1 DEF IInv, Counted
  <2> QED
    BY <2>1, <2>2, <2>3, Values, PropagateInv
<1>3. CASE GivesUpDevice
  <2>1. PortInv(port') /\ SameLocks(port, port')
    BY <1>1, <1>3, OpenPortFacts, AlivePortInv DEF GivesUpDevice, SameLocks
  <2> QED
    BY <1>3, <2>1, QuietPortInv DEF GivesUpDevice
<1>4. CASE ChangesBaudRate
  BY <1>4, Values, PropagateInv DEF ChangesBaudRate
<1> QED
  BY <1>2, <1>3, <1>4

(* A write completes, or a part of it.                                     *)
LEMMA WriteCompletesInv ==
  ASSUME IInv, WriteCompletes
  PROVE  IInv' /\ UNCHANGED <<Attached, Holders>>
<1>1. /\ PortInv(port) /\ port \in PortType /\ MaxOperations \in Nat /\ port.m_Registered
      /\ port.open /\ port.writes > 0 /\ UNCHANGED <<client, told, failure>>
  BY OpenPortFacts DEF IInv, WriteCompletes
<1>2. /\ port.reads \in Nat /\ port.writes \in 0..MaxOperations /\ StaleCount(port.stale) \in Nat
  BY <1>1, StaleCountFacts DEF PortType
<1>3. port.writes - 1 \in 0..MaxOperations
  BY <1>1, <1>2
<1>4. CASE port' = [port EXCEPT !.m_SendBufferOffset = 0, !.writes = port.writes - 1, !.writing = FALSE]
  <2> DEFINE q == [port EXCEPT !.m_SendBufferOffset = 0, !.writes = port.writes - 1, !.writing = FALSE]
  <2>1. q \in PortType
    BY <1>1, <1>3 DEF PortType
  <2>2. /\ q.m_Registered = port.m_Registered /\ q.m_NbrOfLocks = port.m_NbrOfLocks
        /\ q.open = port.open /\ q.m_bStarted = port.m_bStarted /\ q.alive = port.alive
        /\ q.writing = FALSE /\ q.reads = port.reads /\ q.writes = port.writes - 1
        /\ q.stale = port.stale /\ q.overlapped = port.overlapped
    BY <1>1 DEF PortType
  <2> HIDE DEF q
  <2>3. OperationsOf(q) <= MaxOperations
    BY <1>1, <1>2, <2>2 DEF PortInv, OperationsOf
  <2>4. q.overlapped \/ (q.reads <= 1 /\ q.writes = IF q.writing THEN 1 ELSE 0)
    BY <1>1, <1>2, <2>2 DEF PortInv
  <2>5. PortInv(q) /\ SameLocks(port, q)
    BY <1>1, <2>1, <2>2, <2>3, <2>4 DEF PortInv, SameLocks, StaleIn
  <2>6. port' = q
    BY <1>4 DEF q
  <2> QED
    BY <1>1, <2>5, <2>6, QuietPortInv
<1>5. CASE port' = [port EXCEPT !.m_SendBufferOffset = 1]
  <2> DEFINE q == [port EXCEPT !.m_SendBufferOffset = 1]
  <2>1. q \in PortType
    BY <1>1 DEF PortType
  <2>2. /\ q.m_Registered = port.m_Registered /\ q.m_NbrOfLocks = port.m_NbrOfLocks
        /\ q.open = port.open /\ q.m_bStarted = port.m_bStarted /\ q.alive = port.alive
        /\ q.writing = port.writing /\ q.reads = port.reads /\ q.writes = port.writes
        /\ q.stale = port.stale /\ q.overlapped = port.overlapped
    BY <1>1 DEF PortType
  <2> HIDE DEF q
  <2>3. PortInv(q) /\ SameLocks(port, q)
    BY <1>1, <2>1, <2>2 DEF PortInv, SameLocks, StaleIn, OperationsOf
  <2>4. port' = q
    BY <1>5 DEF q
  <2> QED
    BY <1>1, <2>3, <2>4, QuietPortInv
<1> QED
  BY <1>4, <1>5 DEF WriteCompletes

(* One completion less.                                                    *)
LEMMA StaleDecreases ==
  ASSUME NEW s \in [Completions -> 0..MaxOperations], NEW k \in Completions, s[k] > 0,
         NEW u, u = [s EXCEPT ![k] = @ - 1]
  PROVE  /\ u \in [Completions -> 0..MaxOperations]
         /\ StaleCount(u) = StaleCount(s) - 1
         /\ \A j \in Completions: u[j] <= s[j]
<1>1. MaxOperations \in Nat
  BY ConstantsAssumption
<1>2. \A j \in Completions: s[j] \in 0..MaxOperations /\ u[j] = IF j = k THEN s[j] - 1 ELSE s[j]
  OBVIOUS
<1>3. u \in [Completions -> 0..MaxOperations]
  <2>1. s[k] - 1 \in 0..MaxOperations
    BY <1>1, <1>2
  <2> QED
    BY <2>1
<1>4. /\ s["read_aborted"] \in Nat /\ s["read_done"] \in Nat
      /\ s["write_aborted"] \in Nat /\ s["write_partly"] \in Nat /\ s["write_done"] \in Nat
  BY <1>1, <1>2 DEF Completions
<1>5. StaleCount(u) = StaleCount(s) - 1
  BY <1>2, <1>4 DEF StaleCount, Completions
<1> QED
  BY <1>1, <1>2, <1>3, <1>5

(* What a suspension left behind completes, and the port is not stopped.   *)
LEMMA StaleContinuesInv ==
  ASSUME IInv, NEW k \in Completions, StaleCompletes(k),
         ~(port.m_NbrOfLocks = 0 /\ k \in {"read_aborted", "write_aborted"})
  PROVE  IInv' /\ UNCHANGED <<Attached, Holders>>
<1> DEFINE resumed == port.m_NbrOfLocks = 0
           more == IF resumed THEN 1 ELSE 0
           p == [port EXCEPT !.stale[k] = @ - 1]
           stale == [port.stale EXCEPT ![k] = @ - 1]
<1>0. UNCHANGED <<client, told, failure>> /\ port.stale[k] > 0
  BY DEF StaleCompletes
<1>01. port' = CASE k = "read_done" -> [p EXCEPT !.reads = @ + more]
                 [] k = "write_partly" -> [p EXCEPT !.m_SendBufferOffset = 1, !.writes = @ + more]
                 [] k = "write_done" -> [p EXCEPT !.m_SendBufferOffset = 0, !.writing = @ /\ ~resumed]
                 [] OTHER -> p
  BY DEF StaleCompletes
<1> HIDE DEF resumed, more
<1>1. /\ PortInv(port) /\ port \in PortType /\ MaxOperations \in Nat
      /\ port.stale \in [Completions -> 0..MaxOperations]
      /\ StaleIn(port) /\ OperationsOf(port) <= MaxOperations
  BY <1>0, OpenPortFacts DEF IInv, PortType, StaleIn, PortInv
<1>2. p = [port EXCEPT !.stale = stale]
  BY <1>1 DEF PortType
<1>3. /\ stale \in [Completions -> 0..MaxOperations]
      /\ StaleCount(stale) = StaleCount(port.stale) - 1
  BY <1>0, <1>1, StaleDecreases
<1>4. StaleCount(port.stale) \in Nat /\ StaleCount(stale) \in Nat
  BY <1>1, <1>3, StaleCountFacts
<1> HIDE DEF stale, p
<1>5. port.m_Registered
  <2>1. SUFFICES ASSUME ~port.m_Registered PROVE FALSE
    OBVIOUS
  <2>2. port = NoPort
    BY <1>1, <2>1 DEF PortInv
  <2>3. port.stale[k] = 0
    BY <2>2 DEF NoPort
  <2> QED
    BY <1>0, <2>3
<1>6. /\ resumed => port.open /\ port.overlapped /\ port.reads > 0
      /\ ~resumed => ~port.open /\ ~port.writing
  BY <1>1, <1>5 DEF PortInv, resumed
<1>7. /\ port.reads \in Nat /\ port.writes \in Nat
      /\ port.reads + port.writes + StaleCount(port.stale) <= MaxOperations
  BY <1>1 DEF PortType, OperationsOf
<1>8. more \in {0, 1} /\ port.reads + more \in 0..MaxOperations /\ port.writes + more \in 0..MaxOperations
  BY <1>1, <1>3, <1>4, <1>7 DEF more
\* Whatever the completion is, it moves no more than these fields of the port.
<1> DEFINE Moved(q, r, w, b) ==
             /\ q \in PortType
             /\ q.m_Registered = port.m_Registered /\ q.m_NbrOfLocks = port.m_NbrOfLocks
             /\ q.open = port.open /\ q.m_bStarted = port.m_bStarted /\ q.alive = port.alive
             /\ q.writing = b /\ q.reads = port.reads + r /\ q.writes = port.writes + w
             /\ q.stale = stale /\ q.overlapped = port.overlapped
<1>9. \E r \in {0, more}, w \in {0, more}, b \in BOOLEAN:
        r + w <= 1 /\ (b => port.writing) /\ Moved(port', r, w, b)
  <2>1. /\ port.m_SendBufferOffset \in {0, 1} /\ port.writing \in BOOLEAN
        /\ port.reads + 0 = port.reads /\ port.writes + 0 = port.writes
    BY <1>1, <1>7 DEF PortType
  <2>2. CASE k = "read_done"
    <3>1. port' = [p EXCEPT !.reads = port.reads + more]
      BY <1>1, <1>2, <1>01, <2>2 DEF PortType
    <3>2. Moved(port', more, 0, port.writing)
      BY <1>1, <1>2, <1>3, <1>8, <2>1, <3>1 DEF PortType
    <3> HIDE DEF Moved
    <3> QED
      BY <1>8, <2>1, <3>2
  <2>3. CASE k = "write_partly"
    <3>1. port' = [p EXCEPT !.m_SendBufferOffset = 1, !.writes = port.writes + more]
      BY <1>1, <1>2, <1>01, <2>3 DEF PortType
    <3>2. Moved(port', 0, more, port.writing)
      BY <1>1, <1>2, <1>3, <1>8, <2>1, <3>1 DEF PortType
    <3> HIDE DEF Moved
    <3> QED
      BY <1>8, <2>1, <3>2
  <2>4. CASE k = "write_done"
    <3> DEFINE b == port.writing /\ ~resumed
    <3>1. b \in BOOLEAN /\ (b => port.writing)
      BY <2>1
    <3>2. port' = [p EXCEPT !.m_SendBufferOffset = 0, !.writing = p.writing /\ ~resumed]
      BY <1>01, <2>4
    <3>3. p.writing = port.writing
      BY <1>1, <1>2 DEF PortType
    <3>4. port' = [p EXCEPT !.m_SendBufferOffset = 0, !.writing = b]
      BY <3>2, <3>3
    <3> HIDE DEF b
    <3>5. Moved(port', 0, 0, b)
      BY <1>1, <1>2, <1>3, <2>1, <3>1, <3>4 DEF PortType
    <3> HIDE DEF Moved
    <3> QED
      BY <1>8, <3>1, <3>5
  <2>5. CASE k \notin {"read_done", "write_partly", "write_done"}
    <3>1. port' = p
      BY <1>01, <2>5
    <3>2. Moved(port', 0, 0, port.writing)
      BY <1>1, <1>2, <1>3, <2>1, <3>1 DEF PortType
    <3> HIDE DEF Moved
    <3> QED
      BY <1>8, <2>1, <3>2
  <2> QED
    BY <2>2, <2>3, <2>4, <2>5
<1> DEFINE q == port'
<1>10. PICK r \in {0, more}, w \in {0, more}, b \in BOOLEAN:
         r + w <= 1 /\ (b => port.writing) /\ Moved(port', r, w, b)
  BY <1>9
<1>11. q \in PortType
  BY <1>10
<1>12. /\ q.m_Registered = port.m_Registered /\ q.m_NbrOfLocks = port.m_NbrOfLocks
       /\ q.open = port.open /\ q.m_bStarted = port.m_bStarted /\ q.alive = port.alive
       /\ q.writing = b /\ q.reads = port.reads + r /\ q.writes = port.writes + w
       /\ q.stale = stale /\ q.overlapped = port.overlapped
  BY <1>10
<1>13. port' = q
  OBVIOUS
<1> HIDE DEF q, Moved
<1>14. OperationsOf(q) <= MaxOperations
  BY <1>1, <1>3, <1>4, <1>7, <1>8, <1>10, <1>12 DEF OperationsOf
<1>15. CASE resumed
  <2>1. q.open /\ q.overlapped /\ q.reads > 0
    BY <1>6, <1>7, <1>8, <1>12, <1>15
  <2>2. PortInv(q)
    BY <1>1, <1>5, <1>11, <1>12, <1>14, <2>1 DEF PortInv
  <2>3. SameLocks(port, q)
    BY <1>12 DEF SameLocks
  <2> QED
    BY <1>0, <1>13, <2>2, <2>3, QuietPortInv
<1>16. CASE ~resumed
  <2>1. more = 0 /\ r = 0 /\ w = 0 /\ b = FALSE /\ port.writing = FALSE
    <3>1. ~b /\ ~port.writing /\ port.writing \in BOOLEAN
      BY <1>1, <1>6, <1>10, <1>16 DEF PortType
    <3> QED
      BY <1>10, <1>16, <3>1 DEF more
  <2>2. q.reads = port.reads /\ q.writes = port.writes /\ q.writing = port.writing
    <3>1. q.reads = port.reads /\ q.writes = port.writes
      BY <1>7, <1>12, <2>1
    <3>2. q.writing = port.writing
      BY <1>12, <2>1
    <3> QED
      BY <3>1, <3>2
  <2>3. port.m_NbrOfLocks # 0
    BY <1>16 DEF resumed
  <2>4. PortInv(q)
    BY <1>1, <1>5, <1>11, <1>12, <1>14, <2>2, <2>3 DEF PortInv
  <2>5. SameLocks(port, q)
    BY <1>12 DEF SameLocks
  <2> QED
    BY <1>0, <1>13, <2>4, <2>5, QuietPortInv
<1> QED
  BY <1>15, <1>16

(* A completion handler that a suspension left behind.                     *)
LEMMA StaleCompletesInv ==
  ASSUME IInv, NEW k \in Completions, StaleCompletes(k)
  PROVE  IInv' /\ (Ends({}, {}) \/ UNCHANGED <<Attached, Holders>>)
<1>1. CASE port.m_NbrOfLocks = 0 /\ k \in {"read_aborted", "write_aborted"}
  <2>1. StopPort
    BY <1>1 DEF StaleCompletes
  <2> QED
    BY <2>1, StopPortInv
<1>2. CASE ~(port.m_NbrOfLocks = 0 /\ k \in {"read_aborted", "write_aborted"})
  BY <1>2, StaleContinuesInv
<1> QED
  BY <1>1, <1>2

-----------------------------------------------------------------------------
(* The clients.                                                            *)

(* A client that receives is attached, a port with clients has a handler,  *)
(* and a holder accounts for one of its locks.                             *)
LEMMA ClientFacts ==
  ASSUME IInv, NEW c \in Clients
  PROVE  /\ client[c] \in ClientType /\ client \in [Clients -> ClientType]
         /\ client[c].receiving => client[c].m_Registered
         /\ client[c].m_bLockedBySelf => client[c].m_Registered
         /\ client[c].m_Registered => port.m_Registered /\ Stalled(client[c])
         /\ port.m_NbrOfLocks = Cardinality(Holders) /\ port.m_NbrOfLocks \in Nat
         /\ IsFiniteSet(Holders)
         /\ c \in Holders => port.m_NbrOfLocks > 0
<1>1. /\ client \in [Clients -> ClientType]
      /\ IF client[c].m_Registered THEN Stalled(client[c]) ELSE client[c] = NoClient
  BY DEF IInv, ClientsInv
<1>2. ~NoClient.receiving /\ ~NoClient.m_bLockedBySelf
  BY DEF NoClient
<1>3. client[c].m_Registered => port.m_Registered
  BY DEF IInv, Counted, AttachedIn
<1>4. /\ port.m_NbrOfLocks = Cardinality(Holders) /\ IsFiniteSet(Holders)
      /\ Cardinality(Holders) \in Nat
  BY Values, HoldersFinite DEF Counted
<1>5. c \in Holders => Cardinality(Holders) # 0
  BY <1>4, FS_EmptySet
<1> QED
  BY <1>1, <1>2, <1>3, <1>4, <1>5

(* A client acquires the lock.                                             *)
LEMMA AcquireLockInv ==
  ASSUME IInv, NEW c \in Clients, AcquireLock(c)
  PROVE  IInv' /\ c \in Attached /\ Ends(Attached, Holders \cup {c})
<1> DEFINE h == [client EXCEPT ![c].m_bLockedBySelf = TRUE]
<1>1. /\ client[c].m_Registered /\ ~client[c].m_bLockedBySelf /\ SuspendSerialPort(h)
      /\ client \in [Clients -> ClientType] /\ client[c] \in ClientType
      /\ port.m_Registered /\ Stalled(client[c])
  BY ClientFacts DEF AcquireLock
<1>2. /\ h \in [Clients -> ClientType]
      /\ h[c] = [client[c] EXCEPT !.m_bLockedBySelf = TRUE]
      /\ \A d \in Clients \ {c}: h[d] = client[d]
  BY <1>1 DEF ClientType
<1> HIDE DEF h
<1>3. /\ h[c].m_Registered = client[c].m_Registered /\ h[c].m_bLockedBySelf = TRUE
      /\ h[c].m_bDeliverInitialState = client[c].m_bDeliverInitialState
      /\ Remembered(h[c]) = Remembered(client[c]) /\ Stalled(h[c])
  BY <1>1, <1>2 DEF ClientType, Remembered, Stalled
<1>4. ClientsInv(h) /\ Telling(h, told)
  <2>1. ClientsInv(client) /\ Telling(client, told)
    BY Values
  <2>2. ClientsInv(h)
    BY <1>1, <1>2, <1>3, <2>1 DEF ClientsInv
  <2>3. Telling(h, told)
    BY <1>2, <1>3, <2>1 DEF Telling
  <2> QED
    BY <2>2, <2>3
<1>5. AttachedIn(h) = Attached /\ HoldersIn(h) = Holders \cup {c} /\ c \in Attached /\ c \notin Holders
  <2>1. \A d \in Clients: h[d].m_Registered <=> client[d].m_Registered
    BY <1>2, <1>3
  <2>2. \A d \in Clients: h[d].m_bLockedBySelf <=> client[d].m_bLockedBySelf \/ d = c
    BY <1>2, <1>3
  <2> QED
    BY <1>1, <2>1, <2>2 DEF AttachedIn, HoldersIn, Attached, Holders
<1>6. Cardinality(HoldersIn(h)) = port.m_NbrOfLocks + 1
  <2>1. /\ port.m_NbrOfLocks = Cardinality(Holders) /\ IsFiniteSet(Holders)
        /\ Cardinality(Holders) \in Nat
    BY ClientFacts
  <2> QED
    BY <1>5, <2>1, FS_AddElement
<1> QED
  BY <1>1, <1>4, <1>5, <1>6, SuspendSerialPortInv

(* A client releases its lock.                                             *)
LEMMA ReleaseLockInv ==
  ASSUME IInv, NEW c \in Clients, ReleaseLock(c)
  PROVE  IInv' /\ Ends(Attached, Holders \ {c})
<1> DEFINE h == [client EXCEPT ![c].m_bLockedBySelf = FALSE]
<1>1. /\ client[c].m_Registered /\ client[c].m_bLockedBySelf /\ ResumeSerialPort(h) /\ Resumes
      /\ client \in [Clients -> ClientType] /\ client[c] \in ClientType
      /\ port.m_Registered /\ Stalled(client[c])
  BY ClientFacts DEF ReleaseLock
<1>2. /\ h \in [Clients -> ClientType]
      /\ h[c] = [client[c] EXCEPT !.m_bLockedBySelf = FALSE]
      /\ \A d \in Clients \ {c}: h[d] = client[d]
  BY <1>1 DEF ClientType
<1> HIDE DEF h
<1>3. /\ h[c].m_Registered = client[c].m_Registered /\ h[c].m_bLockedBySelf = FALSE
      /\ h[c].m_bDeliverInitialState = client[c].m_bDeliverInitialState
      /\ Remembered(h[c]) = Remembered(client[c]) /\ Stalled(h[c])
  BY <1>1, <1>2 DEF ClientType, Remembered, Stalled
<1>4. ClientsInv(h) /\ Telling(h, told)
  <2>1. ClientsInv(client) /\ Telling(client, told)
    BY Values
  <2>2. ClientsInv(h)
    BY <1>1, <1>2, <1>3, <2>1 DEF ClientsInv
  <2>3. Telling(h, told)
    BY <1>2, <1>3, <2>1 DEF Telling
  <2> QED
    BY <2>2, <2>3
<1>5. AttachedIn(h) = Attached /\ HoldersIn(h) = Holders \ {c} /\ c \in Attached /\ c \in Holders
  <2>1. \A d \in Clients: h[d].m_Registered <=> client[d].m_Registered
    BY <1>2, <1>3
  <2>2. \A d \in Clients: h[d].m_bLockedBySelf <=> client[d].m_bLockedBySelf /\ d # c
    BY <1>2, <1>3
  <2> QED
    BY <1>1, <2>1, <2>2 DEF AttachedIn, HoldersIn, Attached, Holders
<1>6. Cardinality(HoldersIn(h)) = port.m_NbrOfLocks - 1
  BY <1>5, ClientFacts, FS_RemoveElement
<1>7. port.m_NbrOfLocks > 0
  BY <1>5, ClientFacts
<1> QED
  BY <1>1, <1>4, <1>5, <1>6, <1>7, ResumeSerialPortInv

(* A client leaves, and its lock with it.                                  *)
LEMMA DisconnectInv ==
  ASSUME IInv, NEW c \in Clients, Disconnect(c)
  PROVE  IInv' /\ Ends(Attached \ {c}, Holders \ {c})
<1> DEFINE h == [client EXCEPT ![c] = NoClient]
<1>1. /\ client[c].m_Registered /\ port.m_Registered /\ client \in [Clients -> ClientType]
      /\ NoClient \in ClientType /\ ~NoClient.m_Registered
  BY ClientFacts, NoPortFacts DEF Disconnect
<1>2. /\ h \in [Clients -> ClientType] /\ h[c] = NoClient
      /\ \A d \in Clients \ {c}: h[d] = client[d]
  BY <1>1
<1>3. CASE Attached = {c} /\ (client[c].m_bLockedBySelf => port.m_SendBufferOffset = 0)
  <2>1. StopClients /\ UNCHANGED failure
    BY <1>3 DEF Disconnect
  <2> QED
    BY <2>1, StopInv DEF Ends, IInv
<1>4. CASE /\ ~(Attached = {c} /\ (client[c].m_bLockedBySelf => port.m_SendBufferOffset = 0))
           /\ client[c].m_bLockedBySelf
  <2>1. Resumes /\ ResumeSerialPort(h)
    BY <1>4 DEF Disconnect
  <2> HIDE DEF h
  <2>2. ClientsInv(h) /\ Telling(h, told)
    <3>1. ClientsInv(client) /\ Telling(client, told)
      BY Values
    <3> QED
      BY <1>1, <1>2, <3>1 DEF ClientsInv, Telling
  <2>3. AttachedIn(h) = Attached \ {c} /\ HoldersIn(h) = Holders \ {c} /\ c \in Holders /\ c \in Attached
    BY <1>1, <1>2, <1>4 DEF AttachedIn, HoldersIn, Attached, Holders
  <2>4. Cardinality(HoldersIn(h)) = port.m_NbrOfLocks - 1 /\ port.m_NbrOfLocks > 0
    <3>1. /\ port.m_NbrOfLocks = Cardinality(Holders) /\ IsFiniteSet(Holders)
          /\ Cardinality(Holders) \in Nat /\ port.m_NbrOfLocks > 0
      BY <2>3, ClientFacts
    <3> QED
      BY <2>3, <3>1, FS_RemoveElement
  <2>5. CASE Attached # {c}
    <3>1. AttachedIn(h) # {}
      BY <2>3, <2>5
    <3> QED
      BY <1>1, <2>1, <2>2, <2>3, <2>4, <3>1, ResumeSerialPortInv
  <2>6. CASE Attached = {c} /\ port.m_SendBufferOffset # 0
    <3> DEFINE p == [port EXCEPT !.m_NbrOfLocks = @ - 1]
    <3>1. HoldersIn(h) = {}
      BY <2>3, <2>6 DEF Holders
    <3>2. port.m_NbrOfLocks - 1 = 0
      BY <2>4, <3>1, FS_EmptySet
    <3>3. port \in PortType
      BY DEF IInv, PortInv
    <3>4. p.m_NbrOfLocks = 0 /\ p.m_SendBufferOffset # 0
      BY <2>6, <3>2, <3>3 DEF PortType
    <3>5. WriteInProgress \/ (StopClients /\ UNCHANGED failure)
      BY <2>1, <3>4 DEF ResumeSerialPort, OpenSerialPort
    <3> QED
      BY <3>5, KeptInv, StopInv DEF WriteInProgress, Ends, IInv
  <2> QED
    BY <1>4, <2>5, <2>6
<1>5. CASE /\ ~(Attached = {c} /\ (client[c].m_bLockedBySelf => port.m_SendBufferOffset = 0))
           /\ ~client[c].m_bLockedBySelf
  <2>1. /\ client' = h /\ told' = [told EXCEPT ![c] = NotTold] /\ UNCHANGED <<port, failure>>
        /\ Attached # {c}
    BY <1>5 DEF Disconnect
  <2> HIDE DEF h
  <2>2. ClientsInv(h)
    <3>1. ClientsInv(client)
      BY Values
    <3> QED
      BY <1>1, <1>2, <3>1 DEF ClientsInv
  <2>3. AttachedIn(h) = Attached \ {c} /\ HoldersIn(h) = Holders /\ c \notin Holders /\ c \in Attached
    BY <1>1, <1>2, <1>5 DEF AttachedIn, HoldersIn, Attached, Holders
  <2>4. Counted(port, h)
    <3>1. Counted(port, client) /\ Attached = AttachedIn(client) /\ Holders = HoldersIn(client)
      BY Values
    <3> QED
      BY <1>1, <2>1, <2>3, <3>1 DEF Counted
  <2>5. told \in [Clients -> Status] /\ NotTold \in Status
    BY NoPortFacts DEF IInv
  <2>6. told' \in [Clients -> Status] /\ \A d \in Clients \ {c}: told'[d] = told[d]
    BY <2>1, <2>5
  <2>7. Informed(port, h, told')
    <3>1. Informed(port, client, told)
      BY Values
    <3> QED
      BY <1>1, <1>2, <2>6, <3>1 DEF Informed
  <2>8. IInv'
    BY <2>1, <2>2, <2>4, <2>6, <2>7
       DEF IInv, PortInv, ClientsInv, Counted, Informed, AttachedIn, HoldersIn, OperationsOf, StaleIn
  <2>9. Attached' = AttachedIn(h) /\ Holders' = HoldersIn(h)
    BY <2>1 DEF Attached, Holders, AttachedIn, HoldersIn
  <2> QED
    BY <2>3, <2>8, <2>9 DEF Ends
<1> QED
  BY <1>3, <1>4, <1>5

(* A client is attached; the first one opens the port.                     *)
LEMMA ConnectInv ==
  ASSUME IInv, NEW c \in Clients, Connect(c)
  PROVE  IInv' /\ Ends(Attached \cup {c}, Holders)
<1> DEFINE new == [NoClient EXCEPT !.m_Registered = TRUE, !.receiving = TRUE,
                                   !.m_bSerialPortHandlerAwaitsPacket = TRUE]
           h == [client EXCEPT ![c] = new]
           first == [NoPort EXCEPT !.m_Registered = TRUE]
<1>1. /\ ~client[c].m_Registered /\ client \in [Clients -> ClientType]
      /\ IF port.m_Registered THEN Propagate(port, h) /\ UNCHANGED failure
                              ELSE OpenSerialPort(first, h)
  BY ClientFacts DEF Connect
<1>2. /\ new \in ClientType /\ new.m_Registered /\ ~new.m_bLockedBySelf
      /\ new.m_bDeliverInitialState /\ Stalled(new)
  BY DEF NoClient, ClientType, PacketKinds, Nothing, Stalled
<1> HIDE DEF new
<1>3. /\ h \in [Clients -> ClientType] /\ h[c] = new
      /\ \A d \in Clients \ {c}: h[d] = client[d]
  BY <1>1, <1>2
<1> HIDE DEF h
<1>4. ClientsInv(h) /\ Telling(h, told)
  <2>1. ClientsInv(client) /\ Telling(client, told)
    BY Values
  <2> QED
    BY <1>2, <1>3, <2>1 DEF ClientsInv, Telling
<1>5. AttachedIn(h) = Attached \cup {c} /\ HoldersIn(h) = Holders
  <2>1. c \notin Attached
    BY <1>1 DEF Attached
  <2> QED
    BY <1>2, <1>3, <2>1 DEF AttachedIn, HoldersIn, Attached, Holders
<1>6. /\ Counted(port, client) /\ PortInv(port)
      /\ Attached = AttachedIn(client) /\ Holders = HoldersIn(client)
  BY Values
<1>7. CASE port.m_Registered
  <2>1. Counted(port, h)
    BY <1>5, <1>6, <1>7 DEF Counted
  <2> QED
    BY <1>1, <1>4, <1>5, <1>6, <1>7, <2>1, PropagateInv DEF Ends
<1>8. CASE ~port.m_Registered
  <2>1. Holders = {}
    BY <1>6, <1>8 DEF Counted, Holders
  <2>2. /\ first \in PortType /\ first.m_Registered = TRUE
        /\ first.m_NbrOfLocks = NoPort.m_NbrOfLocks
        /\ first.reads = NoPort.reads /\ first.writes = NoPort.writes
        /\ first.writing = NoPort.writing /\ first.stale = NoPort.stale
    BY NoPortFacts DEF PortInv, PortType
  <2>3. /\ NoPort.m_NbrOfLocks = 0 /\ NoPort.reads = 0 /\ NoPort.writes = 0
        /\ NoPort.writing = FALSE /\ NoPort.stale = [k \in Completions |-> 0]
    BY DEF NoPort
  <2> HIDE DEF first
  <2>4. Closed(first)
    BY <2>2, <2>3 DEF Closed
  <2>5. OperationsOf(first) + 2 <= MaxOperations
    <3>1. \A k \in Completions: first.stale[k] = 0
      BY <2>2, <2>3
    <3>2. StaleCount(first.stale) = 0
      BY <3>1 DEF StaleCount, Completions
    <3> QED
      BY <2>2, <2>3, <3>2, ConstantsAssumption DEF OperationsOf
  <2>6. Counted(first, h)
    BY <1>5, <2>1, <2>2, <2>3, FS_EmptySet DEF Counted
  <2>7. OpenSerialPort(first, h)
    BY <1>1, <1>8
  <2> QED
    BY <1>4, <1>5, <2>4, <2>5, <2>6, <2>7, OpenSerialPortInv
<1> QED
  BY <1>7, <1>8

(* A packet of a client is queued, or kept and the endpoint stalled.       *)
LEMMA OnDataReceivedInv ==
  ASSUME IInv, NEW c \in Clients, NEW kind \in PacketKinds, OnDataReceived(c, kind)
  PROVE  IInv' /\ UNCHANGED <<Attached, Holders>>
<1>1. /\ client[c].receiving /\ client[c].m_Registered /\ client \in [Clients -> ClientType]
      /\ client[c] \in ClientType /\ port.m_Registered /\ Stalled(client[c]) /\ PortInv(port)
      /\ UNCHANGED <<told, failure>>
  BY ClientFacts DEF OnDataReceived, IInv
<1>2. ClientsInv(client)
  BY Values
<1>3. CASE client[c].m_bSerialPortHandlerAwaitsPacket
  <2>1. /\ port.queued < MaxQueue /\ port' = [port EXCEPT !.queued = port.queued + 1]
        /\ client' = [client EXCEPT ![c].m_bSerialPortHandlerAwaitsPacket = FALSE]
    BY <1>3 DEF OnDataReceived
  <2>2. port.queued + 1 \in 0..MaxQueue
    BY <1>1, <2>1, ConstantsAssumption DEF PortInv, PortType
  <2>3. PortInv(port') /\ SameLocks(port, port')
    BY <1>1, <2>1, <2>2, QueuedPortInv
  <2>4. /\ client' \in [Clients -> ClientType]
        /\ client'[c] = [client[c] EXCEPT !.m_bSerialPortHandlerAwaitsPacket = FALSE]
        /\ \A d \in Clients \ {c}: client'[d] = client[d]
    BY <1>1, <2>1 DEF ClientType
  <2>5. SameGuards(client[c], client'[c]) /\ Stalled(client'[c])
    BY <1>1, <2>4 DEF SameGuards, Stalled, ClientType
  <2>6. \A d \in Clients: SameGuards(client[d], client'[d])
    BY <2>4, <2>5 DEF SameGuards
  <2>7. ClientsInv(client')
    BY <1>1, <1>2, <2>4, <2>5 DEF ClientsInv, SameGuards
  <2> QED
    BY <1>1, <2>3, <2>6, <2>7, QuietInv
<1>4. CASE ~client[c].m_bSerialPortHandlerAwaitsPacket
  <2>1. /\ UNCHANGED port
        /\ client' = [client EXCEPT ![c].m_PendingIncomingPacketData = kind, ![c].receiving = FALSE]
    BY <1>4 DEF OnDataReceived
  <2>2. PortInv(port') /\ SameLocks(port, port')
    BY <1>1, <2>1 DEF SameLocks
  <2>3. /\ client' \in [Clients -> ClientType]
        /\ client'[c] = [client[c] EXCEPT !.m_PendingIncomingPacketData = kind, !.receiving = FALSE]
        /\ \A d \in Clients \ {c}: client'[d] = client[d]
    BY <1>1, <2>1 DEF ClientType
  <2>4. kind # Nothing
    BY DEF PacketKinds, Nothing
  <2>5. SameGuards(client[c], client'[c]) /\ Stalled(client'[c])
    BY <1>1, <1>4, <2>3, <2>4 DEF SameGuards, Stalled, ClientType
  <2>6. \A d \in Clients: SameGuards(client[d], client'[d])
    BY <2>3, <2>5 DEF SameGuards
  <2>7. ClientsInv(client')
    BY <1>1, <1>2, <2>3, <2>5 DEF ClientsInv, SameGuards
  <2> QED
    BY <1>1, <2>2, <2>6, <2>7, QuietInv
<1> QED
  BY <1>3, <1>4

-----------------------------------------------------------------------------
(* The invariant and what follows from it.                                 *)

OpenExactly == port.open = (Attached # {} /\ Holders = {})

(* The port is open exactly while it has clients and none holds a lock.    *)
LEMMA OpenAsNeeded == IInv => OpenExactly
<1> SUFFICES ASSUME IInv PROVE port.open = (Attached # {} /\ Holders = {})
  BY DEF OpenExactly
<1>1. /\ port.open = (port.m_Registered /\ port.m_NbrOfLocks = 0)
      /\ port.m_NbrOfLocks = Cardinality(Holders) /\ IsFiniteSet(Holders)
      /\ port.m_Registered <=> Attached # {}
  BY Values, HoldersFinite DEF PortInv, Counted
<1>2. port.m_NbrOfLocks = 0 <=> Holders = {}
  BY <1>1, FS_EmptySet
<1> QED
  BY <1>1, <1>2

(* The same after a step.                                                  *)
LEMMA OpenAsNeededNext == IInv' => OpenExactly'
  BY OpenAsNeeded, PTL

(* Every step keeps the invariant, and is a step of PortLocking.           *)
LEMMA NextInv ==
  ASSUME IInv, Next
  PROVE  IInv' /\ [Locking!Next]_(Locking!lockingVars)
<1>0. IInv' => port'.open = (Attached' # {} /\ Holders' = {})
  BY OpenAsNeededNext DEF OpenExactly
<1>1. ASSUME IInv', UNCHANGED <<Attached, Holders>>
      PROVE  [Locking!Next]_(Locking!lockingVars)
  <2>1. port'.open = port.open
    BY <1>0, <1>1, OpenAsNeeded DEF OpenExactly
  <2> QED
    BY <1>1, <2>1 DEF Locking!lockingVars
<1>2. ASSUME IInv', Attached' = {}, Holders' = {}
      PROVE  [Locking!Next]_(Locking!lockingVars)
  BY <1>0, <1>2 DEF Locking!Next, Locking!DetachAll
<1>3. ASSUME IInv', NEW a, NEW h, Ends(a, h),
             (IInv' /\ Attached' = a /\ Holders' = h) => Locking!Next
      PROVE  [Locking!Next]_(Locking!lockingVars)
  <2>1. CASE Attached' = a /\ Holders' = h
    BY <1>3, <2>1
  <2>2. CASE Attached' = {} /\ Holders' = {}
    BY <1>2, <1>3, <2>2
  <2>3. CASE UNCHANGED <<port, client, told>>
    BY <2>3 DEF Locking!lockingVars, Attached, Holders
  <2> QED
    BY <1>3, <2>1, <2>2, <2>3 DEF Ends
<1>4. ASSUME IInv' PROVE Locking!OpenAsNeeded
  BY <1>0, <1>4 DEF Locking!OpenAsNeeded
<1>5. ASSUME NEW c \in Clients, Connect(c)
      PROVE  IInv' /\ [Locking!Next]_(Locking!lockingVars)
  <2>1. IInv' /\ Ends(Attached \cup {c}, Holders)
    BY <1>5, ConnectInv
  <2>2. (IInv' /\ Attached' = Attached \cup {c} /\ Holders' = Holders) => Locking!Next
    BY <1>4 DEF Locking!Next, Locking!Attach
  <2> QED
    BY <1>3, <2>1, <2>2
<1>6. ASSUME NEW c \in Clients, AcquireLock(c)
      PROVE  IInv' /\ [Locking!Next]_(Locking!lockingVars)
  <2>1. IInv' /\ c \in Attached /\ Ends(Attached, Holders \cup {c})
    BY <1>6, AcquireLockInv
  <2>2. (IInv' /\ Attached' = Attached /\ Holders' = Holders \cup {c}) => Locking!Next
    BY <1>4, <2>1 DEF Locking!Next, Locking!Acquire
  <2> QED
    BY <1>3, <2>1, <2>2
<1>7. ASSUME NEW c \in Clients, ReleaseLock(c)
      PROVE  IInv' /\ [Locking!Next]_(Locking!lockingVars)
  <2>1. IInv' /\ Ends(Attached, Holders \ {c})
    BY <1>7, ReleaseLockInv
  <2>2. (IInv' /\ Attached' = Attached /\ Holders' = Holders \ {c}) => Locking!Next
    BY <1>4 DEF Locking!Next, Locking!Release
  <2> QED
    BY <1>3, <2>1, <2>2
<1>8. ASSUME NEW c \in Clients, Disconnect(c)
      PROVE  IInv' /\ [Locking!Next]_(Locking!lockingVars)
  <2>1. IInv' /\ Ends(Attached \ {c}, Holders \ {c})
    BY <1>8, DisconnectInv
  <2>2. (IInv' /\ Attached' = Attached \ {c} /\ Holders' = Holders \ {c}) => Locking!Next
    BY <1>4 DEF Locking!Next, Locking!Detach
  <2> QED
    BY <1>3, <2>1, <2>2
<1>9. ASSUME StopPort
      PROVE  IInv' /\ [Locking!Next]_(Locking!lockingVars)
  <2>1. IInv' /\ Ends({}, {})
    BY <1>9, StopPortInv
  <2>2. (IInv' /\ Attached' = {} /\ Holders' = {}) => Locking!Next
    BY <1>0 DEF Locking!Next, Locking!DetachAll
  <2> QED
    BY <1>3, <2>1, <2>2
<1>10. ASSUME NEW c \in Clients, PortKillRequest(c)
       PROVE  IInv' /\ [Locking!Next]_(Locking!lockingVars)
  BY <1>9, <1>10 DEF PortKillRequest
<1>11. ASSUME NEW c \in Clients, NEW kind \in PacketKinds, OnDataReceived(c, kind)
       PROVE  IInv' /\ [Locking!Next]_(Locking!lockingVars)
  BY <1>1, <1>11, OnDataReceivedInv
<1>12. CASE TransmitHDLCFrame
  BY <1>1, <1>12, TransmitHDLCFrameInv
<1>13. ASSUME NEW reliable \in BOOLEAN, QueryForPayload(reliable)
       PROVE  IInv' /\ [Locking!Next]_(Locking!lockingVars)
  BY <1>1, <1>13, QueryForPayloadInv
<1>14. CASE Unqueue
  BY <1>1, <1>14, UnqueueInv
<1>15. CASE ReadCompletes \/ GivesUpDevice \/ ChangesBaudRate
  BY <1>1, <1>15, AliveInv
<1>16. CASE WriteCompletes
  BY <1>1, <1>16, WriteCompletesInv
<1>17. CASE PortFails
  BY <1>9, <1>17 DEF PortFails
<1>18. ASSUME NEW k \in Completions, StaleCompletes(k)
       PROVE  IInv' /\ [Locking!Next]_(Locking!lockingVars)
  <2>1. IInv' /\ (Ends({}, {}) \/ UNCHANGED <<Attached, Holders>>)
    BY <1>18, StaleCompletesInv
  <2>2. CASE Ends({}, {})
    <3>1. (IInv' /\ Attached' = {} /\ Holders' = {}) => Locking!Next
      BY <1>0 DEF Locking!Next, Locking!DetachAll
    <3> QED
      BY <1>3, <2>1, <2>2, <3>1
  <2>3. CASE UNCHANGED <<Attached, Holders>>
    BY <1>1, <2>1, <2>3
  <2> QED
    BY <2>1, <2>2, <2>3
<1> QED
  BY <1>5, <1>6, <1>7, <1>8, <1>10, <1>11, <1>12, <1>13, <1>14, <1>15, <1>16, <1>17, <1>18 DEF Next

(* A step that changes nothing keeps the invariant.                        *)
LEMMA StutterInv ==
  ASSUME IInv, UNCHANGED vars
  PROVE  IInv' /\ UNCHANGED Locking!lockingVars
  BY DEF IInv, vars, PortInv, ClientsInv, Counted, Informed, AttachedIn, HoldersIn, OperationsOf,
         StaleIn, Locking!lockingVars, Attached, Holders

(* The inductive invariant of a serial port and its clients.               *)
THEOREM Invariance == Spec => []IInv
<1>1. Init => IInv
  BY InitInv
<1>2. IInv /\ [Next]_vars => IInv'
  BY NextInv, StutterInv
<1> QED
  BY <1>1, <1>2, PTL DEF Spec

(* Every variable keeps its type, through any order of the callbacks.      *)
THEOREM TypeCorrect == Spec => []TypeOK
<1>1. IInv => TypeOK
  BY DEF IInv, TypeOK, PortInv, ClientsInv
<1> QED
  BY <1>1, Invariance, PTL

(* The lock counter of a port is the number of the clients that hold a     *)
(* lock, and a port that runs is not locked.                               *)
THEOREM LocksCounted == Spec => []LocksAreCounted
<1>1. IInv => LocksAreCounted
  <2> SUFFICES ASSUME IInv PROVE LocksAreCounted
    OBVIOUS
  <2>1. port.m_NbrOfLocks = Cardinality(Holders)
    BY Values DEF Counted
  <2>2. port.m_bStarted => port.m_NbrOfLocks = 0
    BY Values, OpenPortFacts
  <2> QED
    BY <2>1, <2>2 DEF LocksAreCounted
<1> QED
  BY <1>1, Invariance, PTL

(* Another holder exists exactly if the counter exceeds the client's own   *)
(* lock: that is how LockGuard tells it.                                   *)
LEMMA OtherHolders ==
  ASSUME NEW S, IsFiniteSet(S), NEW c
  PROVE  (S \ {c} # {}) <=> Cardinality(S) > (IF c \in S THEN 1 ELSE 0)
<1>1. /\ IsFiniteSet(S \ {c})
      /\ Cardinality(S \ {c}) = IF c \in S THEN Cardinality(S) - 1 ELSE Cardinality(S)
      /\ Cardinality(S) \in Nat
  BY FS_RemoveElement, FS_CardinalityType
<1>2. Cardinality(S \ {c}) \in Nat /\ (Cardinality(S \ {c}) = 0 <=> S \ {c} = {})
  BY <1>1, FS_CardinalityType, FS_EmptySet
<1> QED
  BY <1>1, <1>2

(* Every client was told last which locks exist, and that the device       *)
(* lives, although unchanged states are not sent.                          *)
THEOREM ClientsInformed == Spec => []ClientsAreInformed
<1>1. IInv => ClientsAreInformed
  <2> SUFFICES ASSUME IInv, NEW c \in Attached
               PROVE  /\ told[c].self = (c \in Holders)
                      /\ told[c].others = (Holders \ {c} # {})
                      /\ port.alive => told[c].alive
    BY DEF ClientsAreInformed
  <2>1. c \in Clients /\ client[c].m_Registered
    BY DEF Attached
  <2>2. /\ told[c] = Remembered(client[c])
        /\ client[c].m_bLastLockedBySelf = client[c].m_bLockedBySelf
        /\ client[c].m_bLastLockedByOthers =
             (port.m_NbrOfLocks > (IF client[c].m_bLockedBySelf THEN 1 ELSE 0))
        /\ port.alive => client[c].m_bAlive
    BY <2>1 DEF IInv, Informed
  <2>3. client[c].m_bLockedBySelf = (c \in Holders)
    <3>1. client[c].m_bLockedBySelf \in BOOLEAN
      BY <2>1, ClientFacts DEF ClientType
    <3> QED
      BY <2>1, <3>1 DEF Holders
  <2>4. (port.m_NbrOfLocks > (IF client[c].m_bLockedBySelf THEN 1 ELSE 0)) <=> Holders \ {c} # {}
    <3>1. port.m_NbrOfLocks = Cardinality(Holders) /\ IsFiniteSet(Holders)
      BY <2>1, ClientFacts
    <3>2. (Holders \ {c} # {}) <=> Cardinality(Holders) > (IF c \in Holders THEN 1 ELSE 0)
      BY <3>1, OtherHolders
    <3> QED
      BY <2>3, <3>1, <3>2
  <2> QED
    BY <2>2, <2>3, <2>4 DEF Remembered
<1> QED
  BY <1>1, Invariance, PTL

(* An endpoint is stalled exactly while a packet of its client is kept,    *)
(* which is one that QueryForPayload can take.                             *)
THEOREM StalledByPacket == Spec => []StalledByItsPacket
<1>1. IInv => StalledByItsPacket
  BY DEF IInv, ClientsInv, Stalled, StalledByItsPacket, Attached
<1> QED
  BY <1>1, Invariance, PTL

(* An open port listens, and in just one read if no completion handler of  *)
(* a suspension was left when it was resumed.                              *)
THEOREM ListensOpen == Spec => []ListensWhileOpen
<1>1. IInv => ListensWhileOpen
  BY DEF IInv, PortInv, ListensWhileOpen
<1> QED
  BY <1>1, Invariance, PTL

(* Suspending, resuming, connecting and leaving implement PortLocking: the *)
(* port is open exactly while it has clients and none holds a lock.        *)
THEOREM PortLockingImplemented == Spec => ImplementsPortLocking
<1>1. Init => Locking!Init
  <2> SUFFICES ASSUME Init PROVE Locking!Init
    OBVIOUS
  <2>1. Attached = {} /\ Holders = {}
    BY NoPortFacts DEF Init, Attached, Holders
  <2>2. port.open = FALSE
    BY DEF Init, NoPort
  <2> QED
    BY <2>1, <2>2 DEF Locking!Init
<1>2. IInv /\ [Next]_vars => [Locking!Next]_(Locking!lockingVars)
  BY NextInv, StutterInv
<1> QED
  BY <1>1, <1>2, Invariance, PTL DEF Spec, ImplementsPortLocking, Locking!Spec
=============================================================================
