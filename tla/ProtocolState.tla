--------------------------- MODULE ProtocolState ---------------------------
(***************************************************************************)
(* src/SerialPort/HDLC/ProtocolState: the HDLC station of the daemon.  It  *)
(* sends one I-frame at a time and keeps it at the head of its queue until *)
(* the device acknowledges it, obeys the device's RNR condition, answers   *)
(* received I-frames with RR and SREJ, and probes the device while         *)
(* AliveState says so.                                                     *)
(*                                                                         *)
(* Every handler changes the members first and then gives the station an   *)
(* opportunity to transmit, so the members are one record, ps, and a       *)
(* handler is an update of it passed to OpportunityForTransmission.        *)
(* The part of SerialPortHandler the station sees is modelled with it: the *)
(* frame being written (the field m_SendBuffer) and the write operations   *)
(* whose handlers have not run (the field writes), whether the port is     *)
(* still registered, and the baud rate.                                    *)
(*                                                                         *)
(* A suspension gives up the write in progress, but not a completion that  *)
(* is queued already: if the port is resumed before that runs, it runs on  *)
(* the restarted station.                                                  *)
(***************************************************************************)
EXTENDS Naturals, Sequences, DeadlineTimer, BaudRate

CONSTANTS
  Payload,            \* the payloads of data packets
  NoPayload,          \* an empty payload
  SeqModulus,         \* 8 in the code: sequence numbers are masked with 0x07
  ProbesPerBaudRate,  \* 4 in the code, see AliveState
  ReceivedFrames,     \* the frames the device may send
  MaxQueue,           \* bound of the model: the wait queues do not grow beyond it
  MaxLate             \* bound of the model: completions that suspensions leave queued

FrameTypes == {"UNSET", "I", "RR", "RNR", "REJ", "SREJ", "UI", "TEST"}
SeqNumbers == 0..(SeqModulus - 1)
Frame == [type: FrameTypes, ns: SeqNumbers, nr: SeqNumbers, pf: BOOLEAN,
          payload: Payload \cup {NoPayload}]
DataPacket == [payload: Payload, reliable: BOOLEAN]

ASSUME ConstantsAssumption ==
  /\ NoPayload \notin Payload
  /\ SeqModulus \in Nat /\ SeqModulus > 1
  /\ ProbesPerBaudRate \in Nat \ {0}
  /\ ReceivedFrames \subseteq Frame
  /\ MaxQueue \in Nat
  /\ MaxLate \in Nat

VARIABLES
  ps,                      \* the members of ProtocolState, m_SendBuffer and writes
  offers,                  \* external: the data packets the clients hold for the port
  m_Registered,            \* SerialPortHandler::m_Registered
  m_CurrentBaudrateIndex,  \* of SerialPortHandler::m_BaudRate
  late,                    \* successful completions of writes on a port closed since
  misled,                  \* auxiliary: one of them has run since the station was started
  m_eAliveState, m_bFrameWasReceived, m_ProbeCounter, m_StateTimer, m_ProbeTimer

aliveVars == <<m_eAliveState, m_bFrameWasReceived, m_ProbeCounter, m_StateTimer, m_ProbeTimer>>
portVars == <<m_Registered, m_CurrentBaudrateIndex, late, misled>>
vars == <<ps, offers, portVars, aliveVars>>

Alive == INSTANCE AliveState

\* The retransmission wait and the RNR query wait share m_Timer.
Waits == {"retransmit", "query"}

PSType ==
  [m_bStarted: BOOLEAN,
   m_bAwaitsNextHDLCFrame: BOOLEAN,     \* the last frame was written
   m_SSeqOutgoing: SeqNumbers,
   m_RSeqIncoming: SeqNumbers,
   m_bSendProbe: BOOLEAN,
   m_bPeerStoppedFlow: BOOLEAN,         \* RNR condition
   m_bPeerStoppedFlowNew: BOOLEAN,      \* RNR condition: start the query timer
   m_bPeerStoppedFlowQueried: BOOLEAN,  \* RNR condition: the poll was sent
   m_bPeerRequiresAck: BOOLEAN,
   m_bWaitForAck: BOOLEAN,              \* the head of m_WaitQueueReliable is on its way
   m_SREJs: Seq(Nat),                   \* not masked before serialisation
   m_SerialPortHandler: BOOLEAN,        \* the back pointer is not null
   m_WaitQueueReliable: Seq(Payload),
   m_WaitQueueUnreliable: Seq(Payload),
   m_Timer: TimerType(Waits),
   m_SendBuffer: Frame,                 \* SerialPortHandler: the frame being written
   writes: Nat]                         \* operations on the open port with their handlers to run

\* A default-constructed HdlcFrame.
UnsetFrame == [type |-> "UNSET", ns |-> 0, nr |-> 0, pf |-> FALSE, payload |-> NoPayload]
IsEmpty(frame) == frame.type = "UNSET"

TypeOK ==
  /\ ps \in PSType
  /\ offers \subseteq DataPacket
  /\ m_Registered \in BOOLEAN
  /\ m_CurrentBaudrateIndex \in BaudRateIndices
  /\ late \in 0..MaxLate
  /\ misled \in BOOLEAN
  /\ Alive!TypeOK

-----------------------------------------------------------------------------
\* Mutant: the sequence number is not masked.
PredUnmasked(n) == n + SeqModulus - 1

Succ(n) == (n + 1) % SeqModulus
Pred(n) == (n + SeqModulus - 1) % SeqModulus

\* Mutant: Reset does not make the station ready to transmit.
ResetMembersUnready(s) ==
  [s EXCEPT !.m_bStarted = FALSE,
            !.m_SSeqOutgoing = 0, !.m_RSeqIncoming = 0, !.m_bSendProbe = FALSE,
            !.m_bPeerStoppedFlow = FALSE, !.m_bPeerStoppedFlowNew = FALSE,
            !.m_bPeerStoppedFlowQueried = FALSE, !.m_bPeerRequiresAck = FALSE,
            !.m_bWaitForAck = FALSE, !.m_SREJs = <<>>, !.m_Timer = Cancel(@)]

ResetMembers(s) ==
  [s EXCEPT !.m_bStarted = FALSE, !.m_bAwaitsNextHDLCFrame = TRUE,
            !.m_SSeqOutgoing = 0, !.m_RSeqIncoming = 0, !.m_bSendProbe = FALSE,
            !.m_bPeerStoppedFlow = FALSE, !.m_bPeerStoppedFlowNew = FALSE,
            !.m_bPeerStoppedFlowQueried = FALSE, !.m_bPeerRequiresAck = FALSE,
            !.m_bWaitForAck = FALSE, !.m_SREJs = <<>>, !.m_Timer = Cancel(@)]

InitStation ==
  /\ Alive!Init
  /\ ps = [m_bStarted |-> FALSE, m_bAwaitsNextHDLCFrame |-> TRUE,
           m_SSeqOutgoing |-> 0, m_RSeqIncoming |-> 0, m_bSendProbe |-> FALSE,
           m_bPeerStoppedFlow |-> FALSE, m_bPeerStoppedFlowNew |-> FALSE,
           m_bPeerStoppedFlowQueried |-> FALSE, m_bPeerRequiresAck |-> FALSE,
           m_bWaitForAck |-> FALSE, m_SREJs |-> <<>>, m_SerialPortHandler |-> TRUE,
           m_WaitQueueReliable |-> <<>>, m_WaitQueueUnreliable |-> <<>>,
           m_Timer |-> IdleTimer, m_SendBuffer |-> UnsetFrame, writes |-> 0]
  /\ m_Registered = TRUE
  /\ m_CurrentBaudrateIndex = 0
  /\ late = 0
  /\ misled = FALSE

Init == InitStation /\ offers = DataPacket

-----------------------------------------------------------------------------
(* OpportunityForTransmission(s): s is ps as the caller leaves it, and the *)
(* alive state is the one of the same step.  What is due is examined in    *)
(* the order of the code; at most one frame is sent.                       *)

PrepareUFrameTEST == [UnsetFrame EXCEPT !.type = "TEST"]
PrepareSFrameSREJ(s) == [UnsetFrame EXCEPT !.type = "SREJ", !.nr = Head(s.m_SREJs) % SeqModulus]
PrepareIFrame(s) == [UnsetFrame EXCEPT !.type = "I", !.ns = s.m_SSeqOutgoing, !.nr = s.m_RSeqIncoming,
                                       !.payload = Head(s.m_WaitQueueReliable)]
PrepareSFrameRR(s, poll) == [UnsetFrame EXCEPT !.type = "RR", !.nr = s.m_RSeqIncoming, !.pf = poll]
PrepareUFrameUI(s) == [UnsetFrame EXCEPT !.type = "UI", !.payload = Head(s.m_WaitQueueUnreliable)]

\* Mutant: the station does not note that a frame is being written.
TransmitUnnoted(s, frame) == ps' = [s EXCEPT !.m_SendBuffer = frame, !.writes = @ + 1]

\* SerializeFrame, EscapeFrame and SerialPortHandler::TransmitHDLCFrame.
Transmit(s, frame) ==
  ps' = [s EXCEPT !.m_bAwaitsNextHDLCFrame = FALSE, !.m_SendBuffer = frame, !.writes = @ + 1]

ProbeDue(s) == s.m_bSendProbe
SREJDue(s) == s.m_SREJs # <<>>
\* Mutants: the RNR condition is not checked; acknowledgements wait for the queue.
IFrameDueUnchecked(s) == s.m_WaitQueueReliable # <<>> /\ ~s.m_bWaitForAck
RRDueWhenIdle(s) == s.m_bPeerRequiresAck /\ ~s.m_bPeerStoppedFlowNew /\ s.m_WaitQueueReliable = <<>>

IFrameDue(s) == s.m_WaitQueueReliable # <<>> /\ ~s.m_bWaitForAck /\ ~s.m_bPeerStoppedFlow
RRDue(s) == s.m_bPeerRequiresAck /\ ~s.m_bPeerStoppedFlowNew
UIDue(s) == s.m_WaitQueueUnreliable # <<>>

SendProbe(s) == Transmit([s EXCEPT !.m_bSendProbe = FALSE], PrepareUFrameTEST)

SendSREJ(s) == Transmit([s EXCEPT !.m_SREJs = Tail(@)], PrepareSFrameSREJ(s))

\* Mutant: the retransmission timer is not started.
SendIFrameOnce(s) ==
  Transmit([s EXCEPT !.m_bWaitForAck = TRUE, !.m_bPeerRequiresAck = FALSE], PrepareIFrame(s))

SendIFrame(s) ==
  Transmit([s EXCEPT !.m_bWaitForAck = TRUE, !.m_bPeerRequiresAck = FALSE,
                     !.m_Timer = AsyncWait(@, "retransmit")],
           PrepareIFrame(s))

\* Mutant: the stopped peer is polled, and no timer started for the next poll.
SendRROnce(s) ==
  LET poll == s.m_bPeerStoppedFlow /\ ~s.m_bPeerStoppedFlowQueried
  IN Transmit([s EXCEPT !.m_bPeerRequiresAck = FALSE,
                        !.m_bPeerStoppedFlowQueried = @ \/ poll],
              PrepareSFrameRR(s, poll))

\* The first RR after the query timer expired polls the stopped peer.
SendRR(s) ==
  LET poll == s.m_bPeerStoppedFlow /\ ~s.m_bPeerStoppedFlowQueried
      t == [s EXCEPT !.m_bPeerRequiresAck = FALSE]
  IN Transmit(IF poll THEN [t EXCEPT !.m_bPeerStoppedFlowQueried = TRUE,
                                     !.m_Timer = AsyncWait(Cancel(@), "query")]
                      ELSE t,
              PrepareSFrameRR(s, poll))

\* A new RNR condition only starts the query timer, no frame is sent for it.
StartQueryTimer(s) ==
  IF s.m_bPeerStoppedFlowNew
  THEN [s EXCEPT !.m_bPeerStoppedFlowNew = FALSE, !.m_Timer = AsyncWait(Cancel(@), "query")]
  ELSE s

SendUI(s) == Transmit([s EXCEPT !.m_WaitQueueUnreliable = Tail(@)], PrepareUFrameUI(s))

\* One of the transmissions, up to the unreliable packets.
TransmitDue(s) ==
  \/ ProbeDue(s) /\ SendProbe(s)
  \/ /\ ~ProbeDue(s)
     /\ (Alive!IsAlive)'
     /\ \/ SREJDue(s) /\ SendSREJ(s)
        \/ ~SREJDue(s) /\ IFrameDue(s) /\ SendIFrame(s)
        \/ ~SREJDue(s) /\ ~IFrameDue(s) /\ RRDue(s) /\ SendRR(s)
        \/ ~SREJDue(s) /\ ~IFrameDue(s) /\ ~RRDue(s) /\ UIDue(s) /\ SendUI(StartQueryTimer(s))

NothingDue(s) == ~ProbeDue(s) /\ ~SREJDue(s) /\ ~IFrameDue(s) /\ ~RRDue(s) /\ ~UIDue(s)

Enqueue(s, packet) ==
  IF packet.reliable THEN [s EXCEPT !.m_WaitQueueReliable = Append(@, packet.payload)]
                     ELSE [s EXCEPT !.m_WaitQueueUnreliable = Append(@, packet.payload)]

HasRoom(s, packet) ==
  Len(IF packet.reliable THEN s.m_WaitQueueReliable ELSE s.m_WaitQueueUnreliable) < MaxQueue

\* The clients are asked for one more packet.  A client with a suitable
\* pending packet delivers it at once, through SendPayload and a nested
\* OpportunityForTransmission.  A packet of a second client is queued behind
\* it: that is the action SendPayload, right after this step.
QueryForPayload(s, reliable, unreliable) ==
  \/ ps' = s
  \/ \E packet \in offers:
       /\ IF packet.reliable THEN reliable ELSE unreliable
       /\ HasRoom(s, packet)
       /\ TransmitDue(Enqueue(s, packet))

OpportunityForTransmission(s) ==
  \/ /\ ~s.m_bAwaitsNextHDLCFrame
     /\ ps' = s
  \/ /\ s.m_bAwaitsNextHDLCFrame
     /\ TransmitDue(s)
  \/ /\ s.m_bAwaitsNextHDLCFrame
     /\ ~ProbeDue(s)
     /\ ~(Alive!IsAlive)'
     /\ ps' = s
  \/ /\ s.m_bAwaitsNextHDLCFrame
     /\ (Alive!IsAlive)'
     /\ NothingDue(s)
     /\ LET t == StartQueryTimer(s)
            idle == t.m_WaitQueueReliable = <<>>
        IN IF idle \/ t.m_bPeerStoppedFlow
           THEN QueryForPayload(t, idle /\ ~t.m_bPeerStoppedFlow, TRUE)
           ELSE ps' = t

-----------------------------------------------------------------------------
(* Received frames.                                                        *)

\* The sequence numbers that were skipped: the first one is masked, the
\* following ones count on without the mask.
Skipped(s, ns) ==
  [i \in 1..((ns + SeqModulus - s.m_RSeqIncoming) % SeqModulus) |-> s.m_RSeqIncoming + i - 1]

\* Mutant: the accepted I-frames are counted, whatever their numbers.
AcceptPayloadCounts(s, frame) ==
  IF frame.type = "I" /\ frame.payload # NoPayload
  THEN [s EXCEPT !.m_SREJs = IF frame.ns = s.m_RSeqIncoming THEN @ ELSE Skipped(s, frame.ns),
                 !.m_RSeqIncoming = Succ(@),
                 !.m_bPeerRequiresAck = TRUE]
  ELSE s

\* An I-frame with payload is accepted whatever its number; a gap asks for
\* the missing ones.
AcceptPayload(s, frame) ==
  IF frame.type = "I" /\ frame.payload # NoPayload
  THEN [s EXCEPT !.m_SREJs = IF frame.ns = s.m_RSeqIncoming THEN @ ELSE Skipped(s, frame.ns),
                 !.m_RSeqIncoming = Succ(frame.ns),
                 !.m_bPeerRequiresAck = TRUE]
  ELSE s

StopWaiting(s) == [s EXCEPT !.m_bWaitForAck = FALSE, !.m_Timer = Cancel(@)]

\* The peer restarted the flow.
RestartFlow(s) ==
  IF s.m_bPeerStoppedFlow THEN [StopWaiting(s) EXCEPT !.m_bPeerStoppedFlow = FALSE] ELSE s

\* Mutant: any receive number will do.
AcknowledgesAnyNumber(frame, s) == s.m_bWaitForAck

\* The frame acknowledges the I-frame on its way.
Acknowledges(frame, s) == s.m_bWaitForAck /\ frame.nr = Succ(s.m_SSeqOutgoing)

\* Mutants: the station goes on waiting; the packet stays in the queue.
PopAcknowledgedWaits(s, frame) ==
  IF Acknowledges(frame, s) THEN [s EXCEPT !.m_WaitQueueReliable = Tail(@)] ELSE s
PopAcknowledgedKeeps(s, frame) == IF Acknowledges(frame, s) THEN StopWaiting(s) ELSE s

PopAcknowledged(s, frame) ==
  IF Acknowledges(frame, s)
  THEN [StopWaiting(s) EXCEPT !.m_WaitQueueReliable = Tail(@)]
  ELSE s

\* Mutant: the send number is counted up and not masked.
OnIOrRRCounts(s, frame) ==
  LET t == IF frame.type = "RR" THEN RestartFlow(s) ELSE s
  IN [PopAcknowledged(t, frame) EXCEPT !.m_SSeqOutgoing = IF Acknowledges(frame, t) THEN @ + 1 ELSE @]

OnIOrRR(s, frame) ==
  LET t == IF frame.type = "RR" THEN RestartFlow(s) ELSE s
  IN [PopAcknowledged(t, frame) EXCEPT !.m_SSeqOutgoing = frame.nr]

OnRNR(s, frame) ==
  LET stopped == IF s.m_bPeerStoppedFlow THEN s
                 ELSE [s EXCEPT !.m_bPeerStoppedFlow = TRUE, !.m_bPeerStoppedFlowNew = TRUE,
                                !.m_bPeerStoppedFlowQueried = FALSE]
      acked == PopAcknowledged(stopped, frame)
  IN [(IF s.m_bWaitForAck THEN StopWaiting(acked) ELSE acked) EXCEPT !.m_SSeqOutgoing = frame.nr]

OnREJ(s, frame) ==
  LET t == RestartFlow(s)
  IN [(IF frame.nr = t.m_SSeqOutgoing THEN StopWaiting(t) ELSE t)
        EXCEPT !.m_SSeqOutgoing = Pred(frame.nr)]

OnSREJ(s, frame) ==
  LET t == RestartFlow(s)
  IN IF t.m_bWaitForAck /\ frame.nr = t.m_SSeqOutgoing THEN StopWaiting(t) ELSE t

Acknowledgement(s, frame) ==
  CASE frame.type \in {"I", "RR"} -> OnIOrRR(s, frame)
    [] frame.type = "RNR" -> OnRNR(s, frame)
    [] frame.type = "REJ" -> OnREJ(s, frame)
    [] frame.type = "SREJ" -> OnSREJ(s, frame)
    [] OTHER -> s

\* Mutant: a frame is interpreted on a stopped station, too.
InterpretDeserializedFrameAlways(frame) ==
  /\ Alive!OnFrameReceived
  /\ OpportunityForTransmission(Acknowledgement(AcceptPayload(ps, frame), frame))
  /\ UNCHANGED portVars

\* A valid frame; an invalid one is only shown to the clients.
InterpretDeserializedFrame(frame) ==
  /\ ps.m_bStarted
  /\ Alive!OnFrameReceived
  /\ OpportunityForTransmission(Acknowledgement(AcceptPayload(ps, frame), frame))
  /\ UNCHANGED portVars

-----------------------------------------------------------------------------
(* Calls of SerialPortHandler.  Opening, closing and deregistering the     *)
(* port is its part.                                                       *)

\* A frame that is not being written any more.
GivenUp(s) == [s EXCEPT !.m_SendBuffer = UnsetFrame, !.writes = 0]

\* The port is closed.  Each write in progress is aborted, unless its
\* completion is queued already.  An aborted one that runs on the port after
\* it was resumed makes SerialPortHandler stop, as Shutdown may at any time.
LeaveWrites ==
  /\ late' \in {n \in late..(late + ps.writes): n <= MaxLate}
  /\ misled' = FALSE

\* OpenSerialPort, then Start: Reset, AliveState::Start with the first probe
\* through its callback, and an OpportunityForTransmission that finds the
\* probe being written.
Start ==
  /\ m_Registered /\ ~ps.m_bStarted
  /\ Alive!Start
  /\ OpportunityForTransmission([ResetMembers(ps) EXCEPT !.m_bStarted = TRUE, !.m_bSendProbe = TRUE])
  /\ UNCHANGED portVars

\* SuspendSerialPort on the first lock: Stop, then the port is closed.
Stop ==
  /\ m_Registered /\ ps.m_bStarted
  /\ Alive!Stop
  /\ ps' = GivenUp(ResetMembers(ps))
  /\ LeaveWrites
  /\ UNCHANGED <<m_Registered, m_CurrentBaudrateIndex>>

\* SerialPortHandler::Stop.  A station that is not started is left alone,
\* with its back pointer and its alive timers.
Shutdown ==
  /\ m_Registered
  /\ m_Registered' = FALSE
  /\ IF ps.m_bStarted
     THEN /\ Alive!Stop
          /\ ps' = [GivenUp(ResetMembers(ps)) EXCEPT !.m_SerialPortHandler = FALSE]
          /\ LeaveWrites
     ELSE UNCHANGED <<ps, late, misled, aliveVars>>
  /\ UNCHANGED m_CurrentBaudrateIndex

\* DeliverPayloadToHDLC.  A packet was queued, so that the condition for the
\* opportunity comes down to m_bAwaitsNextHDLCFrame.
SendPayload(packet) ==
  /\ m_Registered
  /\ HasRoom(ps, packet)
  /\ UNCHANGED aliveVars
  /\ OpportunityForTransmission(Enqueue(ps, packet))
  /\ UNCHANGED portVars

\* A write operation ended, and m_SendBuffer with the last of them.
Written(s) ==
  [s EXCEPT !.m_bAwaitsNextHDLCFrame = TRUE, !.writes = @ - 1,
            !.m_SendBuffer = IF s.writes = 1 THEN UnsetFrame ELSE @]

\* Mutant: no opportunity for the next frame.
TriggerNextHDLCFrameIdles ==
  /\ ps.m_bStarted
  /\ ps.writes > 0
  /\ ps' = Written(ps)
  /\ UNCHANGED <<aliveVars, portVars>>

\* The last byte of m_SendBuffer was written.
TriggerNextHDLCFrame ==
  /\ ps.m_bStarted
  /\ ps.writes > 0
  /\ UNCHANGED aliveVars
  /\ OpportunityForTransmission(Written(ps))
  /\ UNCHANGED portVars

\* A completion that a suspension left queued.  If the port was resumed in
\* the meantime, it is taken for one of the frame being written: for that of
\* its last byte, or (the sizes differ) for that of a part of it, and the
\* rest is written with an operation more.  What its bytes do to
\* m_SendBufferOffset is a matter of SerialPort.
LateCompletion ==
  /\ late > 0
  /\ late' = late - 1
  /\ misled' = (misled \/ ps.m_bStarted)
  /\ UNCHANGED <<aliveVars, m_Registered, m_CurrentBaudrateIndex>>
  /\ \/ ~ps.m_bStarted /\ ps' = ps
     \/ ps.m_bStarted /\ OpportunityForTransmission([ps EXCEPT !.m_bAwaitsNextHDLCFrame = TRUE])
     \/ ps.m_bStarted /\ ps' = [ps EXCEPT !.writes = @ + 1]

-----------------------------------------------------------------------------
(* Timers.  Their handlers do not ask whether the station is started.      *)

TimerExpires ==
  /\ CanExpire(ps.m_Timer)
  /\ ps' = [ps EXCEPT !.m_Timer = Expire(@)]
  /\ UNCHANGED <<portVars, aliveVars>>

\* Mutant: the station goes on waiting for the acknowledgement.
OnRetransmissionTimeoutWaits ==
  /\ ps.m_Timer.queued = "retransmit"
  /\ UNCHANGED aliveVars
  /\ OpportunityForTransmission([ps EXCEPT !.m_Timer = Dispatch(@)])
  /\ UNCHANGED portVars

\* Send the head element of the wait queue again.
OnRetransmissionTimeout ==
  /\ ps.m_Timer.queued = "retransmit"
  /\ UNCHANGED aliveVars
  /\ OpportunityForTransmission([ps EXCEPT !.m_Timer = Dispatch(@), !.m_bWaitForAck = FALSE])
  /\ UNCHANGED portVars

OnQueryTimeout ==
  /\ ps.m_Timer.queued = "query"
  /\ UNCHANGED aliveVars
  /\ IF ps.m_bPeerStoppedFlow
     THEN OpportunityForTransmission([ps EXCEPT !.m_Timer = Dispatch(@), !.m_bPeerRequiresAck = TRUE,
                                                !.m_bPeerStoppedFlowQueried = FALSE])
     ELSE ps' = [ps EXCEPT !.m_Timer = Dispatch(@)]
  /\ UNCHANGED portVars

StateTimerExpires ==
  /\ Alive!StateTimerExpires
  /\ UNCHANGED <<ps, portVars>>

ProbeTimerExpires ==
  /\ Alive!ProbeTimerExpires
  /\ UNCHANGED <<ps, portVars>>

OnStateTimeout ==
  /\ Alive!OnStateTimeout
  /\ UNCHANGED <<ps, portVars>>

\* ChangeBaudrateCallback and SendProbeCallback: without the back pointer the
\* baud rate is not changed and the probe is only noted.
OnProbeTimeout ==
  /\ Alive!OnProbeTimeout
  /\ UNCHANGED <<m_Registered, late, misled>>
  /\ m_CurrentBaudrateIndex' =
       IF Alive!ChangesBaudrate /\ ps.m_SerialPortHandler /\ m_Registered
       THEN ToggleBaudRate(m_CurrentBaudrateIndex) ELSE m_CurrentBaudrateIndex
  /\ LET s == [ps EXCEPT !.m_bSendProbe = TRUE]
     IN IF ~Alive!SendsProbe THEN ps' = ps
        ELSE IF ps.m_SerialPortHandler THEN OpportunityForTransmission(s)
        ELSE ps' = s

-----------------------------------------------------------------------------
\* A frame handed to a port that is not open: the assertion on the lock state
\* in TransmitHDLCFrame, or a null m_SerialPortHandler, ends the process.
TransmittedWhileStopped == ~IsEmpty(ps.m_SendBuffer) /\ ~ps.m_bStarted

Handlers ==
  \/ Start
  \/ Stop
  \/ Shutdown
  \/ \E packet \in offers: SendPayload(packet)
  \/ \E frame \in ReceivedFrames: InterpretDeserializedFrame(frame)
  \/ TriggerNextHDLCFrame
  \/ LateCompletion
  \/ TimerExpires
  \/ OnRetransmissionTimeout
  \/ OnQueryTimeout
  \/ StateTimerExpires
  \/ ProbeTimerExpires
  \/ OnStateTimeout
  \/ OnProbeTimeout

Next == ~TransmittedWhileStopped /\ Handlers /\ UNCHANGED offers

Spec == Init /\ [][Next]_vars

-----------------------------------------------------------------------------
(* pop_front is called on m_WaitQueueReliable whenever the I-frame on its  *)
(* way is acknowledged: the queue is not empty then, whatever frames,      *)
(* timeouts and restarts came in between.                                  *)
WaitsForQueuedPacket == ps.m_bWaitForAck => ps.m_WaitQueueReliable # <<>>

(* A peer that stopped the flow is not waited for: the RNR condition and   *)
(* the wait for an acknowledgement, which share m_Timer, exclude each      *)
(* other.                                                                  *)
StoppedPeerIsNotWaitedFor == ~(ps.m_bPeerStoppedFlow /\ ps.m_bWaitForAck)

(* The station believes a frame is being written exactly while one is: it  *)
(* hands over one at a time.  This is so until a completion that an        *)
(* earlier suspension left queued runs on the restarted station.           *)
OneFrameAtATime == ~misled => ps.writes = IF ps.m_bAwaitsNextHDLCFrame THEN 0 ELSE 1

(* Whatever completions were left behind by whatever suspensions: a        *)
(* station that waits for the end of a write is told of one.  Else it      *)
(* would never send again.                                                 *)
AwaitedWriteEnds == ps.m_bAwaitsNextHDLCFrame \/ ps.writes > 0

(* A port that is suspended or killed is never reported alive.             *)
AliveOnlyWhileStarted == Alive!IsAlive => ps.m_bStarted

(* Whatever handlers were still queued when the port was suspended and     *)
(* resumed, a started station has both alive timers running: it never      *)
(* stops supervising the device.                                           *)
SupervisionNeverStops ==
  ps.m_bStarted => Pending(m_StateTimer, "state") /\ Pending(m_ProbeTimer, "probe")

(* Everything that could be sent is being sent: a station that has nothing *)
(* on the line owes the device no probe, no SREJ, no I-frame and no UI     *)
(* frame, for nobody would give it another opportunity.                    *)
NoOpportunityMissed ==
  ps.m_bStarted /\ ps.m_bAwaitsNextHDLCFrame =>
    /\ ~ProbeDue(ps)
    /\ Alive!IsAlive => ~SREJDue(ps) /\ ~IFrameDue(ps) /\ ~UIDue(ps) /\ ~ps.m_bPeerStoppedFlowNew

(* The RNR condition of the peer is polled until it ends: there is always  *)
(* something that leads to the next poll.                                  *)
StoppedPeerIsPolled ==
  ps.m_bStarted /\ ps.m_bPeerStoppedFlow =>
    \/ ps.m_bPeerStoppedFlowNew
    \/ Pending(ps.m_Timer, "query")
    \/ ps.m_bPeerRequiresAck /\ ~ps.m_bPeerStoppedFlowQueried

(* An I-frame that is waited for is sent again if the acknowledgement does *)
(* not come: its retransmission timer is running.  This is what the code   *)
(* means to do, and what it does as long as the device sends no RNR.       *)
RetransmissionIsPending == ps.m_bWaitForAck => Pending(ps.m_Timer, "retransmit")

(* An RR that is owed to the device is sent as soon as the line is free,   *)
(* again as long as the device sends no RNR.                               *)
AcknowledgementIsSent ==
  ps.m_bStarted /\ ps.m_bAwaitsNextHDLCFrame /\ Alive!IsAlive => ~ps.m_bPeerRequiresAck

(* Nothing is handed to a port that is not open.                           *)
NoTransmissionWhileStopped == ~TransmittedWhileStopped
=============================================================================
