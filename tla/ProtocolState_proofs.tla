----------------------- MODULE ProtocolState_proofs -----------------------
(***************************************************************************)
(* What the HDLC station guarantees for all payloads, all frames of the    *)
(* device, every sequence number modulus and every bound on the queues.    *)
(*                                                                         *)
(* Every handler is an update s of the members, passed to                  *)
(* OpportunityForTransmission.  So the invariants of the members are       *)
(* stated for a value s (MembersInv), and the proof shows that each update *)
(* establishes MembersInv(s) and that an opportunity for transmission      *)
(* carries it over to ps'.                                                 *)
(***************************************************************************)
EXTENDS ProtocolState, SequenceTheorems, TLAPS

Waiting(s) == s.m_bWaitForAck => s.m_WaitQueueReliable # <<>>
NotWaitedFor(s) == ~(s.m_bPeerStoppedFlow /\ s.m_bWaitForAck)
OneFrame(s) ==
  /\ s.writes = 0 => IsEmpty(s.m_SendBuffer)
  /\ IsEmpty(s.m_SendBuffer) /\ ~s.m_bStarted => s.writes = 0
  /\ s.m_bAwaitsNextHDLCFrame \/ s.writes > 0
Polled(s) ==
  s.m_bStarted /\ s.m_bPeerStoppedFlow =>
    \/ s.m_bPeerStoppedFlowNew
    \/ Pending(s.m_Timer, "query")
    \/ s.m_bPeerRequiresAck /\ ~s.m_bPeerStoppedFlowQueried

MembersInv(s) ==
  /\ s \in PSType
  /\ Waiting(s)
  /\ NotWaitedFor(s)
  /\ OneFrame(s)
  /\ Polled(s)

\* Until the station is misled: the frame being written is written alone.
Alone(s) == s.writes = IF s.m_bAwaitsNextHDLCFrame THEN 0 ELSE 1

\* In the middle of the handling of an RNR, a stopped peer is waited for.
WeakInv(s) == s \in PSType /\ Waiting(s) /\ OneFrame(s) /\ Polled(s)

\* What an opportunity for transmission leaves behind.
Exploited(s, alive) ==
  s.m_bStarted /\ s.m_bAwaitsNextHDLCFrame =>
    /\ ~ProbeDue(s)
    /\ alive => ~SREJDue(s) /\ ~IFrameDue(s) /\ ~UIDue(s) /\ ~s.m_bPeerStoppedFlowNew

-----------------------------------------------------------------------------
(* Facts about the types of the members.                                   *)

(* A number of the sequence space has its neighbours in it.                *)
LEMMA SeqNumberFacts ==
  /\ 0 \in SeqNumbers
  /\ SeqNumbers \subseteq Nat
  /\ \A n \in Nat: n % SeqModulus \in SeqNumbers
  /\ \A n \in SeqNumbers: Succ(n) \in SeqNumbers /\ Pred(n) \in SeqNumbers
<1>0. SeqModulus \in Nat /\ SeqModulus > 1
  BY ConstantsAssumption
<1>1. \A n \in Nat: n % SeqModulus \in 0..(SeqModulus - 1)
  BY <1>0
<1>2. ASSUME NEW n \in 0..(SeqModulus - 1)
      PROVE n + 1 \in Nat /\ n + SeqModulus - 1 \in Nat
  BY <1>0
<1> QED
  BY <1>0, <1>1, <1>2 DEF SeqNumbers, Succ, Pred

(* A frame that was not filled in is a frame.                              *)
LEMMA UnsetFrameType == UnsetFrame \in Frame /\ IsEmpty(UnsetFrame)
  BY SeqNumberFacts DEF UnsetFrame, Frame, FrameTypes, IsEmpty

(* No operation on m_Timer leaves its type, and none but the ones named    *)
(* takes away a pending wait.                                              *)
LEMMA TimerFacts ==
  ASSUME NEW timer \in TimerType(Waits)
  PROVE  /\ IdleTimer \in TimerType(Waits)
         /\ Cancel(timer) \in TimerType(Waits)
         /\ \A w \in Waits:
              /\ AsyncWait(timer, w) \in TimerType(Waits)
              /\ AsyncWait(Cancel(timer), w) \in TimerType(Waits)
              /\ Pending(AsyncWait(timer, w), w)
              /\ Pending(AsyncWait(Cancel(timer), w), w)
         /\ Expire(timer) \in TimerType(Waits)
         /\ CanExpire(timer) /\ Pending(timer, "query") => Pending(Expire(timer), "query")
         /\ Dispatch(timer) \in TimerType(Waits)
         /\ timer.queued = "retransmit" /\ Pending(timer, "query") => Pending(Dispatch(timer), "query")
  BY DEF TimerType, IdleTimer, AsyncWait, Cancel, Expire, Dispatch, CanExpire, Pending, Waits, Off

-----------------------------------------------------------------------------
(* Transmissions.                                                          *)

\* What a transmission leaves behind.
Sent(s) ==
  /\ MembersInv(ps')
  /\ ps'.m_bStarted = s.m_bStarted
  /\ ps'.m_SerialPortHandler = s.m_SerialPortHandler
  /\ ~ps'.m_bAwaitsNextHDLCFrame
  /\ Alone(s) => Alone(ps')

(* A frame handed over in a consistent state is written alone.             *)
LEMMA TransmitFacts ==
  ASSUME NEW s, MembersInv(s), s.m_bAwaitsNextHDLCFrame,
         NEW frame \in Frame, ~IsEmpty(frame), Transmit(s, frame)
  PROVE  Sent(s)
<1> DEFINE n == s.writes + 1
           t == [s EXCEPT !.m_bAwaitsNextHDLCFrame = FALSE, !.m_SendBuffer = frame, !.writes = n]
<1>1. ps' = t
  BY DEF Transmit
<1>2. s \in PSType /\ s.writes \in Nat
  BY DEF MembersInv, PSType
<1>3. n \in Nat /\ n = s.writes + 1 /\ n > 0
  BY <1>2
<1> HIDE DEF n
<1>3a. t \in PSType
  BY <1>2, <1>3 DEF PSType
<1>4. /\ ~t.m_bAwaitsNextHDLCFrame
      /\ t.m_SendBuffer = frame
      /\ t.writes = n
      /\ t.m_bStarted = s.m_bStarted
      /\ t.m_SerialPortHandler = s.m_SerialPortHandler
      /\ t.m_bWaitForAck = s.m_bWaitForAck
      /\ t.m_WaitQueueReliable = s.m_WaitQueueReliable
      /\ t.m_bPeerStoppedFlow = s.m_bPeerStoppedFlow
      /\ t.m_bPeerStoppedFlowNew = s.m_bPeerStoppedFlowNew
      /\ t.m_Timer = s.m_Timer
      /\ t.m_bPeerRequiresAck = s.m_bPeerRequiresAck
      /\ t.m_bPeerStoppedFlowQueried = s.m_bPeerStoppedFlowQueried
  BY <1>2 DEF PSType
<1> HIDE DEF t
<1>5. Waiting(t) /\ NotWaitedFor(t)
  BY <1>4 DEF MembersInv, Waiting, NotWaitedFor
<1>6. OneFrame(t)
  BY <1>3, <1>4 DEF MembersInv, OneFrame
<1>7. Polled(t)
  BY <1>4 DEF MembersInv, Polled
<1>8. Alone(s) => Alone(t)
  BY <1>3, <1>4 DEF Alone
<1> QED
  BY <1>1, <1>4, <1>5, <1>6, <1>7, <1>8, <1>3a DEF MembersInv, Sent

(* The frames the station builds.                                          *)
LEMMA PreparedFrames ==
  ASSUME NEW s \in PSType, NEW poll \in BOOLEAN
  PROVE  /\ PrepareUFrameTEST \in Frame /\ ~IsEmpty(PrepareUFrameTEST)
         /\ SREJDue(s) => PrepareSFrameSREJ(s) \in Frame /\ ~IsEmpty(PrepareSFrameSREJ(s))
         /\ IFrameDue(s) => PrepareIFrame(s) \in Frame /\ ~IsEmpty(PrepareIFrame(s))
         /\ PrepareSFrameRR(s, poll) \in Frame /\ ~IsEmpty(PrepareSFrameRR(s, poll))
         /\ UIDue(s) => PrepareUFrameUI(s) \in Frame /\ ~IsEmpty(PrepareUFrameUI(s))
<1> USE UnsetFrameType DEF Frame, FrameTypes, IsEmpty
<1>1. PrepareUFrameTEST \in Frame /\ ~IsEmpty(PrepareUFrameTEST)
  BY DEF PrepareUFrameTEST
<1>2. ASSUME SREJDue(s)
      PROVE  PrepareSFrameSREJ(s) \in Frame /\ ~IsEmpty(PrepareSFrameSREJ(s))
  <2>1. Head(s.m_SREJs) \in Nat
    BY <1>2 DEF SREJDue, PSType
  <2>2. Head(s.m_SREJs) % SeqModulus \in SeqNumbers
    BY <2>1, SeqNumberFacts
  <2> QED
    BY <2>2 DEF PrepareSFrameSREJ
<1>3. ASSUME IFrameDue(s)
      PROVE  PrepareIFrame(s) \in Frame /\ ~IsEmpty(PrepareIFrame(s))
  <2>1. Head(s.m_WaitQueueReliable) \in Payload
    BY <1>3 DEF IFrameDue, PSType
  <2>2. s.m_SSeqOutgoing \in SeqNumbers /\ s.m_RSeqIncoming \in SeqNumbers
    BY DEF PSType
  <2> QED
    BY <2>1, <2>2 DEF PrepareIFrame
<1>4. PrepareSFrameRR(s, poll) \in Frame /\ ~IsEmpty(PrepareSFrameRR(s, poll))
  <2>1. s.m_RSeqIncoming \in SeqNumbers
    BY DEF PSType
  <2> QED
    BY <2>1 DEF PrepareSFrameRR
<1>5. ASSUME UIDue(s)
      PROVE  PrepareUFrameUI(s) \in Frame /\ ~IsEmpty(PrepareUFrameUI(s))
  <2>1. Head(s.m_WaitQueueUnreliable) \in Payload
    BY <1>5 DEF UIDue, PSType
  <2> QED
    BY <2>1 DEF PrepareUFrameUI
<1> QED
  BY <1>1, <1>2, <1>3, <1>4, <1>5

(* A transmitted TEST probe leaves the members consistent.                 *)
LEMMA SendProbeFacts ==
  ASSUME NEW s, MembersInv(s), s.m_bAwaitsNextHDLCFrame, SendProbe(s)
  PROVE  Sent(s)
<1> DEFINE t == [s EXCEPT !.m_bSendProbe = FALSE]
<1>1. s \in PSType
  BY DEF MembersInv
<1>2. t \in PSType
  BY <1>1 DEF PSType
<1>3. /\ t.m_bStarted = s.m_bStarted
      /\ t.m_SerialPortHandler = s.m_SerialPortHandler
      /\ t.m_bAwaitsNextHDLCFrame
      /\ t.writes = s.writes
      /\ MembersInv(t)
  BY <1>1, <1>2 DEF PSType, MembersInv, Waiting, NotWaitedFor, OneFrame, Polled
<1>4. Transmit(t, PrepareUFrameTEST)
  BY DEF SendProbe
<1> HIDE DEF t
<1> QED
  BY <1>1, <1>3, <1>4, PreparedFrames, TransmitFacts DEF Sent, Alone

(* A transmitted SREJ leaves the members consistent.                       *)
LEMMA SendSREJFacts ==
  ASSUME NEW s, MembersInv(s), s.m_bAwaitsNextHDLCFrame, SREJDue(s), SendSREJ(s)
  PROVE  Sent(s)
<1> DEFINE t == [s EXCEPT !.m_SREJs = Tail(@)]
<1>1. s \in PSType
  BY DEF MembersInv
<1>2. Tail(s.m_SREJs) \in Seq(Nat)
  BY <1>1 DEF SREJDue, PSType
<1>3. t \in PSType
  BY <1>1, <1>2 DEF PSType
<1>4. /\ t.m_bStarted = s.m_bStarted
      /\ t.m_SerialPortHandler = s.m_SerialPortHandler
      /\ t.m_bAwaitsNextHDLCFrame
      /\ t.writes = s.writes
      /\ MembersInv(t)
  BY <1>1, <1>3 DEF PSType, MembersInv, Waiting, NotWaitedFor, OneFrame, Polled
<1>5. Transmit(t, PrepareSFrameSREJ(s))
  BY DEF SendSREJ
<1> HIDE DEF t
<1> QED
  BY <1>1, <1>4, <1>5, PreparedFrames, TransmitFacts DEF Sent, Alone

(* A transmitted I frame stays queued and is waited for.                   *)
LEMMA SendIFrameFacts ==
  ASSUME NEW s, MembersInv(s), s.m_bAwaitsNextHDLCFrame, IFrameDue(s), SendIFrame(s)
  PROVE  Sent(s)
<1> DEFINE t == [s EXCEPT !.m_bWaitForAck = TRUE, !.m_bPeerRequiresAck = FALSE,
                          !.m_Timer = AsyncWait(@, "retransmit")]
<1>1. s \in PSType
  BY DEF MembersInv
<1>2. AsyncWait(s.m_Timer, "retransmit") \in TimerType(Waits)
  BY <1>1, TimerFacts DEF PSType, Waits
<1>3. t \in PSType
  BY <1>1, <1>2 DEF PSType
<1>4. /\ t.m_bStarted = s.m_bStarted
      /\ t.m_SerialPortHandler = s.m_SerialPortHandler
      /\ t.m_bAwaitsNextHDLCFrame = s.m_bAwaitsNextHDLCFrame
      /\ t.m_SendBuffer = s.m_SendBuffer
      /\ t.writes = s.writes
      /\ t.m_WaitQueueReliable = s.m_WaitQueueReliable
      /\ t.m_bPeerStoppedFlow = s.m_bPeerStoppedFlow
  BY <1>1 DEF PSType
<1>5. Transmit(t, PrepareIFrame(s))
  BY DEF SendIFrame
<1> HIDE DEF t
<1>6. MembersInv(t)
  BY <1>3, <1>4 DEF MembersInv, IFrameDue, Waiting, NotWaitedFor, OneFrame, Polled
<1> QED
  BY <1>1, <1>4, <1>5, <1>6, PreparedFrames, TransmitFacts DEF Sent, Alone

(* An RR that polls a stopped peer leaves the query timer running.         *)
LEMMA SendRRFacts ==
  ASSUME NEW s, MembersInv(s), s.m_bAwaitsNextHDLCFrame, RRDue(s), SendRR(s)
  PROVE  Sent(s)
<1> DEFINE poll == s.m_bPeerStoppedFlow /\ ~s.m_bPeerStoppedFlowQueried
           t == [s EXCEPT !.m_bPeerRequiresAck = FALSE]
           u == [t EXCEPT !.m_bPeerStoppedFlowQueried = TRUE,
                          !.m_Timer = AsyncWait(Cancel(@), "query")]
<1>1. s \in PSType
  BY DEF MembersInv
<1>2. /\ AsyncWait(Cancel(s.m_Timer), "query") \in TimerType(Waits)
      /\ Pending(AsyncWait(Cancel(s.m_Timer), "query"), "query")
  BY <1>1, TimerFacts DEF PSType, Waits
<1>3. t \in PSType
  BY <1>1 DEF PSType
<1>4. u \in PSType
  BY <1>1, <1>2 DEF PSType
<1>5. /\ t.m_bStarted = s.m_bStarted
      /\ t.m_SerialPortHandler = s.m_SerialPortHandler
      /\ t.m_bAwaitsNextHDLCFrame = s.m_bAwaitsNextHDLCFrame
      /\ t.m_SendBuffer = s.m_SendBuffer
      /\ t.writes = s.writes
      /\ t.m_WaitQueueReliable = s.m_WaitQueueReliable
      /\ t.m_bPeerStoppedFlow = s.m_bPeerStoppedFlow
      /\ t.m_bPeerStoppedFlowNew = s.m_bPeerStoppedFlowNew
      /\ t.m_bPeerStoppedFlowQueried = s.m_bPeerStoppedFlowQueried
      /\ t.m_bWaitForAck = s.m_bWaitForAck
      /\ t.m_Timer = s.m_Timer
  BY <1>1 DEF PSType
<1>6. /\ u.m_bStarted = s.m_bStarted
      /\ u.m_SerialPortHandler = s.m_SerialPortHandler
      /\ u.m_bAwaitsNextHDLCFrame = s.m_bAwaitsNextHDLCFrame
      /\ u.m_SendBuffer = s.m_SendBuffer
      /\ u.writes = s.writes
      /\ u.m_WaitQueueReliable = s.m_WaitQueueReliable
      /\ u.m_bPeerStoppedFlow = s.m_bPeerStoppedFlow
      /\ u.m_bWaitForAck = s.m_bWaitForAck
      /\ Pending(u.m_Timer, "query")
  BY <1>1, <1>2 DEF PSType
<1>7. Transmit(IF poll THEN u ELSE t, PrepareSFrameRR(s, poll))
  BY DEF SendRR
<1>8. poll \in BOOLEAN
  OBVIOUS
<1>9. PrepareSFrameRR(s, poll) \in Frame /\ ~IsEmpty(PrepareSFrameRR(s, poll))
  BY <1>1, <1>8, PreparedFrames
<1> HIDE DEF t, u
<1>10. CASE poll
  <2>1. MembersInv(u)
    BY <1>4, <1>6 DEF MembersInv, Waiting, NotWaitedFor, OneFrame, Polled
  <2> QED
    BY <1>6, <1>7, <1>9, <1>10, <2>1, TransmitFacts DEF Sent, Alone
<1>11. CASE ~poll
  <2>1. MembersInv(t)
    BY <1>3, <1>5, <1>11 DEF MembersInv, RRDue, Waiting, NotWaitedFor, OneFrame, Polled
  <2> QED
    BY <1>5, <1>7, <1>9, <1>11, <2>1, TransmitFacts DEF Sent, Alone
<1> QED
  BY <1>10, <1>11

(* Starting the query timer for a new RNR condition.                       *)
LEMMA StartQueryTimerFacts ==
  ASSUME NEW s, MembersInv(s)
  PROVE  LET t == StartQueryTimer(s)
         IN /\ MembersInv(t)
            /\ t.m_bStarted = s.m_bStarted
            /\ t.m_SerialPortHandler = s.m_SerialPortHandler
            /\ t.m_bAwaitsNextHDLCFrame = s.m_bAwaitsNextHDLCFrame
            /\ t.writes = s.writes
            /\ ProbeDue(t) = ProbeDue(s)
            /\ SREJDue(t) <=> SREJDue(s)
            /\ IFrameDue(t) <=> IFrameDue(s)
            /\ UIDue(t) <=> UIDue(s)
            /\ t.m_WaitQueueUnreliable = s.m_WaitQueueUnreliable
            /\ ~t.m_bPeerStoppedFlowNew
<1> DEFINE t == [s EXCEPT !.m_bPeerStoppedFlowNew = FALSE, !.m_Timer = AsyncWait(Cancel(@), "query")]
<1>1. s \in PSType
  BY DEF MembersInv
<1>2. /\ AsyncWait(Cancel(s.m_Timer), "query") \in TimerType(Waits)
      /\ Pending(AsyncWait(Cancel(s.m_Timer), "query"), "query")
  BY <1>1, TimerFacts DEF PSType, Waits
<1>3. t \in PSType
  BY <1>1, <1>2 DEF PSType
<1>4. /\ t.m_bStarted = s.m_bStarted
      /\ t.m_SerialPortHandler = s.m_SerialPortHandler
      /\ t.m_bAwaitsNextHDLCFrame = s.m_bAwaitsNextHDLCFrame
      /\ t.m_bSendProbe = s.m_bSendProbe
      /\ t.m_SREJs = s.m_SREJs
      /\ t.m_SendBuffer = s.m_SendBuffer
      /\ t.writes = s.writes
      /\ t.m_WaitQueueReliable = s.m_WaitQueueReliable
      /\ t.m_WaitQueueUnreliable = s.m_WaitQueueUnreliable
      /\ t.m_bPeerStoppedFlow = s.m_bPeerStoppedFlow
      /\ ~t.m_bPeerStoppedFlowNew
      /\ t.m_bWaitForAck = s.m_bWaitForAck
      /\ Pending(t.m_Timer, "query")
  BY <1>1, <1>2 DEF PSType
<1>5. CASE s.m_bPeerStoppedFlowNew
  <2>1. StartQueryTimer(s) = t
    BY <1>5 DEF StartQueryTimer
  <2> HIDE DEF t
  <2>2. MembersInv(t)
    BY <1>3, <1>4 DEF MembersInv, Waiting, NotWaitedFor, OneFrame, Polled
  <2> QED
    BY <1>4, <2>1, <2>2 DEF ProbeDue, SREJDue, IFrameDue, UIDue
<1>6. CASE ~s.m_bPeerStoppedFlowNew
  <2>1. StartQueryTimer(s) = s
    BY <1>6 DEF StartQueryTimer
  <2> QED
    BY <1>6, <2>1
<1> QED
  BY <1>5, <1>6

(* A transmitted UI frame leaves its queue.                                *)
LEMMA SendUIFacts ==
  ASSUME NEW s, MembersInv(s), s.m_bAwaitsNextHDLCFrame, UIDue(s), SendUI(s)
  PROVE  Sent(s)
<1> DEFINE t == [s EXCEPT !.m_WaitQueueUnreliable = Tail(@)]
<1>1. s \in PSType
  BY DEF MembersInv
<1>2. Tail(s.m_WaitQueueUnreliable) \in Seq(Payload)
  BY <1>1 DEF UIDue, PSType
<1>3. t \in PSType
  BY <1>1, <1>2 DEF PSType
<1>4. /\ t.m_bStarted = s.m_bStarted
      /\ t.m_SerialPortHandler = s.m_SerialPortHandler
      /\ t.m_bAwaitsNextHDLCFrame
      /\ t.writes = s.writes
      /\ MembersInv(t)
  BY <1>1, <1>3 DEF PSType, MembersInv, Waiting, NotWaitedFor, OneFrame, Polled
<1>5. Transmit(t, PrepareUFrameUI(s))
  BY DEF SendUI
<1> HIDE DEF t
<1> QED
  BY <1>1, <1>4, <1>5, PreparedFrames, TransmitFacts DEF Sent, Alone

(* Whichever frame is due, sending it keeps the members consistent.        *)
LEMMA TransmitDueFacts ==
  ASSUME NEW s, MembersInv(s), s.m_bAwaitsNextHDLCFrame, TransmitDue(s)
  PROVE  Sent(s)
<1>1. CASE ProbeDue(s) /\ SendProbe(s)
  BY <1>1, SendProbeFacts
<1>2. CASE SREJDue(s) /\ SendSREJ(s)
  BY <1>2, SendSREJFacts
<1>3. CASE IFrameDue(s) /\ SendIFrame(s)
  BY <1>3, SendIFrameFacts
<1>4. CASE RRDue(s) /\ SendRR(s)
  BY <1>4, SendRRFacts
<1>5. CASE UIDue(s) /\ SendUI(StartQueryTimer(s))
  <2>1. /\ MembersInv(StartQueryTimer(s)) /\ UIDue(StartQueryTimer(s))
        /\ StartQueryTimer(s).m_bAwaitsNextHDLCFrame
    BY <1>5, StartQueryTimerFacts
  <2>2. Sent(StartQueryTimer(s))
    BY <1>5, <2>1, SendUIFacts
  <2> QED
    BY <2>2, StartQueryTimerFacts DEF Sent, Alone
<1> QED
  BY <1>1, <1>2, <1>3, <1>4, <1>5 DEF TransmitDue

(* A packet of a client joins its queue.                                   *)
LEMMA EnqueueFacts ==
  ASSUME NEW s, MembersInv(s), NEW packet \in DataPacket
  PROVE  /\ MembersInv(Enqueue(s, packet))
         /\ Enqueue(s, packet).m_bAwaitsNextHDLCFrame = s.m_bAwaitsNextHDLCFrame
         /\ Enqueue(s, packet).writes = s.writes
         /\ Enqueue(s, packet).m_bStarted = s.m_bStarted
         /\ Enqueue(s, packet).m_SerialPortHandler = s.m_SerialPortHandler
<1> DEFINE r == [s EXCEPT !.m_WaitQueueReliable = Append(@, packet.payload)]
           u == [s EXCEPT !.m_WaitQueueUnreliable = Append(@, packet.payload)]
<1>1. /\ s \in PSType
      /\ packet.payload \in Payload
      /\ s.m_WaitQueueReliable \in Seq(Payload)
      /\ s.m_WaitQueueUnreliable \in Seq(Payload)
  BY DEF MembersInv, DataPacket, PSType
<1>2. /\ Append(s.m_WaitQueueReliable, packet.payload) \in Seq(Payload)
      /\ Append(s.m_WaitQueueReliable, packet.payload) # <<>>
      /\ Append(s.m_WaitQueueUnreliable, packet.payload) \in Seq(Payload)
  BY <1>1, AppendProperties
<1>3. r \in PSType /\ u \in PSType
  BY <1>1, <1>2 DEF PSType
<1>4. /\ r.m_bStarted = s.m_bStarted
      /\ r.m_SerialPortHandler = s.m_SerialPortHandler
      /\ r.m_bAwaitsNextHDLCFrame = s.m_bAwaitsNextHDLCFrame
      /\ r.writes = s.writes
      /\ r.m_WaitQueueReliable # <<>>
      /\ MembersInv(r)
  BY <1>1, <1>2, <1>3 DEF PSType, MembersInv, Waiting, NotWaitedFor, OneFrame, Polled
<1>5. /\ u.m_bStarted = s.m_bStarted
      /\ u.m_SerialPortHandler = s.m_SerialPortHandler
      /\ u.m_bAwaitsNextHDLCFrame = s.m_bAwaitsNextHDLCFrame
      /\ u.writes = s.writes
      /\ MembersInv(u)
  BY <1>1, <1>3 DEF PSType, MembersInv, Waiting, NotWaitedFor, OneFrame, Polled
<1> QED
  BY <1>4, <1>5 DEF Enqueue

(* An opportunity for transmission keeps the members consistent, and does  *)
(* not let a chance to transmit pass.                                      *)
LEMMA OpportunityFacts ==
  ASSUME NEW s, MembersInv(s), offers \subseteq DataPacket, OpportunityForTransmission(s)
  PROVE  /\ MembersInv(ps')
         /\ ps'.m_bStarted = s.m_bStarted
         /\ ps'.m_SerialPortHandler = s.m_SerialPortHandler
         /\ Exploited(ps', (Alive!IsAlive)')
         /\ Alone(s) => Alone(ps')
<1>1. ASSUME NEW t, MembersInv(t), t.m_bAwaitsNextHDLCFrame, TransmitDue(t), t.m_bStarted = s.m_bStarted,
             t.m_SerialPortHandler = s.m_SerialPortHandler, Alone(s) => Alone(t)
      PROVE  /\ MembersInv(ps')
             /\ ps'.m_bStarted = s.m_bStarted
             /\ ps'.m_SerialPortHandler = s.m_SerialPortHandler
             /\ Exploited(ps', (Alive!IsAlive)')
             /\ Alone(s) => Alone(ps')
  BY <1>1, TransmitDueFacts DEF Sent, Exploited
<1>2. CASE ~s.m_bAwaitsNextHDLCFrame /\ ps' = s
  BY <1>2 DEF Exploited
<1>3. CASE s.m_bAwaitsNextHDLCFrame /\ TransmitDue(s)
  BY <1>1, <1>3
<1>4. CASE ~ProbeDue(s) /\ ~(Alive!IsAlive)' /\ ps' = s
  BY <1>4 DEF Exploited
<1>5. CASE /\ s.m_bAwaitsNextHDLCFrame
           /\ NothingDue(s)
           /\ LET t == StartQueryTimer(s)
                  idle == t.m_WaitQueueReliable = <<>>
              IN IF idle \/ t.m_bPeerStoppedFlow
                 THEN QueryForPayload(t, idle /\ ~t.m_bPeerStoppedFlow, TRUE)
                 ELSE ps' = t
  <2> DEFINE t == StartQueryTimer(s)
  <2>1. /\ MembersInv(t)
        /\ t.m_bAwaitsNextHDLCFrame
        /\ Alone(s) => Alone(t)
        /\ t.m_bStarted = s.m_bStarted
        /\ t.m_SerialPortHandler = s.m_SerialPortHandler
        /\ ~ProbeDue(t) /\ ~SREJDue(t) /\ ~IFrameDue(t) /\ ~UIDue(t)
        /\ ~t.m_bPeerStoppedFlowNew
    BY <1>5, StartQueryTimerFacts DEF NothingDue, Alone
  <2>2. \/ ps' = t
        \/ \E packet \in offers: TransmitDue(Enqueue(t, packet))
    BY <1>5 DEF QueryForPayload
  <2> HIDE DEF t
  <2>3. CASE ps' = t
    BY <2>1, <2>3 DEF Exploited
  <2>4. ASSUME NEW packet \in offers, TransmitDue(Enqueue(t, packet))
        PROVE  /\ MembersInv(ps')
               /\ ps'.m_bStarted = s.m_bStarted
               /\ ps'.m_SerialPortHandler = s.m_SerialPortHandler
               /\ Exploited(ps', (Alive!IsAlive)')
               /\ Alone(s) => Alone(ps')
    <3>1. /\ MembersInv(Enqueue(t, packet))
          /\ Enqueue(t, packet).m_bAwaitsNextHDLCFrame
          /\ Alone(s) => Alone(Enqueue(t, packet))
          /\ Enqueue(t, packet).m_bStarted = s.m_bStarted
          /\ Enqueue(t, packet).m_SerialPortHandler = s.m_SerialPortHandler
      BY <2>1, EnqueueFacts DEF Alone
    <3> QED
      BY <1>1, <2>4, <3>1
  <2> QED
    BY <2>2, <2>3, <2>4
<1> QED
  BY <1>2, <1>3, <1>4, <1>5 DEF OpportunityForTransmission

-----------------------------------------------------------------------------
(* Received frames.                                                        *)

(* A gap in the received numbers is asked for with natural numbers.        *)
LEMMA SkippedFacts ==
  ASSUME NEW s \in PSType, NEW ns \in SeqNumbers
  PROVE  Skipped(s, ns) \in Seq(Nat)
<1>1. s.m_RSeqIncoming \in 0..(SeqModulus - 1) /\ ns \in 0..(SeqModulus - 1)
  BY DEF PSType, SeqNumbers
<1>2. ns + SeqModulus - s.m_RSeqIncoming \in Nat
  BY <1>1, ConstantsAssumption
<1>3. (ns + SeqModulus - s.m_RSeqIncoming) % SeqModulus \in Nat
  BY <1>2, SeqNumberFacts
<1>4. \A i \in 1..((ns + SeqModulus - s.m_RSeqIncoming) % SeqModulus): s.m_RSeqIncoming + i - 1 \in Nat
  BY <1>1, <1>3
<1> QED
  BY <1>3, <1>4, IsASeq DEF Skipped

\* An update of the members that leaves the line alone.
Kept(s, t) ==
  /\ t.m_bStarted = s.m_bStarted
  /\ t.m_SerialPortHandler = s.m_SerialPortHandler
  /\ t.m_bAwaitsNextHDLCFrame = s.m_bAwaitsNextHDLCFrame
  /\ t.m_SendBuffer = s.m_SendBuffer
  /\ t.writes = s.writes

(* Taking over the payload of a received frame keeps the members.          *)
LEMMA AcceptPayloadFacts ==
  ASSUME NEW s, MembersInv(s), NEW frame \in Frame
  PROVE  MembersInv(AcceptPayload(s, frame)) /\ Kept(s, AcceptPayload(s, frame))
<1> DEFINE t == [s EXCEPT
                  !.m_SREJs = IF frame.ns = s.m_RSeqIncoming THEN @ ELSE Skipped(s, frame.ns),
                  !.m_RSeqIncoming = Succ(frame.ns),
                  !.m_bPeerRequiresAck = TRUE]
<1>1. s \in PSType /\ frame.ns \in SeqNumbers
  BY DEF MembersInv, Frame
<1>2. /\ (IF frame.ns = s.m_RSeqIncoming THEN s.m_SREJs ELSE Skipped(s, frame.ns)) \in Seq(Nat)
      /\ Succ(frame.ns) \in SeqNumbers
  BY <1>1, SkippedFacts, SeqNumberFacts DEF PSType
<1>3. t \in PSType
  BY <1>1, <1>2 DEF PSType
<1>4. /\ Kept(s, t)
      /\ t.m_WaitQueueReliable = s.m_WaitQueueReliable
      /\ t.m_bPeerStoppedFlow = s.m_bPeerStoppedFlow
      /\ t.m_bPeerStoppedFlowNew = s.m_bPeerStoppedFlowNew
      /\ t.m_bPeerStoppedFlowQueried = s.m_bPeerStoppedFlowQueried
      /\ t.m_bPeerRequiresAck
      /\ t.m_bWaitForAck = s.m_bWaitForAck
      /\ t.m_Timer = s.m_Timer
  BY <1>1 DEF PSType, Kept
<1>5. AcceptPayload(s, frame) \in {s, t}
  BY DEF AcceptPayload
<1> HIDE DEF t
<1>6. MembersInv(t)
  BY <1>3, <1>4 DEF Kept, MembersInv, Waiting, NotWaitedFor, OneFrame, Polled
<1> QED
  BY <1>4, <1>5, <1>6 DEF Kept

(* The wait for an acknowledgement is given up.  While the peer has        *)
(* stopped the flow, m_Timer may be the query timer, and must not be       *)
(* cancelled unless a new RNR condition is about to start it again.        *)
LEMMA StopWaitingFacts ==
  ASSUME NEW s, WeakInv(s), ~s.m_bPeerStoppedFlow \/ s.m_bPeerStoppedFlowNew
  PROVE  LET t == StopWaiting(s)
         IN /\ MembersInv(t)
            /\ Kept(s, t)
            /\ ~t.m_bWaitForAck
            /\ t.m_bPeerStoppedFlow = s.m_bPeerStoppedFlow
            /\ t.m_bPeerStoppedFlowNew = s.m_bPeerStoppedFlowNew
            /\ t.m_WaitQueueReliable = s.m_WaitQueueReliable
<1> DEFINE t == [s EXCEPT !.m_bWaitForAck = FALSE, !.m_Timer = Cancel(@)]
<1>1. s \in PSType
  BY DEF WeakInv
<1>2. t \in PSType
  BY <1>1, TimerFacts DEF PSType
<1>3. /\ Kept(s, t)
      /\ ~t.m_bWaitForAck
      /\ t.m_bPeerStoppedFlow = s.m_bPeerStoppedFlow
      /\ t.m_bPeerStoppedFlowNew = s.m_bPeerStoppedFlowNew
      /\ t.m_WaitQueueReliable = s.m_WaitQueueReliable
  BY <1>1 DEF PSType, Kept
<1>4. StopWaiting(s) = t
  BY DEF StopWaiting
<1> HIDE DEF t
<1>5. MembersInv(t)
  BY <1>2, <1>3 DEF Kept, WeakInv, MembersInv, Waiting, NotWaitedFor, OneFrame, Polled
<1> QED
  BY <1>3, <1>4, <1>5

(* A peer that is ready again owes no query any more.                      *)
LEMMA RestartFlowFacts ==
  ASSUME NEW s, MembersInv(s)
  PROVE  /\ MembersInv(RestartFlow(s))
         /\ Kept(s, RestartFlow(s))
         /\ ~RestartFlow(s).m_bPeerStoppedFlow
<1> DEFINE t == [s EXCEPT !.m_bWaitForAck = FALSE, !.m_Timer = Cancel(@), !.m_bPeerStoppedFlow = FALSE]
<1>1. s \in PSType
  BY DEF MembersInv
<1>2. t \in PSType
  BY <1>1, TimerFacts DEF PSType
<1>3. Kept(s, t) /\ ~t.m_bWaitForAck /\ ~t.m_bPeerStoppedFlow
  BY <1>1 DEF PSType, Kept
<1>4. RestartFlow(s) = IF s.m_bPeerStoppedFlow THEN t ELSE s
  BY <1>1 DEF RestartFlow, StopWaiting, PSType
<1> HIDE DEF t
<1>5. MembersInv(t)
  BY <1>2, <1>3 DEF Kept, MembersInv, Waiting, NotWaitedFor, OneFrame, Polled
<1> QED
  BY <1>3, <1>4, <1>5 DEF Kept

(* The acknowledged packet leaves the queue, which holds it.               *)
LEMMA PopAcknowledgedFacts ==
  ASSUME NEW s, WeakInv(s), NEW frame,
         s.m_bWaitForAck => ~s.m_bPeerStoppedFlow \/ s.m_bPeerStoppedFlowNew
  PROVE  LET t == PopAcknowledged(s, frame)
         IN /\ WeakInv(t)
            /\ Kept(s, t)
            /\ t.m_bWaitForAck => s.m_bWaitForAck
            /\ t.m_bPeerStoppedFlow = s.m_bPeerStoppedFlow
            /\ t.m_bPeerStoppedFlowNew = s.m_bPeerStoppedFlowNew
<1> DEFINE w == StopWaiting(s)
           t == [w EXCEPT !.m_WaitQueueReliable = Tail(@)]
<1>1. CASE Acknowledges(frame, s)
  <2>1. s.m_bWaitForAck /\ s.m_WaitQueueReliable # <<>>
    BY <1>1 DEF Acknowledges, WeakInv, Waiting
  <2>2. /\ MembersInv(w)
        /\ Kept(s, w)
        /\ ~w.m_bWaitForAck
        /\ w.m_bPeerStoppedFlow = s.m_bPeerStoppedFlow
        /\ w.m_bPeerStoppedFlowNew = s.m_bPeerStoppedFlowNew
        /\ w.m_WaitQueueReliable = s.m_WaitQueueReliable
    BY <2>1, StopWaitingFacts
  <2>3. PopAcknowledged(s, frame) = t
    BY <1>1 DEF PopAcknowledged
  <2> HIDE DEF w
  <2>4. w \in PSType /\ Tail(w.m_WaitQueueReliable) \in Seq(Payload)
    BY <2>1, <2>2 DEF MembersInv, PSType
  <2>5. t \in PSType
    BY <2>4 DEF PSType
  <2>6. /\ Kept(w, t)
        /\ t.m_bWaitForAck = w.m_bWaitForAck
        /\ t.m_bPeerStoppedFlow = w.m_bPeerStoppedFlow
        /\ t.m_bPeerStoppedFlowNew = w.m_bPeerStoppedFlowNew
        /\ t.m_bPeerStoppedFlowQueried = w.m_bPeerStoppedFlowQueried
        /\ t.m_bPeerRequiresAck = w.m_bPeerRequiresAck
        /\ t.m_Timer = w.m_Timer
    BY <2>4 DEF PSType, Kept
  <2> HIDE DEF t
  <2>7. Waiting(t) /\ OneFrame(t) /\ Polled(t)
    BY <2>2, <2>6 DEF MembersInv, Kept, Waiting, OneFrame, Polled
  <2> QED
    BY <2>1, <2>2, <2>3, <2>5, <2>6, <2>7 DEF WeakInv, Kept
<1>2. CASE ~Acknowledges(frame, s)
  BY <1>2 DEF PopAcknowledged, Kept
<1> QED
  BY <1>1, <1>2

(* The number the device expects is only noted.                            *)
LEMMA OutgoingNumberFacts ==
  ASSUME NEW s, MembersInv(s), NEW n \in SeqNumbers
  PROVE  LET t == [s EXCEPT !.m_SSeqOutgoing = n]
         IN MembersInv(t) /\ Kept(s, t)
<1> DEFINE t == [s EXCEPT !.m_SSeqOutgoing = n]
<1>1. s \in PSType
  BY DEF MembersInv
<1>2. t \in PSType
  BY <1>1 DEF PSType
<1>3. Kept(s, t) /\ MembersInv(t)
  BY <1>1, <1>2 DEF PSType, Kept, MembersInv, Waiting, NotWaitedFor, OneFrame, Polled
<1> QED
  BY <1>3

(* What an acknowledgement of any kind does keeps the members consistent.  *)
LEMMA AcknowledgementFacts ==
  ASSUME NEW s, MembersInv(s), NEW frame \in Frame
  PROVE  MembersInv(Acknowledgement(s, frame)) /\ Kept(s, Acknowledgement(s, frame))
<1>0. frame.nr \in SeqNumbers /\ Pred(frame.nr) \in SeqNumbers /\ s \in PSType
  BY SeqNumberFacts DEF Frame, MembersInv
<1>1. MembersInv(OnIOrRR(s, frame)) /\ Kept(s, OnIOrRR(s, frame))
  <2> DEFINE t == IF frame.type = "RR" THEN RestartFlow(s) ELSE s
             u == PopAcknowledged(t, frame)
  <2>1. MembersInv(t) /\ Kept(s, t)
    BY RestartFlowFacts DEF Kept
  <2>2. OnIOrRR(s, frame) = [u EXCEPT !.m_SSeqOutgoing = frame.nr]
    BY DEF OnIOrRR
  <2> HIDE DEF t
  <2>3. WeakInv(t) /\ (t.m_bWaitForAck => ~t.m_bPeerStoppedFlow)
    BY <2>1 DEF MembersInv, WeakInv, NotWaitedFor
  <2>4. /\ WeakInv(u)
        /\ Kept(t, u)
        /\ u.m_bWaitForAck => t.m_bWaitForAck
        /\ u.m_bPeerStoppedFlow = t.m_bPeerStoppedFlow
    BY <2>3, PopAcknowledgedFacts
  <2> HIDE DEF u
  <2>5. MembersInv(u)
    BY <2>3, <2>4 DEF MembersInv, WeakInv, NotWaitedFor
  <2> QED
    BY <1>0, <2>1, <2>2, <2>4, <2>5, OutgoingNumberFacts DEF Kept
<1>2. MembersInv(OnRNR(s, frame)) /\ Kept(s, OnRNR(s, frame))
  <2> DEFINE stop == [s EXCEPT !.m_bPeerStoppedFlow = TRUE, !.m_bPeerStoppedFlowNew = TRUE,
                               !.m_bPeerStoppedFlowQueried = FALSE]
             t == IF s.m_bPeerStoppedFlow THEN s ELSE stop
             u == PopAcknowledged(t, frame)
             v == IF s.m_bWaitForAck THEN StopWaiting(u) ELSE u
  <2>1. stop \in PSType
    BY <1>0 DEF PSType
  <2>2. /\ Kept(s, stop)
        /\ stop.m_bPeerStoppedFlow /\ stop.m_bPeerStoppedFlowNew
        /\ stop.m_bWaitForAck = s.m_bWaitForAck
        /\ stop.m_WaitQueueReliable = s.m_WaitQueueReliable
    BY <1>0 DEF PSType, Kept
  <2>3. OnRNR(s, frame) = [v EXCEPT !.m_SSeqOutgoing = frame.nr]
    BY DEF OnRNR
  <2> HIDE DEF stop
  <2>4. /\ WeakInv(t)
        /\ Kept(s, t)
        /\ t.m_bWaitForAck = s.m_bWaitForAck
        /\ s.m_bWaitForAck => t.m_bPeerStoppedFlowNew
    BY <2>1, <2>2 DEF MembersInv, WeakInv, NotWaitedFor, Waiting, OneFrame, Polled, Kept
  <2> HIDE DEF t
  <2>5. /\ WeakInv(u)
        /\ Kept(t, u)
        /\ u.m_bWaitForAck => t.m_bWaitForAck
        /\ u.m_bPeerStoppedFlowNew = t.m_bPeerStoppedFlowNew
    BY <2>4, PopAcknowledgedFacts
  <2> HIDE DEF u
  <2>6. MembersInv(v) /\ Kept(u, v)
    <3>1. CASE s.m_bWaitForAck
      BY <2>4, <2>5, <3>1, StopWaitingFacts
    <3>2. CASE ~s.m_bWaitForAck
      BY <2>4, <2>5, <3>2 DEF WeakInv, MembersInv, NotWaitedFor, Kept
    <3> QED
      BY <3>1, <3>2
  <2> HIDE DEF v
  <2> QED
    BY <1>0, <2>3, <2>4, <2>5, <2>6, OutgoingNumberFacts DEF Kept
<1>3. MembersInv(OnREJ(s, frame)) /\ Kept(s, OnREJ(s, frame))
  <2> DEFINE t == RestartFlow(s)
             u == IF frame.nr = t.m_SSeqOutgoing THEN StopWaiting(t) ELSE t
  <2>1. MembersInv(t) /\ Kept(s, t) /\ ~t.m_bPeerStoppedFlow
    BY RestartFlowFacts
  <2>2. OnREJ(s, frame) = [u EXCEPT !.m_SSeqOutgoing = Pred(frame.nr)]
    BY DEF OnREJ
  <2> HIDE DEF t
  <2>3. MembersInv(u) /\ Kept(t, u)
    BY <2>1, StopWaitingFacts DEF MembersInv, WeakInv, Kept
  <2> HIDE DEF u
  <2> QED
    BY <1>0, <2>1, <2>2, <2>3, OutgoingNumberFacts DEF Kept
<1>4. MembersInv(OnSREJ(s, frame)) /\ Kept(s, OnSREJ(s, frame))
  <2> DEFINE t == RestartFlow(s)
  <2>1. MembersInv(t) /\ Kept(s, t) /\ ~t.m_bPeerStoppedFlow
    BY RestartFlowFacts
  <2>2. OnSREJ(s, frame) = IF t.m_bWaitForAck /\ frame.nr = t.m_SSeqOutgoing THEN StopWaiting(t) ELSE t
    BY DEF OnSREJ
  <2> HIDE DEF t
  <2>3. WeakInv(t)
    BY <2>1 DEF MembersInv, WeakInv
  <2>4. MembersInv(StopWaiting(t)) /\ Kept(t, StopWaiting(t))
    BY <2>1, <2>3, StopWaitingFacts
  <2> QED
    BY <2>1, <2>2, <2>4 DEF Kept
<1>5. MembersInv(s) /\ Kept(s, s)
  BY DEF Kept
<1> QED
  BY <1>1, <1>2, <1>3, <1>4, <1>5 DEF Acknowledgement

-----------------------------------------------------------------------------
(* The steps of AliveState, as far as the station depends on them.         *)

Supervised == Pending(m_StateTimer, "state") /\ Pending(m_ProbeTimer, "probe")

(* The operations on an alive timer keep its type and its wait.            *)
LEMMA AliveTimerFacts ==
  ASSUME NEW w \in {"state", "probe"}, NEW timer \in Alive!TimerType({w})
  PROVE  /\ Alive!Cancel(timer) \in Alive!TimerType({w})
         /\ Alive!AsyncWait(Alive!Cancel(timer), w) \in Alive!TimerType({w})
         /\ Pending(Alive!AsyncWait(Alive!Cancel(timer), w), w)
         /\ Alive!CanExpire(timer) => Alive!Expire(timer) \in Alive!TimerType({w}) /\ Pending(Alive!Expire(timer), w)
         /\ Alive!AsyncWait(Alive!Dispatch(timer), w) \in Alive!TimerType({w})
         /\ Pending(Alive!AsyncWait(Alive!Dispatch(timer), w), w)
  BY DEF Alive!TimerType, Alive!AsyncWait, Alive!Cancel, Alive!Expire, Alive!Dispatch, Alive!CanExpire, Pending, Alive!Off, Off

(* Starting the alive state sets both of its timers going.                 *)
LEMMA AliveStartFacts ==
  ASSUME Alive!TypeOK, Alive!Start
  PROVE  Alive!TypeOK' /\ Supervised' /\ ~(Alive!IsAlive)'
<1>1. m_StateTimer \in Alive!TimerType({"state"}) /\ m_ProbeTimer \in Alive!TimerType({"probe"})
  BY DEF Alive!TypeOK
<1>2. /\ m_StateTimer' \in Alive!TimerType({"state"}) /\ Pending(m_StateTimer', "state")
      /\ m_ProbeTimer' \in Alive!TimerType({"probe"}) /\ Pending(m_ProbeTimer', "probe")
  BY <1>1, AliveTimerFacts DEF Alive!Start
<1>3. 0 \in 0..(ProbesPerBaudRate - 1)
  BY ConstantsAssumption
<1>4. Alive!TypeOK'
  BY <1>2, <1>3 DEF Alive!Start, Alive!Reset, Alive!TypeOK, Alive!AliveStates
<1>5. Supervised'
  BY <1>2 DEF Supervised
<1>6. ~(Alive!IsAlive)'
  BY DEF Alive!Start, Alive!Reset, Alive!IsAlive
<1> QED
  BY <1>4, <1>5, <1>6

(* Stopping the alive state forgets the peer.                              *)
LEMMA AliveStopFacts ==
  ASSUME Alive!TypeOK, Alive!Stop
  PROVE  Alive!TypeOK' /\ ~(Alive!IsAlive)'
<1>1. m_StateTimer \in Alive!TimerType({"state"}) /\ m_ProbeTimer \in Alive!TimerType({"probe"})
  BY DEF Alive!TypeOK
<1>2. m_StateTimer' \in Alive!TimerType({"state"}) /\ m_ProbeTimer' \in Alive!TimerType({"probe"})
  BY <1>1, AliveTimerFacts DEF Alive!Stop
<1>3. 0 \in 0..(ProbesPerBaudRate - 1)
  BY ConstantsAssumption
<1>4. Alive!TypeOK'
  BY <1>2, <1>3 DEF Alive!Stop, Alive!Reset, Alive!TypeOK, Alive!AliveStates
<1>5. ~(Alive!IsAlive)'
  BY DEF Alive!Stop, Alive!Reset, Alive!IsAlive
<1> QED
  BY <1>4, <1>5

(* A received frame keeps the alive timers going.                          *)
LEMMA OnFrameReceivedFacts ==
  ASSUME Alive!TypeOK, Alive!OnFrameReceived
  PROVE  Alive!TypeOK' /\ (Supervised => Supervised')
  BY DEF Alive!OnFrameReceived, Alive!TypeOK, Alive!AliveStates, Supervised

\* A step of the timers of AliveState.
AliveTimerStep ==
  Alive!StateTimerExpires \/ Alive!ProbeTimerExpires \/ Alive!OnStateTimeout \/ Alive!OnProbeTimeout

(* A step of the timers keeps the device supervised and makes no device    *)
(* alive.                                                                  *)
LEMMA AliveTimerStepFacts ==
  ASSUME Alive!TypeOK, AliveTimerStep
  PROVE  /\ Alive!TypeOK'
         /\ Supervised => Supervised'
         /\ (Alive!IsAlive)' => Alive!IsAlive
<1>1. m_StateTimer \in Alive!TimerType({"state"}) /\ m_ProbeTimer \in Alive!TimerType({"probe"})
  BY DEF Alive!TypeOK
<1>2. CASE Alive!StateTimerExpires
  <2>1. m_StateTimer' \in Alive!TimerType({"state"}) /\ Pending(m_StateTimer', "state")
    BY <1>1, <1>2, AliveTimerFacts DEF Alive!StateTimerExpires
  <2> QED
    BY <1>2, <2>1 DEF Alive!StateTimerExpires, Alive!TypeOK, Alive!IsAlive, Supervised
<1>3. CASE Alive!ProbeTimerExpires
  <2>1. m_ProbeTimer' \in Alive!TimerType({"probe"}) /\ Pending(m_ProbeTimer', "probe")
    BY <1>1, <1>3, AliveTimerFacts DEF Alive!ProbeTimerExpires
  <2> QED
    BY <1>3, <2>1 DEF Alive!ProbeTimerExpires, Alive!TypeOK, Alive!IsAlive, Supervised
<1>4. CASE Alive!OnStateTimeout
  <2>1. m_StateTimer' \in Alive!TimerType({"state"}) /\ Pending(m_StateTimer', "state")
    BY <1>1, <1>4, AliveTimerFacts DEF Alive!OnStateTimeout
  <2>2. m_eAliveState' \in Alive!AliveStates /\ m_bFrameWasReceived' \in BOOLEAN
    BY <1>4 DEF Alive!OnStateTimeout, Alive!TypeOK, Alive!AliveStates
  <2>3. (Alive!IsAlive)' => Alive!IsAlive
    BY <1>4 DEF Alive!OnStateTimeout, Alive!IsAlive, Alive!TypeOK, Alive!AliveStates
  <2> QED
    BY <1>4, <2>1, <2>2, <2>3 DEF Alive!OnStateTimeout, Alive!TypeOK, Supervised
<1>5. CASE Alive!OnProbeTimeout
  <2>1. m_ProbeTimer' \in Alive!TimerType({"probe"}) /\ Pending(m_ProbeTimer', "probe")
    BY <1>1, <1>5, AliveTimerFacts DEF Alive!OnProbeTimeout
  <2>2. ProbesPerBaudRate \in Nat \ {0} /\ m_ProbeCounter \in 0..(ProbesPerBaudRate - 1)
    BY ConstantsAssumption DEF Alive!TypeOK
  <2>3. m_ProbeCounter' \in 0..(ProbesPerBaudRate - 1)
    BY <1>5, <2>2 DEF Alive!OnProbeTimeout
  <2> QED
    BY <1>5, <2>1, <2>3 DEF Alive!OnProbeTimeout, Alive!TypeOK, Alive!IsAlive, Supervised
<1> QED
  BY <1>2, <1>3, <1>4, <1>5 DEF AliveTimerStep

-----------------------------------------------------------------------------
(* The inductive invariant of the station.                                 *)

\* A station without its back pointer is not started again.
DetachedIsStopped == ~ps.m_SerialPortHandler => ~ps.m_bStarted /\ ~m_Registered

IInv ==
  /\ TypeOK
  /\ MembersInv(ps)
  /\ Exploited(ps, Alive!IsAlive)
  /\ AliveOnlyWhileStarted
  /\ SupervisionNeverStops
  /\ DetachedIsStopped
  /\ OneFrameAtATime

(* The station starts within the inductive invariant.                      *)
LEMMA InitStationInv == InitStation /\ offers \subseteq DataPacket => IInv
<1> SUFFICES ASSUME InitStation, offers \subseteq DataPacket PROVE IInv
  OBVIOUS
<1>1. ps \in PSType
  <2>1. /\ 0 \in SeqNumbers
        /\ UnsetFrame \in Frame
        /\ IdleTimer \in TimerType(Waits)
        /\ <<>> \in Seq(Nat) /\ <<>> \in Seq(Payload)
    BY SeqNumberFacts, UnsetFrameType DEF IdleTimer, TimerType
  <2> HIDE DEF UnsetFrame, IdleTimer
  <2> QED
    BY <2>1 DEF InitStation, PSType
<1>2. /\ ~ps.m_bStarted /\ ~ps.m_bWaitForAck /\ ps.m_SerialPortHandler
      /\ ps.m_bAwaitsNextHDLCFrame /\ ps.m_SendBuffer = UnsetFrame /\ ps.writes = 0
  BY DEF InitStation
<1>3. MembersInv(ps)
  BY <1>1, <1>2, UnsetFrameType DEF MembersInv, Waiting, NotWaitedFor, OneFrame, Polled
<1>4. Exploited(ps, Alive!IsAlive) /\ SupervisionNeverStops /\ DetachedIsStopped
  BY <1>2 DEF Exploited, SupervisionNeverStops, DetachedIsStopped
<1>5. AliveOnlyWhileStarted /\ OneFrameAtATime
  BY <1>2 DEF InitStation, Alive!Init, Alive!IsAlive, AliveOnlyWhileStarted, OneFrameAtATime
<1>6. Alive!TypeOK
  <2>1. m_StateTimer \in Alive!TimerType({"state"}) /\ m_ProbeTimer \in Alive!TimerType({"probe"})
    BY DEF InitStation, Alive!Init, Alive!IdleTimer, Alive!TimerType
  <2>2. 0 \in 0..(ProbesPerBaudRate - 1)
    BY ConstantsAssumption
  <2> QED
    BY <2>1, <2>2 DEF InitStation, Alive!Init, Alive!TypeOK, Alive!AliveStates
<1>7. TypeOK
  <2>1. 0 \in 0..MaxLate /\ FALSE \in BOOLEAN /\ 0 \in BaudRateIndices
    BY ConstantsAssumption DEF BaudRateIndices
  <2>2. late \in 0..MaxLate /\ misled \in BOOLEAN /\ m_Registered \in BOOLEAN
        /\ m_CurrentBaudrateIndex \in BaudRateIndices
    BY <2>1 DEF InitStation
  <2> QED
    BY <1>1, <1>6, <2>2 DEF TypeOK
<1> QED
  BY <1>3, <1>4, <1>5, <1>7 DEF IInv

(* So does the station with every data packet held for it.                 *)
LEMMA InitInv == Init => IInv
  BY InitStationInv DEF Init

(* A step that stops the station: everything is reset.                     *)
LEMMA ResetMembersFacts ==
  ASSUME NEW s \in PSType
  PROVE  LET t == ResetMembers(s)
         IN /\ t \in PSType
            /\ ~t.m_bStarted
            /\ t.m_bAwaitsNextHDLCFrame
            /\ ~t.m_bPeerStoppedFlow
            /\ ~t.m_bWaitForAck
            /\ t.m_SendBuffer = s.m_SendBuffer
            /\ t.writes = s.writes
            /\ t.m_SerialPortHandler = s.m_SerialPortHandler
<1>1. /\ Cancel(s.m_Timer) \in TimerType(Waits)
      /\ 0 \in SeqNumbers
      /\ <<>> \in Seq(Nat)
  BY TimerFacts, SeqNumberFacts DEF PSType
<1>2. ResetMembers(s) \in PSType
  <2> DEFINE t == [s EXCEPT !.m_SSeqOutgoing = 0, !.m_RSeqIncoming = 0, !.m_SREJs = <<>>,
                            !.m_Timer = Cancel(@)]
  <2>1. t \in PSType
    BY <1>1 DEF PSType
  <2> DEFINE u == [t EXCEPT !.m_bStarted = FALSE, !.m_bAwaitsNextHDLCFrame = TRUE, !.m_bSendProbe = FALSE,
                           !.m_bPeerStoppedFlow = FALSE]
  <2>2. ResetMembers(s) =
          [u EXCEPT !.m_bPeerStoppedFlowNew = FALSE, !.m_bPeerStoppedFlowQueried = FALSE,
                    !.m_bPeerRequiresAck = FALSE, !.m_bWaitForAck = FALSE]
    BY DEF ResetMembers, PSType
  <2> HIDE DEF t
  <2>3. u \in PSType
    BY <2>1 DEF PSType
  <2> HIDE DEF u
  <2> QED
    BY <2>2, <2>3 DEF PSType
<1>3. LET t == ResetMembers(s)
      IN /\ ~t.m_bStarted
         /\ t.m_bAwaitsNextHDLCFrame
         /\ ~t.m_bPeerStoppedFlow
         /\ ~t.m_bWaitForAck
         /\ t.m_SendBuffer = s.m_SendBuffer
         /\ t.writes = s.writes
         /\ t.m_SerialPortHandler = s.m_SerialPortHandler
  BY DEF ResetMembers, PSType
<1> QED
  BY <1>2, <1>3

(* A handler that leaves the alive state alone keeps its facts.            *)
LEMMA AliveUnchanged ==
  ASSUME Alive!TypeOK, UNCHANGED aliveVars
  PROVE  Alive!TypeOK' /\ (Supervised => Supervised') /\ ((Alive!IsAlive)' <=> Alive!IsAlive)
  BY DEF aliveVars, Alive!TypeOK, Alive!IsAlive, Supervised

\* A step after which at most one frame is being written, unless the station
\* is misled by then.
LateKept == late' \in 0..MaxLate /\ misled' \in BOOLEAN /\ (~misled' => Alone(ps'))

(* What is left to show of a step that neither starts nor stops the        *)
(* station.                                                                *)
LEMMA RunningStep ==
  ASSUME IInv,
         MembersInv(ps'), Exploited(ps', (Alive!IsAlive)'),
         ps'.m_bStarted = ps.m_bStarted, ps'.m_SerialPortHandler = ps.m_SerialPortHandler,
         offers' \subseteq DataPacket, m_Registered' = m_Registered, m_CurrentBaudrateIndex' \in BaudRateIndices,
         LateKept,
         Alive!TypeOK', Supervised => Supervised', (Alive!IsAlive)' => ps.m_bStarted
  PROVE  IInv'
<1>1. TypeOK'
  BY DEF IInv, TypeOK, MembersInv, LateKept
<1>2. MembersInv(ps)' /\ Exploited(ps, Alive!IsAlive)'
  BY DEF MembersInv, Waiting, NotWaitedFor, OneFrame, Polled, Exploited
<1>3. AliveOnlyWhileStarted'
  BY DEF AliveOnlyWhileStarted
<1>4. SupervisionNeverStops'
  BY DEF IInv, SupervisionNeverStops, Supervised
<1>5. DetachedIsStopped' /\ OneFrameAtATime'
  BY DEF IInv, DetachedIsStopped, OneFrameAtATime, LateKept, Alone
<1> QED
  BY <1>1, <1>2, <1>3, <1>4, <1>5 DEF IInv

(* The same for a step that updates the members to s and then gives an     *)
(* opportunity for transmission.                                           *)
LEMMA OpportunityStep ==
  ASSUME IInv, NEW s, MembersInv(s), OpportunityForTransmission(s),
         s.m_bStarted = ps.m_bStarted, s.m_SerialPortHandler = ps.m_SerialPortHandler,
         offers' \subseteq DataPacket, m_Registered' = m_Registered, m_CurrentBaudrateIndex' \in BaudRateIndices,
         late' \in 0..MaxLate, misled' \in BOOLEAN, ~misled' => Alone(s),
         Alive!TypeOK', Supervised => Supervised', (Alive!IsAlive)' => ps.m_bStarted
  PROVE  IInv'
<1>1. offers \subseteq DataPacket
  BY DEF IInv, TypeOK
<1>2. /\ MembersInv(ps')
      /\ ps'.m_bStarted = s.m_bStarted
      /\ ps'.m_SerialPortHandler = s.m_SerialPortHandler
      /\ Exploited(ps', (Alive!IsAlive)')
      /\ Alone(s) => Alone(ps')
  BY <1>1, OpportunityFacts
<1>3. LateKept
  BY <1>2 DEF LateKept
<1> QED
  BY <1>2, <1>3, RunningStep

\* What every handler of a running station finds.
Found ==
  /\ IInv
  /\ Alive!TypeOK
  /\ ps \in PSType
  /\ MembersInv(ps)
  /\ Alive!IsAlive => ps.m_bStarted
  /\ m_CurrentBaudrateIndex \in BaudRateIndices
  /\ late \in 0..MaxLate
  /\ misled \in BOOLEAN
  /\ ~misled => Alone(ps)

(* What the handlers find of the inductive invariant.                      *)
LEMMA FoundFacts == IInv => Found
  BY DEF Found, IInv, TypeOK, AliveOnlyWhileStarted, OneFrameAtATime, Alone

(* Start preserves the inductive invariant.                                *)
LEMMA StartStep == IInv /\ ~TransmittedWhileStopped /\ Start /\ offers' \subseteq DataPacket => IInv'
<1> SUFFICES ASSUME IInv, ~TransmittedWhileStopped, Start, offers' \subseteq DataPacket PROVE IInv'
  OBVIOUS
<1> DEFINE r == ResetMembers(ps)
           s == [r EXCEPT !.m_bStarted = TRUE, !.m_bSendProbe = TRUE]
<1>1. Found /\ offers \subseteq DataPacket
  BY FoundFacts DEF IInv, TypeOK
<1>2. IsEmpty(ps.m_SendBuffer) /\ ps.writes = 0 /\ ps.m_SerialPortHandler
  BY DEF Start, TransmittedWhileStopped, IInv, DetachedIsStopped, MembersInv, OneFrame
<1>3. /\ r \in PSType
      /\ r.m_bAwaitsNextHDLCFrame /\ ~r.m_bPeerStoppedFlow /\ ~r.m_bWaitForAck
      /\ r.m_SendBuffer = ps.m_SendBuffer
      /\ r.writes = ps.writes
      /\ r.m_SerialPortHandler = ps.m_SerialPortHandler
  BY <1>1, ResetMembersFacts DEF Found
<1>4. OpportunityForTransmission(s)
  BY DEF Start
<1> HIDE DEF r
<1>5. s \in PSType
  BY <1>3 DEF PSType
<1>6. /\ s.m_bStarted
      /\ s.m_bAwaitsNextHDLCFrame /\ ~s.m_bPeerStoppedFlow /\ ~s.m_bWaitForAck
      /\ s.m_SendBuffer = ps.m_SendBuffer
      /\ s.writes = ps.writes
      /\ s.m_SerialPortHandler
  BY <1>2, <1>3 DEF PSType
<1> HIDE DEF s
<1>7. MembersInv(s)
  BY <1>2, <1>5, <1>6 DEF MembersInv, Waiting, NotWaitedFor, OneFrame, Polled
<1>8. /\ MembersInv(ps')
      /\ ps'.m_bStarted /\ ps'.m_SerialPortHandler
      /\ Exploited(ps', (Alive!IsAlive)')
      /\ Alone(ps')
  BY <1>1, <1>2, <1>4, <1>6, <1>7, OpportunityFacts DEF Alone
<1>9. Alive!TypeOK' /\ Supervised' /\ ~(Alive!IsAlive)'
  BY <1>1, AliveStartFacts DEF Start, Found
<1>10. TypeOK'
  BY <1>1, <1>8, <1>9 DEF Start, portVars, IInv, TypeOK, MembersInv
<1>11. MembersInv(ps)' /\ Exploited(ps, Alive!IsAlive)'
  BY <1>8 DEF MembersInv, Waiting, NotWaitedFor, OneFrame, Polled, Exploited
<1>12. AliveOnlyWhileStarted' /\ SupervisionNeverStops' /\ DetachedIsStopped' /\ OneFrameAtATime'
  BY <1>8, <1>9 DEF AliveOnlyWhileStarted, SupervisionNeverStops, DetachedIsStopped, Supervised,
                    OneFrameAtATime, Alone
<1> QED
  BY <1>10, <1>11, <1>12 DEF IInv

(* Stop and Shutdown preserve the inductive invariant.                     *)
LEMMA StopStep == IInv /\ (Stop \/ Shutdown) /\ offers' \subseteq DataPacket => IInv'
<1> SUFFICES ASSUME IInv, Stop \/ Shutdown, offers' \subseteq DataPacket PROVE IInv'
  OBVIOUS
<1>1. Found
  BY FoundFacts
<1>2. ASSUME NEW t \in PSType, ps' = t, ~t.m_bStarted, ~t.m_bPeerStoppedFlow, ~t.m_bWaitForAck,
             t.m_bAwaitsNextHDLCFrame, t.m_SendBuffer = UnsetFrame, t.writes = 0,
             t.m_SerialPortHandler \/ ~m_Registered', Alive!Stop, LeaveWrites,
             m_Registered' \in BOOLEAN, m_CurrentBaudrateIndex' = m_CurrentBaudrateIndex
      PROVE  IInv'
  <2>1. Alive!TypeOK' /\ ~(Alive!IsAlive)'
    BY <1>1, <1>2, AliveStopFacts DEF Found
  <2>2. TypeOK'
    <3>1. late \in 0..MaxLate /\ ps.writes \in Nat /\ MaxLate \in Nat
      BY <1>1, ConstantsAssumption DEF Found, PSType
    <3>2. late' \in late..(late + ps.writes) /\ late' <= MaxLate /\ misled' = FALSE
      BY <1>2 DEF LeaveWrites
    <3>3. late' \in 0..MaxLate
      BY <3>1, <3>2
    <3> QED
      BY <1>1, <1>2, <2>1, <3>2, <3>3 DEF Found, TypeOK
  <2>3. MembersInv(ps)' /\ Exploited(ps, Alive!IsAlive)'
    BY <1>2, UnsetFrameType DEF MembersInv, Waiting, NotWaitedFor, OneFrame, Polled, Exploited
  <2>4. AliveOnlyWhileStarted' /\ SupervisionNeverStops' /\ DetachedIsStopped' /\ OneFrameAtATime'
    BY <1>2, <2>1 DEF AliveOnlyWhileStarted, SupervisionNeverStops, DetachedIsStopped, OneFrameAtATime
  <2> QED
    BY <2>2, <2>3, <2>4 DEF IInv
<1> DEFINE r == ResetMembers(ps)
           s == GivenUp(r)
           d == [s EXCEPT !.m_SerialPortHandler = FALSE]
<1>3. /\ r \in PSType
      /\ r.m_bAwaitsNextHDLCFrame
      /\ ~r.m_bStarted /\ ~r.m_bPeerStoppedFlow /\ ~r.m_bWaitForAck
      /\ r.m_SerialPortHandler = ps.m_SerialPortHandler
  BY <1>1, ResetMembersFacts DEF Found
<1> HIDE DEF r
<1>4. /\ s \in PSType
      /\ s.m_bAwaitsNextHDLCFrame /\ s.m_SendBuffer = UnsetFrame /\ s.writes = 0
      /\ ~s.m_bStarted /\ ~s.m_bPeerStoppedFlow /\ ~s.m_bWaitForAck
      /\ s.m_SerialPortHandler = ps.m_SerialPortHandler
  BY <1>3, UnsetFrameType DEF GivenUp, PSType
<1> HIDE DEF s
<1>5. CASE Stop
  <2>1. /\ ps' = s /\ Alive!Stop /\ UNCHANGED <<m_Registered, m_CurrentBaudrateIndex>> /\ ps.m_bStarted
        /\ LeaveWrites
    BY <1>5 DEF Stop, s, r
  <2>2. s.m_SerialPortHandler
    BY <1>4, <2>1 DEF IInv, DetachedIsStopped
  <2> QED
    BY <1>2, <1>4, <2>1, <2>2 DEF IInv, TypeOK
<1>6. CASE Shutdown /\ ps.m_bStarted
  <2>1. /\ ps' = d /\ Alive!Stop /\ m_Registered' = FALSE /\ UNCHANGED m_CurrentBaudrateIndex
        /\ LeaveWrites
    BY <1>6 DEF Shutdown, s, r
  <2>2. d \in PSType
    BY <1>4 DEF PSType
  <2>3. /\ d.m_bAwaitsNextHDLCFrame /\ d.m_SendBuffer = UnsetFrame /\ d.writes = 0
        /\ ~d.m_bStarted /\ ~d.m_bPeerStoppedFlow /\ ~d.m_bWaitForAck
    BY <1>4 DEF PSType
  <2> HIDE DEF d
  <2> QED
    BY <1>2, <2>1, <2>2, <2>3
<1>7. CASE Shutdown /\ ~ps.m_bStarted
  <2>1. UNCHANGED <<ps, late, misled, aliveVars, m_CurrentBaudrateIndex>> /\ m_Registered' = FALSE
    BY <1>7 DEF Shutdown
  <2>2. Alive!TypeOK' /\ ((Alive!IsAlive)' <=> Alive!IsAlive)
    BY <1>1, <2>1, AliveUnchanged DEF Found
  <2>3. TypeOK'
    BY <2>1, <2>2 DEF IInv, TypeOK
  <2>4. MembersInv(ps)' /\ Exploited(ps, Alive!IsAlive)'
    BY <1>7, <2>1 DEF IInv, MembersInv, Waiting, NotWaitedFor, OneFrame, Polled, Exploited
  <2>5. AliveOnlyWhileStarted' /\ SupervisionNeverStops' /\ DetachedIsStopped' /\ OneFrameAtATime'
    BY <1>7, <2>1, <2>2 
    DEF IInv, AliveOnlyWhileStarted, SupervisionNeverStops, DetachedIsStopped, OneFrameAtATime
  <2> QED
    BY <2>3, <2>4, <2>5 DEF IInv
<1> QED
  BY <1>5, <1>6, <1>7

(* A packet of a client preserves the inductive invariant.                 *)
LEMMA SendPayloadStep ==
  ASSUME IInv, NEW packet \in offers, SendPayload(packet), offers' \subseteq DataPacket
  PROVE  IInv'
<1> DEFINE s == Enqueue(ps, packet)
<1>1. Found /\ packet \in DataPacket
  BY FoundFacts DEF IInv, TypeOK
<1>2. /\ MembersInv(s)
      /\ s.m_bStarted = ps.m_bStarted
      /\ s.m_SerialPortHandler = ps.m_SerialPortHandler
      /\ ~misled => Alone(s)
  BY <1>1, EnqueueFacts DEF Found, Alone
<1>3. OpportunityForTransmission(s) /\ UNCHANGED aliveVars /\ UNCHANGED portVars
  BY DEF SendPayload
<1>4. Alive!TypeOK' /\ (Supervised => Supervised') /\ ((Alive!IsAlive)' <=> Alive!IsAlive)
  BY <1>1, <1>3, AliveUnchanged DEF Found
<1> HIDE DEF s
<1> QED
  BY <1>1, <1>2, <1>3, <1>4, OpportunityStep DEF portVars, Found

(* A received frame preserves the inductive invariant.                     *)
LEMMA FrameStep ==
  ASSUME IInv, NEW frame \in Frame, InterpretDeserializedFrame(frame), offers' \subseteq DataPacket
  PROVE  IInv'
<1> DEFINE t == AcceptPayload(ps, frame)
           s == Acknowledgement(t, frame)
<1>1. Found
  BY FoundFacts
<1>2. MembersInv(t) /\ Kept(ps, t)
  BY <1>1, AcceptPayloadFacts DEF Found
<1>3. ps.m_bStarted /\ Alive!OnFrameReceived /\ OpportunityForTransmission(s) /\ UNCHANGED portVars
  BY DEF InterpretDeserializedFrame
<1>4. Alive!TypeOK' /\ (Supervised => Supervised')
  BY <1>1, <1>3, OnFrameReceivedFacts DEF Found
<1> HIDE DEF t
<1>5. MembersInv(s) /\ Kept(t, s)
  BY <1>2, AcknowledgementFacts
<1> HIDE DEF s
<1> QED
  BY <1>1, <1>2, <1>3, <1>4, <1>5, OpportunityStep DEF portVars, Found, Kept, Alone

(* The members after the end of a write are consistent.                    *)
LEMMA WrittenFacts ==
  ASSUME NEW s, MembersInv(s), s.writes > 0
  PROVE  /\ MembersInv(Written(s))
         /\ Alone(s) => Alone(Written(s))
         /\ Written(s).m_bStarted = s.m_bStarted
         /\ Written(s).m_SerialPortHandler = s.m_SerialPortHandler
<1> DEFINE frame == IF s.writes = 1 THEN UnsetFrame ELSE s.m_SendBuffer
           t == [s EXCEPT !.m_bAwaitsNextHDLCFrame = TRUE, !.writes = @ - 1, !.m_SendBuffer = frame]
<1>1. s \in PSType /\ s.writes \in Nat /\ s.m_SendBuffer \in Frame
  BY DEF MembersInv, PSType
<1>2. frame \in Frame /\ s.writes - 1 \in Nat
  BY <1>1, UnsetFrameType
<1>3. /\ s.writes - 1 = 0 => IsEmpty(frame)
      /\ IsEmpty(frame) /\ ~s.m_bStarted => s.writes - 1 = 0
  BY <1>1, UnsetFrameType DEF MembersInv, OneFrame
<1>4. Written(s) = t
  BY DEF Written
<1> HIDE DEF frame
<1>5. t \in PSType
  BY <1>1, <1>2 DEF PSType
<1>6. /\ t.m_bStarted = s.m_bStarted
      /\ t.m_SerialPortHandler = s.m_SerialPortHandler
      /\ t.m_bAwaitsNextHDLCFrame
      /\ t.m_SendBuffer = frame
      /\ t.writes = s.writes - 1
      /\ t.m_WaitQueueReliable = s.m_WaitQueueReliable
      /\ t.m_bPeerStoppedFlow = s.m_bPeerStoppedFlow
      /\ t.m_bPeerStoppedFlowNew = s.m_bPeerStoppedFlowNew
      /\ t.m_bPeerStoppedFlowQueried = s.m_bPeerStoppedFlowQueried
      /\ t.m_bPeerRequiresAck = s.m_bPeerRequiresAck
      /\ t.m_bWaitForAck = s.m_bWaitForAck
      /\ t.m_Timer = s.m_Timer
  BY <1>1 DEF PSType
<1> HIDE DEF t
<1>7. Waiting(t) /\ NotWaitedFor(t) /\ Polled(t)
  BY <1>6 DEF MembersInv, Waiting, NotWaitedFor, Polled
<1>8. OneFrame(t)
  BY <1>1, <1>3, <1>6 DEF MembersInv, OneFrame
<1>9. Alone(s) => Alone(t)
  BY <1>1, <1>6 DEF Alone
<1> QED
  BY <1>4, <1>5, <1>6, <1>7, <1>8, <1>9 DEF MembersInv

(* The end of a write preserves the inductive invariant.                   *)
LEMMA TriggerStep ==
  ASSUME IInv, TriggerNextHDLCFrame, offers' \subseteq DataPacket
  PROVE  IInv'
<1> DEFINE s == Written(ps)
<1>1. Found
  BY FoundFacts
<1>2. /\ MembersInv(s)
      /\ s.m_bStarted = ps.m_bStarted
      /\ s.m_SerialPortHandler = ps.m_SerialPortHandler
      /\ ~misled => Alone(s)
  BY <1>1, WrittenFacts DEF Found, TriggerNextHDLCFrame
<1>3. OpportunityForTransmission(s) /\ UNCHANGED aliveVars /\ UNCHANGED portVars
  BY DEF TriggerNextHDLCFrame
<1>4. Alive!TypeOK' /\ (Supervised => Supervised') /\ ((Alive!IsAlive)' <=> Alive!IsAlive)
  BY <1>1, <1>3, AliveUnchanged DEF Found
<1> HIDE DEF s
<1> QED
  BY <1>1, <1>2, <1>3, <1>4, OpportunityStep DEF portVars, Found

(* A station told that it may transmit is consistent in any case.          *)
LEMMA ReadyFacts ==
  ASSUME NEW s, MembersInv(s)
  PROVE  LET t == [s EXCEPT !.m_bAwaitsNextHDLCFrame = TRUE]
         IN /\ MembersInv(t)
            /\ t.m_bStarted = s.m_bStarted
            /\ t.m_SerialPortHandler = s.m_SerialPortHandler
<1> DEFINE t == [s EXCEPT !.m_bAwaitsNextHDLCFrame = TRUE]
<1>1. s \in PSType
  BY DEF MembersInv
<1>2. t \in PSType
  BY <1>1 DEF PSType
<1> QED
  BY <1>1, <1>2 DEF PSType, MembersInv, Waiting, NotWaitedFor, OneFrame, Polled

(* A completion left behind by a suspension preserves the inductive        *)
(* invariant: the station it misleads is still told of the write it waits  *)
(* for.                                                                    *)
LEMMA LateStep ==
  ASSUME IInv, LateCompletion, offers' \subseteq DataPacket
  PROVE  IInv'
<1> DEFINE r == [ps EXCEPT !.m_bAwaitsNextHDLCFrame = TRUE]
           n == ps.writes + 1
           w == [ps EXCEPT !.writes = n]
<1>1. Found /\ ps \in PSType /\ ps.writes \in Nat /\ ps.m_bStarted \in BOOLEAN
  BY FoundFacts DEF Found, PSType
<1>2. /\ UNCHANGED aliveVars /\ UNCHANGED <<m_Registered, m_CurrentBaudrateIndex>>
      /\ misled' = (misled \/ ps.m_bStarted)
      /\ \/ ~ps.m_bStarted /\ ps' = ps
         \/ ps.m_bStarted /\ OpportunityForTransmission(r)
         \/ ps.m_bStarted /\ ps' = w
  BY DEF LateCompletion
<1>3. late' \in 0..MaxLate
  BY <1>1, ConstantsAssumption DEF LateCompletion, Found
<1>4. misled' \in BOOLEAN /\ (~misled' => ~misled /\ ~ps.m_bStarted)
  BY <1>1, <1>2 DEF Found
<1>5. Alive!TypeOK' /\ (Supervised => Supervised') /\ ((Alive!IsAlive)' <=> Alive!IsAlive)
  BY <1>1, <1>2, AliveUnchanged DEF Found
<1>6. CASE ~ps.m_bStarted /\ ps' = ps
  <2>1. MembersInv(ps') /\ Exploited(ps', (Alive!IsAlive)')
    BY <1>1, <1>6 DEF Found, Exploited
  <2>2. LateKept
    BY <1>1, <1>3, <1>4, <1>6 DEF Found, LateKept, Alone
  <2> QED
    BY <1>1, <1>2, <1>5, <1>6, <2>1, <2>2, RunningStep DEF Found
<1>7. CASE ps.m_bStarted /\ OpportunityForTransmission(r)
  <2>1. MembersInv(r) /\ r.m_bStarted = ps.m_bStarted /\ r.m_SerialPortHandler = ps.m_SerialPortHandler
    BY <1>1, ReadyFacts DEF Found
  <2> HIDE DEF r
  <2> QED
    BY <1>1, <1>2, <1>3, <1>4, <1>5, <1>7, <2>1, OpportunityStep DEF Found
<1>8. CASE ps.m_bStarted /\ ps' = w
  <2>0. n \in Nat /\ n > 0 /\ (ps.writes = 0 => n = 1)
    BY <1>1
  <2> HIDE DEF n
  <2>1. w \in PSType
    BY <1>1, <2>0 DEF PSType
  <2>2. /\ w.m_bStarted = ps.m_bStarted
        /\ w.m_SerialPortHandler = ps.m_SerialPortHandler
        /\ w.m_bAwaitsNextHDLCFrame = ps.m_bAwaitsNextHDLCFrame
        /\ w.m_SendBuffer = ps.m_SendBuffer
        /\ w.writes = n
        /\ w.m_WaitQueueReliable = ps.m_WaitQueueReliable
        /\ w.m_WaitQueueUnreliable = ps.m_WaitQueueUnreliable
        /\ w.m_SREJs = ps.m_SREJs
        /\ w.m_bSendProbe = ps.m_bSendProbe
        /\ w.m_bPeerStoppedFlow = ps.m_bPeerStoppedFlow
        /\ w.m_bPeerStoppedFlowNew = ps.m_bPeerStoppedFlowNew
        /\ w.m_bPeerStoppedFlowQueried = ps.m_bPeerStoppedFlowQueried
        /\ w.m_bPeerRequiresAck = ps.m_bPeerRequiresAck
        /\ w.m_bWaitForAck = ps.m_bWaitForAck
        /\ w.m_Timer = ps.m_Timer
    BY <1>1 DEF PSType
  <2> HIDE DEF w
  <2>3. MembersInv(w)
    BY <1>1, <1>8, <2>1, <2>2, <2>0 DEF Found, MembersInv, Waiting, NotWaitedFor, OneFrame, Polled
  <2>4. Exploited(w, (Alive!IsAlive)')
    BY <1>5, <2>2 DEF IInv, Exploited, ProbeDue, SREJDue, IFrameDue, UIDue
  <2>5. LateKept
    BY <1>3, <1>4, <1>8 DEF LateKept
  <2> QED
    BY <1>1, <1>2, <1>5, <1>8, <2>2, <2>3, <2>4, <2>5, RunningStep DEF Found
<1> QED
  BY <1>2, <1>6, <1>7, <1>8

(* An update of m_Timer that loses no pending query.                       *)
LEMMA TimerUpdateFacts ==
  ASSUME NEW s, MembersInv(s), NEW timer \in TimerType(Waits),
         s.m_bPeerStoppedFlow /\ Pending(s.m_Timer, "query") => Pending(timer, "query")
  PROVE  LET t == [s EXCEPT !.m_Timer = timer]
         IN /\ MembersInv(t)
            /\ Kept(s, t)
            /\ \A alive \in BOOLEAN: Exploited(s, alive) => Exploited(t, alive)
<1> DEFINE t == [s EXCEPT !.m_Timer = timer]
<1>1. s \in PSType
  BY DEF MembersInv
<1>2. t \in PSType
  BY <1>1 DEF PSType
<1>3. /\ Kept(s, t)
      /\ t.m_WaitQueueReliable = s.m_WaitQueueReliable
      /\ t.m_WaitQueueUnreliable = s.m_WaitQueueUnreliable
      /\ t.m_SREJs = s.m_SREJs
      /\ t.m_bSendProbe = s.m_bSendProbe
      /\ t.m_bPeerStoppedFlow = s.m_bPeerStoppedFlow
      /\ t.m_bPeerStoppedFlowNew = s.m_bPeerStoppedFlowNew
      /\ t.m_bPeerStoppedFlowQueried = s.m_bPeerStoppedFlowQueried
      /\ t.m_bPeerRequiresAck = s.m_bPeerRequiresAck
      /\ t.m_bWaitForAck = s.m_bWaitForAck
      /\ t.m_Timer = timer
  BY <1>1 DEF PSType, Kept
<1> HIDE DEF t
<1>4. MembersInv(t)
  BY <1>2, <1>3 DEF Kept, MembersInv, Waiting, NotWaitedFor, OneFrame, Polled
<1>5. \A alive \in BOOLEAN: Exploited(s, alive) => Exploited(t, alive)
  BY <1>3 DEF Kept, Exploited, ProbeDue, SREJDue, IFrameDue, UIDue
<1> QED
  BY <1>3, <1>4, <1>5 DEF t

(* Expiries, and a query nobody needs, preserve the invariant.             *)
LEMMA TimerStep ==
  ASSUME IInv, TimerExpires \/ (OnQueryTimeout /\ ~ps.m_bPeerStoppedFlow), offers' \subseteq DataPacket
  PROVE  IInv'
<1>1. Found /\ ps.m_Timer \in TimerType(Waits)
  BY FoundFacts DEF Found, PSType
<1>2. UNCHANGED aliveVars /\ UNCHANGED portVars
  BY DEF TimerExpires, OnQueryTimeout
<1>3. Alive!TypeOK' /\ (Supervised => Supervised') /\ ((Alive!IsAlive)' <=> Alive!IsAlive)
  BY <1>1, <1>2, AliveUnchanged DEF Found
<1>4. PICK timer \in TimerType(Waits):
        /\ ps' = [ps EXCEPT !.m_Timer = timer]
        /\ ps.m_bPeerStoppedFlow /\ Pending(ps.m_Timer, "query") => Pending(timer, "query")
  <2>1. CASE TimerExpires
    BY <1>1, <2>1, TimerFacts DEF TimerExpires
  <2>2. CASE OnQueryTimeout /\ ~ps.m_bPeerStoppedFlow
    BY <1>1, <2>2, TimerFacts DEF OnQueryTimeout
  <2> QED
    BY <2>1, <2>2
<1>5. /\ MembersInv(ps')
      /\ Kept(ps, ps')
      /\ \A alive \in BOOLEAN: Exploited(ps, alive) => Exploited(ps', alive)
  BY <1>1, <1>4, TimerUpdateFacts DEF Found
<1>6. Exploited(ps', (Alive!IsAlive)')
  BY <1>3, <1>5 DEF IInv, Exploited, Alive!IsAlive
<1> QED
  BY <1>1, <1>2, <1>3, <1>5, <1>6, RunningStep DEF Found, portVars, Kept, LateKept, Alone

(* A retransmission timeout preserves the inductive invariant.             *)
LEMMA RetransmissionStep ==
  ASSUME IInv, OnRetransmissionTimeout, offers' \subseteq DataPacket
  PROVE  IInv'
<1> DEFINE timer == Dispatch(ps.m_Timer)
           t == [ps EXCEPT !.m_Timer = timer]
           s == [t EXCEPT !.m_bWaitForAck = FALSE]
<1>1. Found /\ ps.m_Timer \in TimerType(Waits)
  BY FoundFacts DEF Found, PSType
<1>2. UNCHANGED aliveVars /\ UNCHANGED portVars
  BY DEF OnRetransmissionTimeout
<1>3. Alive!TypeOK' /\ (Supervised => Supervised') /\ ((Alive!IsAlive)' <=> Alive!IsAlive)
  BY <1>1, <1>2, AliveUnchanged DEF Found
<1>4. timer \in TimerType(Waits) /\ (Pending(ps.m_Timer, "query") => Pending(timer, "query"))
  BY <1>1, TimerFacts DEF OnRetransmissionTimeout
<1>5. OpportunityForTransmission(s)
  BY DEF OnRetransmissionTimeout
<1> HIDE DEF timer
<1>6. MembersInv(t) /\ Kept(ps, t)
  BY <1>1, <1>4, TimerUpdateFacts DEF Found
<1> HIDE DEF t
<1>7. t \in PSType
  BY <1>6 DEF MembersInv
<1>8. s \in PSType
  BY <1>7 DEF PSType
<1>9. Kept(t, s) /\ MembersInv(s)
  BY <1>6, <1>7, <1>8 DEF PSType, Kept, MembersInv, Waiting, NotWaitedFor, OneFrame, Polled
<1> HIDE DEF s
<1> QED
  BY <1>1, <1>2, <1>3, <1>5, <1>6, <1>9, OpportunityStep DEF Found, portVars, Kept, Alone

(* A query of a stopped peer preserves the inductive invariant.            *)
LEMMA QueryStep ==
  ASSUME IInv, OnQueryTimeout, ps.m_bPeerStoppedFlow, offers' \subseteq DataPacket
  PROVE  IInv'
<1> DEFINE s == [ps EXCEPT !.m_Timer = Dispatch(@), !.m_bPeerRequiresAck = TRUE,
                           !.m_bPeerStoppedFlowQueried = FALSE]
<1>1. Found /\ ps.m_Timer \in TimerType(Waits)
  BY FoundFacts DEF Found, PSType
<1>2. UNCHANGED aliveVars /\ UNCHANGED portVars
  BY DEF OnQueryTimeout
<1>3. Alive!TypeOK' /\ (Supervised => Supervised') /\ ((Alive!IsAlive)' <=> Alive!IsAlive)
  BY <1>1, <1>2, AliveUnchanged DEF Found
<1>4. OpportunityForTransmission(s)
  BY DEF OnQueryTimeout
<1>5. ps \in PSType /\ Dispatch(ps.m_Timer) \in TimerType(Waits)
  BY <1>1, TimerFacts DEF Found
<1>6. s \in PSType
  BY <1>5 DEF PSType
<1>7. /\ Kept(ps, s)
      /\ s.m_bPeerRequiresAck /\ ~s.m_bPeerStoppedFlowQueried
      /\ s.m_WaitQueueReliable = ps.m_WaitQueueReliable
      /\ s.m_bPeerStoppedFlow = ps.m_bPeerStoppedFlow
      /\ s.m_bWaitForAck = ps.m_bWaitForAck
  BY <1>5 DEF PSType, Kept
<1> HIDE DEF s
<1>8. MembersInv(s)
  BY <1>1, <1>6, <1>7 DEF Found, MembersInv, Kept, Waiting, NotWaitedFor, OneFrame, Polled
<1> QED
  BY <1>1, <1>2, <1>3, <1>4, <1>7, <1>8, OpportunityStep DEF Found, portVars, Kept, Alone

\* The alive timers expire or run a handler that sends no probe.
LEMMA AliveStep ==
  ASSUME IInv, AliveTimerStep, UNCHANGED ps, offers' \subseteq DataPacket, m_Registered' = m_Registered,
         m_CurrentBaudrateIndex' \in BaudRateIndices, UNCHANGED <<late, misled>>
  PROVE  IInv'
<1>1. Found
  BY FoundFacts
<1>2. /\ Alive!TypeOK'
      /\ Supervised => Supervised'
      /\ (Alive!IsAlive)' => Alive!IsAlive
  BY <1>1, AliveTimerStepFacts DEF Found
<1>3. Exploited(ps', (Alive!IsAlive)')
  BY <1>2 DEF IInv, Exploited
<1>4. MembersInv(ps')
  BY <1>1 DEF Found
<1> QED
  BY <1>1, <1>2, <1>3, <1>4, RunningStep DEF Found, LateKept, Alone

(* A probe preserves the inductive invariant.                              *)
LEMMA ProbeStep ==
  ASSUME IInv, OnProbeTimeout, offers' \subseteq DataPacket
  PROVE  IInv'
<1> DEFINE s == [ps EXCEPT !.m_bSendProbe = TRUE]
<1>1. Found
  BY FoundFacts
<1>2. AliveTimerStep /\ m_Registered' = m_Registered /\ UNCHANGED <<late, misled>>
  BY DEF OnProbeTimeout, AliveTimerStep
<1>3. m_CurrentBaudrateIndex' \in BaudRateIndices
  BY <1>1 DEF OnProbeTimeout, Found, BaudRateIndices, ToggleBaudRate
<1>4. /\ Alive!TypeOK'
      /\ Supervised => Supervised'
      /\ (Alive!IsAlive)' => Alive!IsAlive
  BY <1>1, <1>2, AliveTimerStepFacts DEF Found
<1>5. \/ ps' = ps
      \/ ps.m_SerialPortHandler /\ OpportunityForTransmission(s)
      \/ ~ps.m_SerialPortHandler /\ ps' = s
  BY DEF OnProbeTimeout
<1>6. ps \in PSType
  BY <1>1 DEF Found
<1>7. s \in PSType
  BY <1>6 DEF PSType
<1>8. Kept(ps, s) /\ MembersInv(s)
  BY <1>1, <1>6, <1>7
  DEF Found, PSType, Kept, MembersInv, Waiting, NotWaitedFor, OneFrame, Polled
<1> HIDE DEF s
<1>9. CASE ps' = ps
  BY <1>2, <1>3, <1>9, AliveStep
<1>10. CASE OpportunityForTransmission(s)
  BY <1>1, <1>2, <1>3, <1>4, <1>8, <1>10, OpportunityStep DEF Found, Kept, Alone
<1>11. CASE ~ps.m_SerialPortHandler /\ ps' = s
  <2>1. ~ps'.m_bStarted
    BY <1>8, <1>11 DEF IInv, DetachedIsStopped, Kept
  <2>2. Exploited(ps', (Alive!IsAlive)')
    BY <2>1 DEF Exploited
  <2> QED
    BY <1>1, <1>2, <1>3, <1>4, <1>8, <1>11, <2>2, RunningStep DEF Found, Kept, LateKept, Alone
<1> QED
  BY <1>5, <1>9, <1>10, <1>11

(* Every handler of the station preserves the inductive invariant, also    *)
(* when the packets that are held for the port change in the same step.    *)
LEMMA HandlersInv == IInv /\ ~TransmittedWhileStopped /\ Handlers /\ offers' \subseteq DataPacket => IInv'
<1> SUFFICES ASSUME IInv, ~TransmittedWhileStopped, Handlers, offers' \subseteq DataPacket PROVE IInv'
  OBVIOUS
<1>0. m_CurrentBaudrateIndex \in BaudRateIndices
  BY DEF IInv, TypeOK
<1>1. CASE Start
  BY <1>1, StartStep
<1>2. CASE Stop \/ Shutdown
  BY <1>2, StopStep
<1>3. CASE \E packet \in offers: SendPayload(packet)
  BY <1>3, SendPayloadStep
<1>4. CASE \E frame \in ReceivedFrames: InterpretDeserializedFrame(frame)
  BY <1>4, FrameStep, ConstantsAssumption
<1>5. CASE TriggerNextHDLCFrame \/ LateCompletion
  BY <1>5, TriggerStep, LateStep
<1>6. CASE TimerExpires
  BY <1>6, TimerStep
<1>7. CASE OnRetransmissionTimeout
  BY <1>7, RetransmissionStep
<1>8. CASE OnQueryTimeout
  BY <1>8, TimerStep, QueryStep
<1>9. CASE StateTimerExpires \/ ProbeTimerExpires \/ OnStateTimeout
  BY <1>0, <1>9, AliveStep
  DEF StateTimerExpires, ProbeTimerExpires, OnStateTimeout, AliveTimerStep, portVars
<1>10. CASE OnProbeTimeout
  BY <1>10, ProbeStep
<1> QED
  BY <1>1, <1>2, <1>3, <1>4, <1>5, <1>6, <1>7, <1>8, <1>9, <1>10 DEF Handlers

(* A step of somebody else preserves it.                                   *)
LEMMA UnchangedInv == IInv /\ UNCHANGED vars => IInv'
  BY DEF vars, portVars, aliveVars, IInv, TypeOK, Alive!TypeOK, Alive!IsAlive,
         AliveOnlyWhileStarted, SupervisionNeverStops, DetachedIsStopped, OneFrameAtATime,
         MembersInv, Waiting, NotWaitedFor, OneFrame, Polled, Exploited

(* Every step of the station preserves the inductive invariant.            *)
LEMMA NextInv == IInv /\ [Next]_vars => IInv'
<1>1. IInv /\ UNCHANGED offers => offers' \subseteq DataPacket
  BY DEF IInv, TypeOK
<1> QED
  BY <1>1, HandlersInv, UnchangedInv DEF Next

(* The inductive invariant holds throughout.                               *)
LEMMA Invariance == Spec => []IInv
  BY InitInv, NextInv, PTL DEF Spec

-----------------------------------------------------------------------------
(* The members of the station, and the timers and frames they hold, keep   *)
(* their types: the sequence numbers stay in their space whatever the      *)
(* device sends.                                                           *)
THEOREM TypeCorrect == Spec => []TypeOK
<1>1. IInv => TypeOK
  BY DEF IInv
<1> QED
  BY <1>1, Invariance, PTL

(* An acknowledgement never pops from an empty queue.                      *)
THEOREM QueueHoldsAwaited == Spec => []WaitsForQueuedPacket
<1>1. IInv => WaitsForQueuedPacket
  BY DEF IInv, MembersInv, Waiting, WaitsForQueuedPacket
<1> QED
  BY <1>1, Invariance, PTL

(* The two uses of m_Timer exclude each other.                             *)
THEOREM TimerHasOneUse == Spec => []StoppedPeerIsNotWaitedFor
<1>1. IInv => StoppedPeerIsNotWaitedFor
  BY DEF IInv, MembersInv, NotWaitedFor, StoppedPeerIsNotWaitedFor
<1> QED
  BY <1>1, Invariance, PTL

(* The station hands over one frame at a time and knows when it is         *)
(* written, until a completion that an earlier suspension left queued runs *)
(* on the restarted station.                                               *)
THEOREM FramesAreSerialised == Spec => []OneFrameAtATime
<1>1. IInv => OneFrameAtATime
  BY DEF IInv
<1> QED
  BY <1>1, Invariance, PTL

(* Whatever completions suspensions left queued: a station that waits for  *)
(* the end of a write is told of one.                                      *)
THEOREM NoWriteIsAwaitedInVain == Spec => []AwaitedWriteEnds
<1>1. IInv => AwaitedWriteEnds
  BY DEF IInv, MembersInv, OneFrame, AwaitedWriteEnds
<1> QED
  BY <1>1, Invariance, PTL

(* A suspended port is never reported alive.                               *)
THEOREM AliveMeansStarted == Spec => []AliveOnlyWhileStarted
<1>1. IInv => AliveOnlyWhileStarted
  BY DEF IInv
<1> QED
  BY <1>1, Invariance, PTL

(* A started station always has both alive timers pending.                 *)
THEOREM AlwaysSupervised == Spec => []SupervisionNeverStops
<1>1. IInv => SupervisionNeverStops
  BY DEF IInv
<1> QED
  BY <1>1, Invariance, PTL

(* A station with a free line owes nothing it could send.                  *)
THEOREM OpportunitiesAreTaken == Spec => []NoOpportunityMissed
<1>1. IInv => NoOpportunityMissed
  BY DEF IInv, Exploited, NoOpportunityMissed
<1> QED
  BY <1>1, Invariance, PTL

(* A peer in the RNR condition is always going to be polled again.         *)
THEOREM StoppedPeerWillBePolled == Spec => []StoppedPeerIsPolled
<1>1. IInv => StoppedPeerIsPolled
  BY DEF IInv, MembersInv, Polled, StoppedPeerIsPolled
<1> QED
  BY <1>1, Invariance, PTL
=============================================================================
