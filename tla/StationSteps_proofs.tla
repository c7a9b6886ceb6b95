------------------------ MODULE StationSteps_proofs ------------------------
(***************************************************************************)
(* What a handler of the HDLC station does to what its peer and its        *)
(* clients can tell apart: the two sequence numbers, the queue of reliable *)
(* packets, and the frame being written.  What it does to the wait for an  *)
(* acknowledgement, if nothing stops the flow.  HdlcLink_proofs builds on  *)
(* it.                                                                     *)
(***************************************************************************)
EXTENDS ProtocolState_proofs

\* The frame being written carries the numbers of the station, and an I-frame
\* the head of its queue.
FramePrepared(s) ==
  LET frame == s.m_SendBuffer
  IN /\ frame.type \in {"I", "RR"} => frame.nr = s.m_RSeqIncoming
     /\ frame.type = "I" => /\ frame.ns = s.m_SSeqOutgoing
                            /\ s.m_WaitQueueReliable # <<>>
                            /\ frame.payload = Head(s.m_WaitQueueReliable)

\* A step to the numbers s and r and the queue q, in which frame is or remains
\* being written unless another one is prepared.  An empty queue may be filled
\* from what the clients hold.
Moved(s, r, q, frame) ==
  /\ ps'.m_SSeqOutgoing = s
  /\ ps'.m_RSeqIncoming = r
  /\ \/ ps'.m_WaitQueueReliable = q
     \/ /\ q = <<>>
        /\ \E packet \in offers: packet.reliable /\ ps'.m_WaitQueueReliable = <<packet.payload>>
  /\ ps'.m_SendBuffer = frame \/ FramePrepared(ps')

\* An update of the members that the peer and the clients do not see.
Unseen(s, t) ==
  /\ t.m_bStarted = s.m_bStarted
  /\ t.m_SSeqOutgoing = s.m_SSeqOutgoing
  /\ t.m_RSeqIncoming = s.m_RSeqIncoming
  /\ t.m_WaitQueueReliable = s.m_WaitQueueReliable

(* A frame is handed over.                                                 *)
LEMMA TransmitSeen ==
  ASSUME NEW s \in PSType, NEW frame, Transmit(s, frame)
  PROVE  Unseen(s, ps') /\ ps'.m_SendBuffer = frame
  BY DEF Transmit, PSType, Unseen

(* Starting the query timer is not seen.                                   *)
LEMMA QueryTimerUnseen ==
  ASSUME NEW s \in PSType
  PROVE  Unseen(s, StartQueryTimer(s)) /\ StartQueryTimer(s).m_SendBuffer = s.m_SendBuffer
  BY DEF StartQueryTimer, PSType, Unseen

(* Whichever frame is due, it is prepared from the members.                *)
LEMMA TransmitDueSeen ==
  ASSUME NEW s, MembersInv(s), TransmitDue(s)
  PROVE  Unseen(s, ps') /\ FramePrepared(ps')
<1>0. s \in PSType
  BY DEF MembersInv
<1>1. ASSUME NEW t \in PSType, Unseen(s, t), NEW frame, Transmit(t, frame),
             frame.type \in {"I", "RR"} => frame.nr = s.m_RSeqIncoming,
             frame.type = "I" => /\ frame.ns = s.m_SSeqOutgoing
                                 /\ s.m_WaitQueueReliable # <<>>
                                 /\ frame.payload = Head(s.m_WaitQueueReliable)
      PROVE  Unseen(s, ps') /\ FramePrepared(ps')
  BY <1>1, TransmitSeen DEF Unseen, FramePrepared
<1>2. CASE SendProbe(s)
  <2> DEFINE t == [s EXCEPT !.m_bSendProbe = FALSE]
  <2>1. t \in PSType /\ Unseen(s, t)
    BY <1>0 DEF PSType, Unseen
  <2>2. PrepareUFrameTEST.type = "TEST"
    BY DEF PrepareUFrameTEST, UnsetFrame
  <2> QED
    BY <1>1, <1>2, <2>1, <2>2 DEF SendProbe
<1>3. CASE SREJDue(s) /\ SendSREJ(s)
  <2> DEFINE t == [s EXCEPT !.m_SREJs = Tail(@)]
  <2>1. Tail(s.m_SREJs) \in Seq(Nat)
    BY <1>0, <1>3 DEF SREJDue, PSType
  <2>2. t \in PSType /\ Unseen(s, t)
    BY <1>0, <2>1 DEF PSType, Unseen
  <2>3. PrepareSFrameSREJ(s).type = "SREJ"
    BY DEF PrepareSFrameSREJ, UnsetFrame
  <2> QED
    BY <1>1, <1>3, <2>2, <2>3 DEF SendSREJ
<1>4. CASE IFrameDue(s) /\ SendIFrame(s)
  <2> DEFINE timer == AsyncWait(s.m_Timer, "retransmit")
             t == [s EXCEPT !.m_bWaitForAck = TRUE, !.m_bPeerRequiresAck = FALSE, !.m_Timer = timer]
  <2>1. timer \in TimerType(Waits)
    BY <1>0, TimerFacts DEF PSType, Waits
  <2>2. Transmit(t, PrepareIFrame(s))
    BY <1>4 DEF SendIFrame
  <2> HIDE DEF timer
  <2>3. t \in PSType /\ Unseen(s, t)
    BY <1>0, <2>1 DEF PSType, Unseen
  <2>4. /\ PrepareIFrame(s).ns = s.m_SSeqOutgoing
        /\ PrepareIFrame(s).nr = s.m_RSeqIncoming
        /\ PrepareIFrame(s).payload = Head(s.m_WaitQueueReliable)
    BY DEF PrepareIFrame, UnsetFrame
  <2> QED
    BY <1>1, <1>4, <2>2, <2>3, <2>4 DEF IFrameDue
<1>5. CASE SendRR(s)
  <2> DEFINE poll == s.m_bPeerStoppedFlow /\ ~s.m_bPeerStoppedFlowQueried
             timer == AsyncWait(Cancel(s.m_Timer), "query")
             t == [s EXCEPT !.m_bPeerRequiresAck = FALSE]
             u == [t EXCEPT !.m_bPeerStoppedFlowQueried = TRUE, !.m_Timer = timer]
  <2>1. timer \in TimerType(Waits)
    BY <1>0, TimerFacts DEF PSType, Waits
  <2>2. t \in PSType /\ Unseen(s, t) /\ t.m_Timer = s.m_Timer
    BY <1>0 DEF PSType, Unseen
  <2>3. Transmit(IF poll THEN u ELSE t, PrepareSFrameRR(s, poll))
    BY <1>5, <2>2 DEF SendRR
  <2> HIDE DEF timer, t
  <2>4. u \in PSType /\ Unseen(s, u)
    BY <2>1, <2>2 DEF PSType, Unseen
  <2> HIDE DEF u
  <2>5. PrepareSFrameRR(s, poll).type = "RR" /\ PrepareSFrameRR(s, poll).nr = s.m_RSeqIncoming
    BY DEF PrepareSFrameRR, UnsetFrame
  <2> HIDE DEF poll
  <2> QED
    BY <1>1, <2>2, <2>3, <2>4, <2>5
<1>6. CASE UIDue(s) /\ SendUI(StartQueryTimer(s))
  <2> DEFINE q == StartQueryTimer(s)
             t == [q EXCEPT !.m_WaitQueueUnreliable = Tail(@)]
  <2>1. MembersInv(q) /\ q.m_WaitQueueUnreliable = s.m_WaitQueueUnreliable
    BY StartQueryTimerFacts
  <2>2. Unseen(s, q)
    BY <1>0, QueryTimerUnseen
  <2>3. Transmit(t, PrepareUFrameUI(q))
    BY <1>6 DEF SendUI
  <2> HIDE DEF q
  <2>4. q \in PSType /\ Tail(q.m_WaitQueueUnreliable) \in Seq(Payload)
    BY <1>6, <2>1 DEF UIDue, MembersInv, PSType
  <2>5. t \in PSType /\ Unseen(q, t)
    BY <2>4 DEF PSType, Unseen
  <2>6. PrepareUFrameUI(q).type = "UI"
    BY DEF PrepareUFrameUI, UnsetFrame
  <2> HIDE DEF t
  <2>7. Unseen(s, t)
    BY <2>2, <2>5 DEF Unseen
  <2> QED
    BY <1>1, <2>3, <2>5, <2>6, <2>7
<1> QED
  BY <1>2, <1>3, <1>4, <1>5, <1>6 DEF TransmitDue

(* An opportunity for transmission may let in one packet, and prepare one  *)
(* frame.                                                                  *)
LEMMA OpportunitySeen ==
  ASSUME NEW s, MembersInv(s), offers \subseteq DataPacket, OpportunityForTransmission(s)
  PROVE  /\ Moved(s.m_SSeqOutgoing, s.m_RSeqIncoming, s.m_WaitQueueReliable, s.m_SendBuffer)
         /\ ps'.m_bStarted = s.m_bStarted
<1>0. s \in PSType
  BY DEF MembersInv
<1>1. CASE ps' = s
  BY <1>1 DEF Moved
<1>2. CASE TransmitDue(s)
  BY <1>2, TransmitDueSeen DEF Moved, Unseen
<1>3. CASE LET t == StartQueryTimer(s)
               idle == t.m_WaitQueueReliable = <<>>
           IN IF idle \/ t.m_bPeerStoppedFlow
              THEN QueryForPayload(t, idle /\ ~t.m_bPeerStoppedFlow, TRUE)
              ELSE ps' = t
  <2> DEFINE t == StartQueryTimer(s)
  <2>1. MembersInv(t) /\ Unseen(s, t) /\ t.m_SendBuffer = s.m_SendBuffer
    BY <1>0, StartQueryTimerFacts, QueryTimerUnseen
  <2>2. \/ ps' = t
        \/ \E packet \in offers: /\ packet.reliable => t.m_WaitQueueReliable = <<>>
                                 /\ TransmitDue(Enqueue(t, packet))
    BY <1>3 DEF QueryForPayload
  <2> HIDE DEF t
  <2>3. CASE ps' = t
    BY <2>1, <2>3 DEF Moved, Unseen
  <2>4. ASSUME NEW packet \in offers, packet.reliable => t.m_WaitQueueReliable = <<>>,
               TransmitDue(Enqueue(t, packet))
        PROVE  /\ Moved(s.m_SSeqOutgoing, s.m_RSeqIncoming, s.m_WaitQueueReliable, s.m_SendBuffer)
               /\ ps'.m_bStarted = s.m_bStarted
    <3> DEFINE e == Enqueue(t, packet)
    <3>1. MembersInv(e) /\ t \in PSType
      BY <2>1, EnqueueFacts DEF MembersInv
    <3>2. /\ e.m_bStarted = t.m_bStarted
          /\ e.m_SSeqOutgoing = t.m_SSeqOutgoing
          /\ e.m_RSeqIncoming = t.m_RSeqIncoming
          /\ packet.reliable => e.m_WaitQueueReliable = Append(t.m_WaitQueueReliable, packet.payload)
          /\ ~packet.reliable => e.m_WaitQueueReliable = t.m_WaitQueueReliable
      BY <3>1 DEF Enqueue, PSType
    <3>3. packet.reliable => e.m_WaitQueueReliable = <<packet.payload>>
      BY <2>4, <3>2
    <3> HIDE DEF e
    <3>4. Unseen(e, ps') /\ FramePrepared(ps')
      BY <2>4, <3>1, TransmitDueSeen DEF e
    <3> QED
      BY <2>1, <2>4, <3>2, <3>3, <3>4 DEF Moved, Unseen
  <2> QED
    BY <2>2, <2>3, <2>4
<1> QED
  BY <1>1, <1>2, <1>3 DEF OpportunityForTransmission

-----------------------------------------------------------------------------
(* Received frames.                                                        *)

(* Giving up the wait for an acknowledgement is not seen.                  *)
LEMMA StopWaitingUnseen ==
  ASSUME NEW s \in PSType
  PROVE  StopWaiting(s) \in PSType /\ Unseen(s, StopWaiting(s))
<1> DEFINE timer == Cancel(s.m_Timer)
<1>1. timer \in TimerType(Waits)
  BY TimerFacts DEF PSType
<1>2. StopWaiting(s) = [s EXCEPT !.m_bWaitForAck = FALSE, !.m_Timer = timer]
  BY DEF StopWaiting
<1> HIDE DEF timer
<1> QED
  BY <1>1, <1>2 DEF PSType, Unseen

(* Neither is the end of the RNR condition.                                *)
LEMMA RestartFlowUnseen ==
  ASSUME NEW s \in PSType
  PROVE  RestartFlow(s) \in PSType /\ Unseen(s, RestartFlow(s))
<1> DEFINE w == StopWaiting(s)
           t == [w EXCEPT !.m_bPeerStoppedFlow = FALSE]
<1>1. w \in PSType /\ Unseen(s, w)
  BY StopWaitingUnseen
<1>2. RestartFlow(s) = IF s.m_bPeerStoppedFlow THEN t ELSE s
  BY DEF RestartFlow
<1> HIDE DEF w
<1>3. t \in PSType /\ Unseen(w, t)
  BY <1>1 DEF PSType, Unseen
<1> HIDE DEF t
<1> QED
  BY <1>1, <1>2, <1>3 DEF Unseen

\* What an acknowledgement with the receive number nr may do to the queue.
Popped(s, nr, queue) ==
  \/ queue = s.m_WaitQueueReliable
  \/ /\ nr = Succ(s.m_SSeqOutgoing)
     /\ s.m_WaitQueueReliable # <<>>
     /\ queue = Tail(s.m_WaitQueueReliable)

(* Only the awaited number takes the head from the queue.                  *)
LEMMA PopAcknowledgedSeen ==
  ASSUME NEW s \in PSType, Waiting(s), NEW frame
  PROVE  LET t == PopAcknowledged(s, frame)
         IN /\ t \in PSType
            /\ t.m_SSeqOutgoing = s.m_SSeqOutgoing
            /\ t.m_RSeqIncoming = s.m_RSeqIncoming
            /\ Popped(s, frame.nr, t.m_WaitQueueReliable)
<1> DEFINE w == StopWaiting(s)
           t == [w EXCEPT !.m_WaitQueueReliable = Tail(@)]
<1>1. CASE Acknowledges(frame, s)
  <2>1. s.m_WaitQueueReliable # <<>> /\ frame.nr = Succ(s.m_SSeqOutgoing)
    BY <1>1 DEF Acknowledges, Waiting
  <2>2. w \in PSType /\ Unseen(s, w)
    BY StopWaitingUnseen
  <2>3. PopAcknowledged(s, frame) = t
    BY <1>1 DEF PopAcknowledged
  <2> HIDE DEF w
  <2>4. Tail(w.m_WaitQueueReliable) \in Seq(Payload)
    BY <2>1, <2>2 DEF Unseen, PSType
  <2>5. /\ t \in PSType
        /\ t.m_SSeqOutgoing = w.m_SSeqOutgoing
        /\ t.m_RSeqIncoming = w.m_RSeqIncoming
        /\ t.m_WaitQueueReliable = Tail(w.m_WaitQueueReliable)
    BY <2>2, <2>4 DEF PSType
  <2> HIDE DEF t
  <2> QED
    BY <2>1, <2>2, <2>3, <2>5 DEF Unseen, Popped
<1>2. CASE ~Acknowledges(frame, s)
  BY <1>2 DEF PopAcknowledged, Popped
<1> QED
  BY <1>1, <1>2

(* The number of the acknowledgement becomes the send number.              *)
LEMMA AcknowledgementSeen ==
  ASSUME NEW s, MembersInv(s), NEW frame \in Frame, frame.type \in {"I", "RR", "RNR"}
  PROVE  LET t == Acknowledgement(s, frame)
         IN /\ t.m_SSeqOutgoing = frame.nr
            /\ t.m_RSeqIncoming = s.m_RSeqIncoming
            /\ Popped(s, frame.nr, t.m_WaitQueueReliable)
<1>0. s \in PSType /\ Waiting(s) /\ frame.nr \in SeqNumbers
  BY DEF MembersInv, Frame
<1>1. ASSUME NEW u \in PSType, u.m_RSeqIncoming = s.m_RSeqIncoming, Popped(s, frame.nr, u.m_WaitQueueReliable)
      PROVE  LET t == [u EXCEPT !.m_SSeqOutgoing = frame.nr]
             IN /\ t.m_SSeqOutgoing = frame.nr
                /\ t.m_RSeqIncoming = s.m_RSeqIncoming
                /\ Popped(s, frame.nr, t.m_WaitQueueReliable)
  <2> DEFINE t == [u EXCEPT !.m_SSeqOutgoing = frame.nr]
  <2>1. /\ t.m_SSeqOutgoing = frame.nr
        /\ t.m_RSeqIncoming = u.m_RSeqIncoming
        /\ t.m_WaitQueueReliable = u.m_WaitQueueReliable
    BY <1>1 DEF PSType
  <2> HIDE DEF t
  <2>2. QED
    BY <1>1, <2>1 DEF t
<1>2. CASE frame.type \in {"I", "RR"}
  <2> DEFINE v == IF frame.type = "RR" THEN RestartFlow(s) ELSE s
             u == PopAcknowledged(v, frame)
  <2>1. v \in PSType /\ Waiting(v) /\ Unseen(s, v)
    BY <1>0, RestartFlowFacts, RestartFlowUnseen DEF Unseen, MembersInv
  <2>2. Acknowledgement(s, frame) = [u EXCEPT !.m_SSeqOutgoing = frame.nr]
    BY <1>2 DEF Acknowledgement, OnIOrRR
  <2> HIDE DEF v
  <2>3. /\ u \in PSType
        /\ u.m_RSeqIncoming = v.m_RSeqIncoming
        /\ Popped(v, frame.nr, u.m_WaitQueueReliable)
    BY <2>1, PopAcknowledgedSeen
  <2> HIDE DEF u
  <2>4. u.m_RSeqIncoming = s.m_RSeqIncoming /\ Popped(s, frame.nr, u.m_WaitQueueReliable)
    BY <2>1, <2>3 DEF Unseen, Popped
  <2> QED
    BY <1>1, <2>2, <2>3, <2>4
<1>3. CASE frame.type = "RNR"
  <2> DEFINE stop == [s EXCEPT !.m_bPeerStoppedFlow = TRUE, !.m_bPeerStoppedFlowNew = TRUE,
                               !.m_bPeerStoppedFlowQueried = FALSE]
             v == IF s.m_bPeerStoppedFlow THEN s ELSE stop
             p == PopAcknowledged(v, frame)
             u == IF s.m_bWaitForAck THEN StopWaiting(p) ELSE p
  <2>1. stop \in PSType /\ Waiting(stop) /\ Unseen(s, stop)
    BY <1>0 DEF PSType, Waiting, Unseen
  <2> HIDE DEF stop
  <2>2. v \in PSType /\ Waiting(v) /\ Unseen(s, v)
    BY <1>0, <2>1 DEF Unseen
  <2>3. Acknowledgement(s, frame) = [u EXCEPT !.m_SSeqOutgoing = frame.nr]
    BY <1>3 DEF Acknowledgement, OnRNR, stop
  <2> HIDE DEF v
  <2>4. /\ p \in PSType
        /\ p.m_RSeqIncoming = v.m_RSeqIncoming
        /\ Popped(v, frame.nr, p.m_WaitQueueReliable)
    BY <2>2, PopAcknowledgedSeen
  <2> HIDE DEF p
  <2>5. u \in PSType /\ Unseen(p, u)
    BY <2>4, StopWaitingUnseen DEF Unseen
  <2> HIDE DEF u
  <2>6. u.m_RSeqIncoming = s.m_RSeqIncoming /\ Popped(s, frame.nr, u.m_WaitQueueReliable)
    BY <2>2, <2>4, <2>5 DEF Unseen, Popped
  <2> QED
    BY <1>1, <2>3, <2>5, <2>6
<1> QED
  BY <1>2, <1>3

(* A payload moves the receive number.                                     *)
LEMMA AcceptPayloadSeen ==
  ASSUME NEW s \in PSType, NEW frame \in Frame
  PROVE  LET t == AcceptPayload(s, frame)
         IN /\ t.m_SSeqOutgoing = s.m_SSeqOutgoing
            /\ t.m_RSeqIncoming = IF frame.type = "I" /\ frame.payload # NoPayload
                                  THEN Succ(frame.ns) ELSE s.m_RSeqIncoming
            /\ t.m_WaitQueueReliable = s.m_WaitQueueReliable
  BY DEF AcceptPayload, PSType

-----------------------------------------------------------------------------
(* The handlers.                                                           *)

(* The port is opened: the numbers start again.                            *)
LEMMA StartSeen ==
  ASSUME IInv, ~TransmittedWhileStopped, Start
  PROVE  Moved(0, 0, ps.m_WaitQueueReliable, ps.m_SendBuffer) /\ ps'.m_bStarted
<1> DEFINE r == ResetMembers(ps)
           s == [r EXCEPT !.m_bStarted = TRUE, !.m_bSendProbe = TRUE]
<1>1. Found /\ offers \subseteq DataPacket /\ ps \in PSType
  BY FoundFacts DEF IInv, TypeOK, Found
<1>2. /\ r \in PSType
      /\ r.m_bAwaitsNextHDLCFrame /\ ~r.m_bPeerStoppedFlow /\ ~r.m_bWaitForAck
      /\ r.m_SendBuffer = ps.m_SendBuffer
      /\ r.writes = ps.writes
  BY <1>1, ResetMembersFacts DEF Found
<1>3. r.m_SSeqOutgoing = 0 /\ r.m_RSeqIncoming = 0 /\ r.m_WaitQueueReliable = ps.m_WaitQueueReliable
  BY <1>1 DEF ResetMembers, PSType
<1>4. OpportunityForTransmission(s) /\ IsEmpty(ps.m_SendBuffer)
  BY DEF Start, TransmittedWhileStopped
<1> HIDE DEF r
<1>5. s \in PSType
  BY <1>2 DEF PSType
<1>6. /\ s.m_bStarted
      /\ s.m_bAwaitsNextHDLCFrame /\ ~s.m_bPeerStoppedFlow /\ ~s.m_bWaitForAck
      /\ s.m_SendBuffer = r.m_SendBuffer
      /\ s.writes = r.writes
      /\ s.m_SSeqOutgoing = r.m_SSeqOutgoing
      /\ s.m_RSeqIncoming = r.m_RSeqIncoming
      /\ s.m_WaitQueueReliable = r.m_WaitQueueReliable
  BY <1>2 DEF PSType
<1> HIDE DEF s
<1>7. MembersInv(s)
  BY <1>2, <1>4, <1>5, <1>6 DEF MembersInv, Waiting, NotWaitedFor, OneFrame, Polled
<1> QED
  BY <1>1, <1>2, <1>3, <1>4, <1>6, <1>7, OpportunitySeen

(* The port is closed: the numbers start again, and the frame being        *)
(* written is given up.                                                    *)
LEMMA StopSeen ==
  ASSUME IInv, Stop
  PROVE  Moved(0, 0, ps.m_WaitQueueReliable, UnsetFrame) /\ ~ps'.m_bStarted
<1> DEFINE r == ResetMembers(ps)
           s == [r EXCEPT !.m_SendBuffer = UnsetFrame, !.writes = 0]
<1>1. ps \in PSType
  BY FoundFacts DEF Found
<1>2. r \in PSType /\ ~r.m_bStarted
  BY <1>1, ResetMembersFacts
<1>3. r.m_SSeqOutgoing = 0 /\ r.m_RSeqIncoming = 0 /\ r.m_WaitQueueReliable = ps.m_WaitQueueReliable
  BY <1>1 DEF ResetMembers, PSType
<1>4. ps' = s
  BY DEF Stop, GivenUp
<1> HIDE DEF r
<1> QED
  BY <1>2, <1>3, <1>4 DEF PSType, Moved

(* A packet of a client is queued.                                         *)
LEMMA SendPayloadSeen ==
  ASSUME IInv, NEW packet \in offers, packet.reliable, SendPayload(packet)
  PROVE  /\ Moved(ps.m_SSeqOutgoing, ps.m_RSeqIncoming,
                  Append(ps.m_WaitQueueReliable, packet.payload), ps.m_SendBuffer)
         /\ ps'.m_bStarted = ps.m_bStarted
<1> DEFINE s == Enqueue(ps, packet)
<1>1. Found /\ packet \in DataPacket /\ offers \subseteq DataPacket /\ ps \in PSType
  BY FoundFacts DEF IInv, TypeOK, Found
<1>2. MembersInv(s) /\ s.m_bStarted = ps.m_bStarted
  BY <1>1, EnqueueFacts DEF Found
<1>3. /\ s.m_SSeqOutgoing = ps.m_SSeqOutgoing
      /\ s.m_RSeqIncoming = ps.m_RSeqIncoming
      /\ s.m_WaitQueueReliable = Append(ps.m_WaitQueueReliable, packet.payload)
      /\ s.m_SendBuffer = ps.m_SendBuffer
  BY <1>1 DEF Enqueue, PSType
<1>4. OpportunityForTransmission(s)
  BY DEF SendPayload
<1> HIDE DEF s
<1> QED
  BY <1>1, <1>2, <1>3, <1>4, OpportunitySeen

(* A frame of the peer is interpreted.                                     *)
LEMMA FrameSeen ==
  ASSUME IInv, NEW frame \in Frame, frame.type \in {"I", "RR", "RNR", "TEST"},
         InterpretDeserializedFrame(frame)
  PROVE  /\ ps.m_bStarted /\ ps'.m_bStarted
         /\ \E queue:
              /\ Moved(IF frame.type = "TEST" THEN ps.m_SSeqOutgoing ELSE frame.nr,
                       IF frame.type = "I" /\ frame.payload # NoPayload
                       THEN Succ(frame.ns) ELSE ps.m_RSeqIncoming,
                       queue, ps.m_SendBuffer)
              /\ Popped(ps, frame.nr, queue)
              /\ frame.type = "TEST" => queue = ps.m_WaitQueueReliable
<1> DEFINE t == AcceptPayload(ps, frame)
           s == Acknowledgement(t, frame)
<1>1. Found /\ offers \subseteq DataPacket /\ ps \in PSType
  BY FoundFacts DEF IInv, TypeOK, Found
<1>2. MembersInv(t) /\ Kept(ps, t)
  BY <1>1, AcceptPayloadFacts DEF Found
<1>3. /\ t.m_SSeqOutgoing = ps.m_SSeqOutgoing
      /\ t.m_RSeqIncoming = IF frame.type = "I" /\ frame.payload # NoPayload
                            THEN Succ(frame.ns) ELSE ps.m_RSeqIncoming
      /\ t.m_WaitQueueReliable = ps.m_WaitQueueReliable
  BY <1>1, AcceptPayloadSeen
<1>4. ps.m_bStarted /\ OpportunityForTransmission(s)
  BY DEF InterpretDeserializedFrame
<1> HIDE DEF t
<1>5. MembersInv(s) /\ Kept(t, s)
  BY <1>2, AcknowledgementFacts
<1>6. /\ s.m_SSeqOutgoing = IF frame.type = "TEST" THEN t.m_SSeqOutgoing ELSE frame.nr
      /\ s.m_RSeqIncoming = t.m_RSeqIncoming
      /\ Popped(t, frame.nr, s.m_WaitQueueReliable)
      /\ frame.type = "TEST" => s.m_WaitQueueReliable = t.m_WaitQueueReliable
  <2>1. CASE frame.type = "TEST"
    BY <2>1 DEF Acknowledgement, Popped
  <2>2. CASE frame.type \in {"I", "RR", "RNR"}
    BY <1>2, <2>2, AcknowledgementSeen
  <2> QED
    BY <2>1, <2>2
<1> HIDE DEF s
<1>7. /\ Moved(s.m_SSeqOutgoing, s.m_RSeqIncoming, s.m_WaitQueueReliable, s.m_SendBuffer)
      /\ ps'.m_bStarted = s.m_bStarted
  BY <1>1, <1>2, <1>4, <1>5, OpportunitySeen DEF Kept
<1> QED
  BY <1>2, <1>3, <1>4, <1>5, <1>6, <1>7 DEF Kept, Popped

\* The station as the end of the only write leaves it.
LineFree == [ps EXCEPT !.m_bAwaitsNextHDLCFrame = TRUE, !.writes = 0, !.m_SendBuffer = UnsetFrame]

(* As long as no completion of an earlier write misled the station, the    *)
(* end of a write leaves nothing on the line.                              *)
LEMMA LastWritten ==
  ASSUME IInv, ~misled, TriggerNextHDLCFrame
  PROVE  OpportunityForTransmission(LineFree) /\ MembersInv(LineFree)
<1>1. MembersInv(ps) /\ Alone(ps) /\ ps.writes > 0
  BY FoundFacts DEF Found, TriggerNextHDLCFrame
<1>2. ps.writes = 1
  BY <1>1 DEF Alone
<1>3. Written(ps) = LineFree
  BY <1>2 DEF Written, LineFree
<1> QED
  BY <1>1, <1>3, WrittenFacts DEF TriggerNextHDLCFrame

(* The end of a write: the next frame is written, if there is one.         *)
LEMMA TriggerSeen ==
  ASSUME IInv, ~misled, TriggerNextHDLCFrame
  PROVE  /\ Moved(ps.m_SSeqOutgoing, ps.m_RSeqIncoming, ps.m_WaitQueueReliable, UnsetFrame)
         /\ ps'.m_bStarted = ps.m_bStarted
<1>1. Found /\ offers \subseteq DataPacket /\ ps \in PSType
  BY FoundFacts DEF IInv, TypeOK, Found
<1>2. Unseen(ps, LineFree) /\ LineFree.m_SendBuffer = UnsetFrame
  BY <1>1 DEF LineFree, PSType, Unseen
<1> QED
  BY <1>1, <1>2, LastWritten, OpportunitySeen DEF Unseen

(* The timers leave the numbers alone.                                     *)
LEMMA TimersSeen ==
  ASSUME IInv,
         \/ TimerExpires \/ OnRetransmissionTimeout \/ OnQueryTimeout
         \/ StateTimerExpires \/ ProbeTimerExpires \/ OnStateTimeout \/ OnProbeTimeout
  PROVE  /\ Moved(ps.m_SSeqOutgoing, ps.m_RSeqIncoming, ps.m_WaitQueueReliable, ps.m_SendBuffer)
         /\ ps'.m_bStarted = ps.m_bStarted
<1>1. Found /\ offers \subseteq DataPacket /\ ps \in PSType /\ MembersInv(ps) /\ ps.m_Timer \in TimerType(Waits)
  BY FoundFacts DEF IInv, TypeOK, Found, PSType
<1>2. ASSUME NEW s, MembersInv(s), Unseen(ps, s), s.m_SendBuffer = ps.m_SendBuffer,
             OpportunityForTransmission(s) \/ ps' = s
      PROVE  /\ Moved(ps.m_SSeqOutgoing, ps.m_RSeqIncoming, ps.m_WaitQueueReliable, ps.m_SendBuffer)
             /\ ps'.m_bStarted = ps.m_bStarted
  <2>1. CASE OpportunityForTransmission(s)
    BY <1>1, <1>2, <2>1, OpportunitySeen DEF Unseen
  <2>2. CASE ps' = s
    BY <1>2, <2>2 DEF Unseen, Moved
  <2> QED
    BY <1>2, <2>1, <2>2
<1>3. ASSUME NEW timer \in TimerType(Waits), ~ps.m_bPeerStoppedFlow \/ Pending(timer, "query") \/ ~Pending(ps.m_Timer, "query")
      PROVE  LET t == [ps EXCEPT !.m_Timer = timer]
             IN MembersInv(t) /\ Unseen(ps, t) /\ t.m_SendBuffer = ps.m_SendBuffer
  <2> DEFINE t == [ps EXCEPT !.m_Timer = timer]
  <2>1. MembersInv(t) /\ Kept(ps, t)
    BY <1>1, <1>3, TimerUpdateFacts
  <2>2. Unseen(ps, t)
    BY <1>1 DEF PSType, Unseen
  <2> QED
    BY <2>1, <2>2 DEF Kept
<1>4. CASE TimerExpires
  BY <1>1, <1>2, <1>3, <1>4, TimerFacts DEF TimerExpires
<1>5. CASE OnRetransmissionTimeout
  <2> DEFINE timer == Dispatch(ps.m_Timer)
             t == [ps EXCEPT !.m_Timer = timer]
             s == [t EXCEPT !.m_bWaitForAck = FALSE]
  <2>1. timer \in TimerType(Waits) /\ (Pending(ps.m_Timer, "query") => Pending(timer, "query"))
    BY <1>1, <1>5, TimerFacts DEF OnRetransmissionTimeout
  <2>2. OpportunityForTransmission(s)
    BY <1>5 DEF OnRetransmissionTimeout
  <2> HIDE DEF timer
  <2>3. MembersInv(t) /\ Unseen(ps, t) /\ t.m_SendBuffer = ps.m_SendBuffer
    BY <1>3, <2>1
  <2> HIDE DEF t
  <2>4. t \in PSType
    BY <2>3 DEF MembersInv
  <2>5. s \in PSType
    BY <2>4 DEF PSType
  <2>6. Kept(t, s) /\ Unseen(t, s) /\ MembersInv(s)
    BY <2>3, <2>4, <2>5 DEF PSType, Kept, Unseen, MembersInv, Waiting, NotWaitedFor, OneFrame, Polled
  <2> HIDE DEF s
  <2> QED
    BY <1>2, <2>2, <2>3, <2>6 DEF Kept, Unseen
<1>6. CASE OnQueryTimeout /\ ps.m_bPeerStoppedFlow
  <2> DEFINE timer == Dispatch(ps.m_Timer)
             s == [ps EXCEPT !.m_Timer = timer, !.m_bPeerRequiresAck = TRUE,
                             !.m_bPeerStoppedFlowQueried = FALSE]
  <2>1. timer \in TimerType(Waits)
    BY <1>1, TimerFacts
  <2>2. OpportunityForTransmission(s)
    BY <1>6 DEF OnQueryTimeout
  <2> HIDE DEF timer
  <2>3. s \in PSType
    BY <1>1, <2>1 DEF PSType
  <2>4. /\ Kept(ps, s) /\ Unseen(ps, s)
        /\ s.m_bPeerRequiresAck /\ ~s.m_bPeerStoppedFlowQueried
        /\ s.m_bPeerStoppedFlow = ps.m_bPeerStoppedFlow
        /\ s.m_bWaitForAck = ps.m_bWaitForAck
    BY <1>1 DEF PSType, Kept, Unseen
  <2> HIDE DEF s
  <2>5. MembersInv(s)
    BY <1>1, <2>3, <2>4 DEF MembersInv, Kept, Unseen, Waiting, NotWaitedFor, OneFrame, Polled
  <2> QED
    BY <1>2, <2>2, <2>4, <2>5 DEF Kept
<1>7. CASE OnQueryTimeout /\ ~ps.m_bPeerStoppedFlow
  BY <1>1, <1>2, <1>3, <1>7, TimerFacts DEF OnQueryTimeout
<1>8. CASE StateTimerExpires \/ ProbeTimerExpires \/ OnStateTimeout
  BY <1>1, <1>2, <1>8 DEF StateTimerExpires, ProbeTimerExpires, OnStateTimeout, Unseen
<1>9. CASE OnProbeTimeout
  <2> DEFINE s == [ps EXCEPT !.m_bSendProbe = TRUE]
  <2>1. ps' = ps \/ OpportunityForTransmission(s) \/ ps' = s
    BY <1>9 DEF OnProbeTimeout
  <2>2. s \in PSType
    BY <1>1 DEF PSType
  <2>3. Kept(ps, s) /\ Unseen(ps, s) /\ MembersInv(s)
    BY <1>1, <2>2 DEF PSType, Kept, Unseen, MembersInv, Waiting, NotWaitedFor, OneFrame, Polled
  <2> HIDE DEF s
  <2> QED
    BY <1>1, <1>2, <2>1, <2>3 DEF Kept, Unseen
<1> QED
  BY <1>4, <1>5, <1>6, <1>7, <1>8, <1>9

-----------------------------------------------------------------------------
(* A station whose peer neither stops the flow nor sends I-frames, and     *)
(* whose clients send reliable packets only: it owes nothing but probes    *)
(* and the head of its queue, and its timer runs or is due only while it   *)
(* waits for an acknowledgement.                                           *)

Plain(s) ==
  /\ ~s.m_bPeerStoppedFlow /\ ~s.m_bPeerStoppedFlowNew /\ ~s.m_bPeerRequiresAck
  /\ s.m_SREJs = <<>> /\ s.m_WaitQueueUnreliable = <<>>
  /\ s.m_Timer.armed \in {Off, "retransmit"} /\ s.m_Timer.queued \in {Off, "retransmit"}
  /\ s.m_Timer.armed # Off => s.m_bWaitForAck /\ s.m_Timer.queued = Off
  /\ s.m_Timer.queued # Off => s.m_bWaitForAck

\* What may be made of a wait, a queued handler and a frame being written.
Turned(waits, queued, frame) ==
  /\ Plain(ps')
  /\ \/ /\ ps'.m_SendBuffer = frame \/ ps'.m_SendBuffer.type = "TEST"
        /\ ps'.m_bWaitForAck = waits /\ ps'.m_Timer.queued = queued
     \/ /\ ps'.m_SendBuffer.type = "I" /\ ~waits
        /\ ps'.m_bWaitForAck /\ ps'.m_Timer.queued = Off
        /\ (Alive!IsAlive)'

\* The same of the members s.
TurnedFrom(s) == Turned(s.m_bWaitForAck, s.m_Timer.queued, s.m_SendBuffer)

(* Such a station sends probes and, unless it waits, the head of its queue. *)
LEMMA PlainTransmission ==
  ASSUME NEW s \in PSType, Plain(s), TransmitDue(s)
  PROVE  TurnedFrom(s)
<1>1. ~SREJDue(s) /\ ~RRDue(s) /\ ~UIDue(s)
  BY DEF Plain, SREJDue, RRDue, UIDue
<1>2. CASE SendProbe(s)
  <2> DEFINE t == [s EXCEPT !.m_bSendProbe = FALSE]
             u == [t EXCEPT !.m_bAwaitsNextHDLCFrame = FALSE, !.m_SendBuffer = PrepareUFrameTEST,
                            !.writes = @ + 1]
  <2>1. ps' = u
    BY <1>2 DEF SendProbe, Transmit
  <2>2. t \in PSType /\ Plain(t) /\ t.m_bWaitForAck = s.m_bWaitForAck /\ t.m_Timer = s.m_Timer
    BY DEF PSType, Plain
  <2> HIDE DEF t
  <2>3. /\ Plain(u) /\ u.m_bWaitForAck = t.m_bWaitForAck /\ u.m_Timer = t.m_Timer
        /\ u.m_SendBuffer = PrepareUFrameTEST
    BY <2>2 DEF PSType, Plain
  <2>4. PrepareUFrameTEST.type = "TEST"
    BY DEF PrepareUFrameTEST, UnsetFrame
  <2> HIDE DEF u
  <2> QED
    BY <2>1, <2>2, <2>3, <2>4 DEF Turned, TurnedFrom
<1>3. CASE IFrameDue(s) /\ SendIFrame(s) /\ (Alive!IsAlive)'
  <2> DEFINE timer == AsyncWait(s.m_Timer, "retransmit")
             t == [s EXCEPT !.m_bWaitForAck = TRUE, !.m_bPeerRequiresAck = FALSE, !.m_Timer = timer]
             u == [t EXCEPT !.m_bAwaitsNextHDLCFrame = FALSE, !.m_SendBuffer = PrepareIFrame(s),
                            !.writes = @ + 1]
  <2>1. ps' = u
    BY <1>3 DEF SendIFrame, Transmit
  <2>2. ~s.m_bWaitForAck /\ s.m_Timer.queued = Off
    BY <1>3 DEF IFrameDue, Plain
  <2>3. timer.armed = "retransmit" /\ timer.queued = Off /\ timer \in TimerType(Waits)
    BY <2>2 DEF AsyncWait, PSType, TimerType, Waits
  <2> HIDE DEF timer
  <2>4. t \in PSType /\ Plain(t) /\ t.m_bWaitForAck /\ t.m_Timer = timer
    BY <2>3 DEF PSType, Plain
  <2> HIDE DEF t
  <2>5. Plain(u) /\ u.m_bWaitForAck /\ u.m_Timer = timer /\ u.m_SendBuffer = PrepareIFrame(s)
    BY <2>4 DEF PSType, Plain
  <2>6. PrepareIFrame(s).type = "I"
    BY DEF PrepareIFrame, UnsetFrame
  <2> HIDE DEF u
  <2> QED
    BY <1>3, <2>1, <2>2, <2>3, <2>5, <2>6 DEF Turned, TurnedFrom
<1> QED
  BY <1>1, <1>2, <1>3 DEF TransmitDue

(* The same of an opportunity for transmission.                            *)
LEMMA PlainOpportunity ==
  ASSUME NEW s \in PSType, Plain(s), OpportunityForTransmission(s),
         offers \subseteq DataPacket, \A packet \in offers: packet.reliable
  PROVE  TurnedFrom(s)
<1>1. CASE ps' = s
  BY <1>1 DEF Turned, TurnedFrom
<1>2. CASE TransmitDue(s)
  BY <1>2, PlainTransmission
<1>3. CASE QueryForPayload(s, TRUE, TRUE) \/ QueryForPayload(s, FALSE, TRUE)
  <2>1. CASE ps' = s
    BY <2>1, <1>1
  <2>2. ASSUME NEW packet \in offers, TransmitDue(Enqueue(s, packet))
        PROVE  TurnedFrom(s)
    <3> DEFINE e == [s EXCEPT !.m_WaitQueueReliable = Append(@, packet.payload)]
    <3>1. Enqueue(s, packet) = e
      BY DEF Enqueue
    <3>2. Append(s.m_WaitQueueReliable, packet.payload) \in Seq(Payload)
      BY DEF PSType, DataPacket
    <3>3. /\ e \in PSType /\ Plain(e)
          /\ e.m_bWaitForAck = s.m_bWaitForAck /\ e.m_Timer = s.m_Timer /\ e.m_SendBuffer = s.m_SendBuffer
      BY <3>2 DEF PSType, Plain
    <3> HIDE DEF e
    <3> QED
      BY <2>2, <3>1, <3>3, PlainTransmission DEF TurnedFrom
  <2> QED
    BY <1>3, <2>1, <2>2 DEF QueryForPayload
<1>4. StartQueryTimer(s) = s /\ ~s.m_bPeerStoppedFlow
  BY DEF StartQueryTimer, Plain
<1>5. CASE ~(ps' = s \/ TransmitDue(s))
  <2>1. \/ QueryForPayload(s, s.m_WaitQueueReliable = <<>> /\ ~s.m_bPeerStoppedFlow, TRUE)
        \/ ps' = s
    BY <1>4, <1>5 DEF OpportunityForTransmission
  <2>2. (s.m_WaitQueueReliable = <<>> /\ ~s.m_bPeerStoppedFlow) \in BOOLEAN
    OBVIOUS
  <2> QED
    BY <1>3, <1>5, <2>1, <2>2
<1> QED
  BY <1>1, <1>2, <1>5

\* The clients hold packets for the reliable service only.
OffersReliable == \A packet \in offers: packet.reliable

(* The port is opened.                                                     *)
LEMMA PlainStart ==
  ASSUME IInv, Plain(ps), ~ps.m_bWaitForAck, OffersReliable, Start
  PROVE  Turned(FALSE, Off, ps.m_SendBuffer)
<1> DEFINE timer == Cancel(ps.m_Timer)
           s == [ResetMembers(ps) EXCEPT !.m_bStarted = TRUE, !.m_bSendProbe = TRUE]
<1>1. Found /\ offers \subseteq DataPacket /\ ps \in PSType
  BY FoundFacts DEF IInv, TypeOK, Found
<1>2. timer \in TimerType(Waits) /\ timer.armed = Off /\ timer.queued = Off
  BY <1>1 DEF Cancel, Plain, PSType, TimerType
<1>3. OpportunityForTransmission(s)
  BY DEF Start
<1>4. ResetMembers(ps).m_Timer = timer
  BY <1>1 DEF ResetMembers, PSType
<1>5. ResetMembers(ps) \in PSType /\ ~ResetMembers(ps).m_bWaitForAck
      /\ ResetMembers(ps).m_SendBuffer = ps.m_SendBuffer
  BY <1>1, ResetMembersFacts
<1>6. Plain(ResetMembers(ps))
  <2>1. /\ ~ResetMembers(ps).m_bPeerStoppedFlow /\ ~ResetMembers(ps).m_bPeerStoppedFlowNew
        /\ ~ResetMembers(ps).m_bPeerRequiresAck
        /\ ResetMembers(ps).m_SREJs = <<>>
        /\ ResetMembers(ps).m_WaitQueueUnreliable = ps.m_WaitQueueUnreliable
    BY <1>1 DEF ResetMembers, PSType
  <2> QED
    BY <1>2, <1>4, <2>1 DEF Plain
<1> HIDE DEF timer
<1>7. /\ s \in PSType /\ Plain(s) /\ ~s.m_bWaitForAck /\ s.m_Timer = timer
      /\ s.m_SendBuffer = ps.m_SendBuffer
  BY <1>4, <1>5, <1>6 DEF PSType, Plain
<1> HIDE DEF s
<1>8. s.m_bWaitForAck = FALSE
  BY <1>7 DEF PSType
<1> QED
  BY <1>1, <1>2, <1>3, <1>7, <1>8, PlainOpportunity DEF TurnedFrom, OffersReliable

(* The end of a write.                                                     *)
LEMMA PlainTrigger ==
  ASSUME IInv, ~misled, Plain(ps), OffersReliable, TriggerNextHDLCFrame
  PROVE  Turned(ps.m_bWaitForAck, ps.m_Timer.queued, UnsetFrame)
<1> DEFINE s == LineFree
<1>1. Found /\ offers \subseteq DataPacket /\ ps \in PSType
  BY FoundFacts DEF IInv, TypeOK, Found
<1>2. /\ s \in PSType /\ Plain(s) /\ s.m_bWaitForAck = ps.m_bWaitForAck /\ s.m_Timer = ps.m_Timer
      /\ s.m_SendBuffer = UnsetFrame
  BY <1>1, UnsetFrameType DEF PSType, Plain, LineFree
<1>3. OpportunityForTransmission(s)
  BY LastWritten
<1> HIDE DEF s
<1> QED
  BY <1>1, <1>2, <1>3, PlainOpportunity DEF TurnedFrom, OffersReliable

(* A packet of a client is queued.                                         *)
LEMMA PlainSendPayload ==
  ASSUME IInv, Plain(ps), OffersReliable, NEW packet \in offers, SendPayload(packet)
  PROVE  TurnedFrom(ps)
<1> DEFINE s == [ps EXCEPT !.m_WaitQueueReliable = Append(@, packet.payload)]
<1>1. Found /\ packet \in DataPacket /\ packet.reliable /\ offers \subseteq DataPacket /\ ps \in PSType
  BY FoundFacts DEF IInv, TypeOK, Found, OffersReliable
<1>2. Append(ps.m_WaitQueueReliable, packet.payload) \in Seq(Payload)
  BY <1>1 DEF PSType, DataPacket
<1>3. /\ s \in PSType /\ Plain(s) /\ s.m_bWaitForAck = ps.m_bWaitForAck /\ s.m_Timer = ps.m_Timer
      /\ s.m_SendBuffer = ps.m_SendBuffer
  BY <1>1, <1>2 DEF PSType, Plain
<1>4. OpportunityForTransmission(s)
  BY <1>1 DEF SendPayload, Enqueue
<1> HIDE DEF s
<1> QED
  BY <1>1, <1>3, <1>4, PlainOpportunity DEF TurnedFrom, OffersReliable

(* The retransmission timer expires only while the station waits, and its  *)
(* handler ends the wait; there is no query timer.                         *)
LEMMA PlainTimer ==
  ASSUME IInv, Plain(ps), OffersReliable
  PROVE  /\ TimerExpires => Turned(TRUE, "retransmit", ps.m_SendBuffer) /\ ps.m_bWaitForAck
         /\ OnRetransmissionTimeout => Turned(FALSE, Off, ps.m_SendBuffer) /\ ps.m_Timer.queued # Off
         /\ ~OnQueryTimeout
<1>1. Found /\ offers \subseteq DataPacket /\ ps \in PSType
  BY FoundFacts DEF IInv, TypeOK, Found
<1>2. ASSUME TimerExpires
      PROVE  Turned(TRUE, "retransmit", ps.m_SendBuffer) /\ ps.m_bWaitForAck
  <2> DEFINE timer == Expire(ps.m_Timer)
             s == [ps EXCEPT !.m_Timer = timer]
  <2>1. ps' = s /\ ps.m_Timer.armed = "retransmit" /\ ps.m_bWaitForAck = TRUE
    BY <1>1, <1>2 DEF TimerExpires, CanExpire, Plain, PSType
  <2>2. timer \in TimerType(Waits) /\ timer.armed = Off /\ timer.queued = "retransmit"
    BY <1>1, <2>1 DEF Expire, PSType, TimerType
  <2> HIDE DEF timer
  <2>3. Plain(s) /\ s.m_bWaitForAck = TRUE /\ s.m_Timer = timer /\ s.m_SendBuffer = ps.m_SendBuffer
    BY <1>1, <2>1, <2>2 DEF PSType, Plain
  <2> HIDE DEF s
  <2> QED
    BY <2>1, <2>2, <2>3 DEF Turned
<1>3. ASSUME OnRetransmissionTimeout
      PROVE  Turned(FALSE, Off, ps.m_SendBuffer) /\ ps.m_Timer.queued # Off
  <2> DEFINE timer == Dispatch(ps.m_Timer)
             s == [ps EXCEPT !.m_Timer = timer, !.m_bWaitForAck = FALSE]
  <2>1. OpportunityForTransmission(s) /\ ps.m_Timer.queued = "retransmit" /\ "retransmit" # Off
    BY <1>3 DEF OnRetransmissionTimeout, Off
  <2>2. timer \in TimerType(Waits) /\ timer.armed = Off /\ timer.queued = Off
    BY <1>1, <2>1 DEF Dispatch, PSType, TimerType, Plain
  <2> HIDE DEF timer
  <2>3. /\ s \in PSType /\ Plain(s) /\ s.m_bWaitForAck = FALSE /\ s.m_Timer = timer
        /\ s.m_SendBuffer = ps.m_SendBuffer
    BY <1>1, <2>2 DEF PSType, Plain
  <2> HIDE DEF s
  <2> QED
    BY <1>1, <2>1, <2>2, <2>3, PlainOpportunity DEF TurnedFrom, OffersReliable
<1>4. ~OnQueryTimeout
  BY DEF OnQueryTimeout, Plain, Off
<1> QED
  BY <1>2, <1>3, <1>4

(* The timers of AliveState may make the station send a probe.             *)
LEMMA PlainAliveTimers ==
  ASSUME IInv, Plain(ps), OffersReliable,
         StateTimerExpires \/ ProbeTimerExpires \/ OnStateTimeout \/ OnProbeTimeout
  PROVE  TurnedFrom(ps)
<1>1. Found /\ offers \subseteq DataPacket /\ ps \in PSType
  BY FoundFacts DEF IInv, TypeOK, Found
<1>2. CASE ps' = ps
  BY <1>2 DEF Turned, TurnedFrom
<1>3. CASE OnProbeTimeout
  <2> DEFINE s == [ps EXCEPT !.m_bSendProbe = TRUE]
  <2>1. ps' = ps \/ ps' = s \/ OpportunityForTransmission(s)
    BY <1>3 DEF OnProbeTimeout
  <2>2. /\ s \in PSType /\ Plain(s) /\ s.m_bWaitForAck = ps.m_bWaitForAck /\ s.m_Timer = ps.m_Timer
        /\ s.m_SendBuffer = ps.m_SendBuffer
    BY <1>1 DEF PSType, Plain
  <2> HIDE DEF s
  <2>3. CASE ps' = s
    BY <2>2, <2>3 DEF Turned, TurnedFrom
  <2>4. CASE OpportunityForTransmission(s)
    BY <1>1, <2>2, <2>4, PlainOpportunity DEF TurnedFrom, OffersReliable
  <2> QED
    BY <1>2, <2>1, <2>3, <2>4
<1> QED
  BY <1>2, <1>3 DEF StateTimerExpires, ProbeTimerExpires, OnStateTimeout

\* The frame acknowledges the packet at the head of the queue.
Answers(frame) == frame.type = "RR" /\ ps.m_bWaitForAck /\ frame.nr = Succ(ps.m_SSeqOutgoing)

(* An RR with the awaited number ends the wait and takes the packet from   *)
(* the queue, any other frame does neither.                                *)
LEMMA PlainFrame ==
  ASSUME IInv, Plain(ps), OffersReliable, NEW frame \in Frame, frame.type \in {"RR", "TEST"},
         Answers(frame) => ps.m_Timer.queued = Off,
         InterpretDeserializedFrame(frame)
  PROVE  /\ Turned(ps.m_bWaitForAck /\ ~Answers(frame), ps.m_Timer.queued, ps.m_SendBuffer)
         /\ Moved(IF frame.type = "RR" THEN frame.nr ELSE ps.m_SSeqOutgoing, ps.m_RSeqIncoming,
                  IF Answers(frame) THEN Tail(ps.m_WaitQueueReliable) ELSE ps.m_WaitQueueReliable,
                  ps.m_SendBuffer)
<1> DEFINE s == Acknowledgement(ps, frame)
<1>1. Found /\ offers \subseteq DataPacket /\ ps \in PSType /\ MembersInv(ps) /\ ps.m_bWaitForAck \in BOOLEAN
  BY FoundFacts DEF IInv, TypeOK, Found, PSType
<1>2. OpportunityForTransmission(s)
  BY DEF InterpretDeserializedFrame, AcceptPayload
<1>3. MembersInv(s) /\ s.m_SendBuffer = ps.m_SendBuffer
  BY <1>1, AcknowledgementFacts DEF Kept
<1>4. RestartFlow(ps) = ps /\ (frame.type = "RR" => (Answers(frame) <=> Acknowledges(frame, ps)))
  BY DEF RestartFlow, Plain, Answers, Acknowledges
<1>5. /\ Plain(s)
      /\ s.m_bWaitForAck = (ps.m_bWaitForAck /\ ~Answers(frame)) /\ s.m_Timer.queued = ps.m_Timer.queued
      /\ s.m_SSeqOutgoing = IF frame.type = "RR" THEN frame.nr ELSE ps.m_SSeqOutgoing
      /\ s.m_RSeqIncoming = ps.m_RSeqIncoming
      /\ s.m_WaitQueueReliable = IF Answers(frame) THEN Tail(ps.m_WaitQueueReliable) ELSE ps.m_WaitQueueReliable
  <2>1. CASE frame.type = "TEST"
    BY <1>1, <2>1 DEF Acknowledgement, Answers
  <2>2. CASE frame.type = "RR" /\ ~Answers(frame)
    <3>1. s = [ps EXCEPT !.m_SSeqOutgoing = frame.nr]
      BY <1>4, <2>2 DEF Acknowledgement, OnIOrRR, PopAcknowledged
    <3> QED
      BY <1>1, <2>2, <3>1 DEF PSType, Plain
  <2>3. CASE Answers(frame)
    <3> DEFINE timer == Cancel(ps.m_Timer)
               t == [ps EXCEPT !.m_bWaitForAck = FALSE, !.m_Timer = timer]
               u == [t EXCEPT !.m_WaitQueueReliable = Tail(@)]
    <3>1. s = [u EXCEPT !.m_SSeqOutgoing = frame.nr]
      BY <1>4, <2>3 DEF Acknowledgement, OnIOrRR, PopAcknowledged, StopWaiting, Answers
    <3>2. timer.armed = Off /\ timer.queued = Off /\ ps.m_Timer.queued = Off /\ timer \in TimerType(Waits)
      BY <1>1, <2>3 DEF Cancel, PSType, TimerType
    <3> HIDE DEF timer
    <3>3. /\ t \in PSType /\ Plain(t) /\ t.m_bWaitForAck = FALSE /\ t.m_Timer = timer
          /\ t.m_RSeqIncoming = ps.m_RSeqIncoming /\ t.m_WaitQueueReliable = ps.m_WaitQueueReliable
      BY <1>1, <3>2 DEF PSType, Plain
    <3> HIDE DEF t
    <3>4. Tail(t.m_WaitQueueReliable) \in Seq(Payload)
      <4>1. ps.m_WaitQueueReliable # <<>> /\ ps.m_WaitQueueReliable \in Seq(Payload)
        BY <1>1, <2>3 DEF MembersInv, Waiting, Answers, PSType
      <4> QED
        BY <3>3, <4>1
    <3>5. /\ u \in PSType /\ Plain(u) /\ u.m_bWaitForAck = FALSE /\ u.m_Timer = timer
          /\ u.m_RSeqIncoming = ps.m_RSeqIncoming /\ u.m_WaitQueueReliable = Tail(ps.m_WaitQueueReliable)
      BY <3>3, <3>4 DEF PSType, Plain
    <3> HIDE DEF u
    <3> QED
      BY <2>3, <3>1, <3>2, <3>5 DEF PSType, Plain, Answers
  <2> QED
    BY <2>1, <2>2, <2>3
<1> HIDE DEF s
<1>6. s \in PSType
  BY <1>3 DEF MembersInv
<1>7. TurnedFrom(s)
  BY <1>1, <1>2, <1>5, <1>6, PlainOpportunity DEF OffersReliable
<1>8. Moved(s.m_SSeqOutgoing, s.m_RSeqIncoming, s.m_WaitQueueReliable, s.m_SendBuffer)
  BY <1>1, <1>2, <1>3, OpportunitySeen
<1> QED
  BY <1>3, <1>5, <1>7, <1>8 DEF TurnedFrom
=============================================================================
