---------------------- MODULE StationWithoutRNR_proofs ----------------------
(***************************************************************************)
(* What the HDLC station guarantees to a device that never sends RNR: an   *)
(* I-frame that is waited for will be sent again, and a received I-frame   *)
(* is acknowledged at the next opportunity.  With RNR neither holds, for   *)
(* the RNR condition takes m_Timer and the next RR for itself; the         *)
(* hypothesis NoRNR is where the code needs it.                            *)
(*                                                                         *)
(* Both properties are inductive relative to the invariant of the station  *)
(* only together with the fact that m_Timer never is the query timer.      *)
(***************************************************************************)
EXTENDS ProtocolState_proofs

NoRNR == \A frame \in ReceivedFrames: frame.type # "RNR"

\* The members while the device never stopped the flow.
Unstopped(s) ==
  /\ ~s.m_bPeerStoppedFlow /\ ~s.m_bPeerStoppedFlowNew
  /\ s.m_Timer \in TimerType({"retransmit"})
  /\ s.m_bWaitForAck => Pending(s.m_Timer, "retransmit")

\* No acknowledgement is owed on a free line.
Acknowledged(s, alive) ==
  s.m_bStarted /\ s.m_bAwaitsNextHDLCFrame /\ alive => ~s.m_bPeerRequiresAck

UInv == IInv /\ Unstopped(ps) /\ Acknowledged(ps, Alive!IsAlive)

\* What Unstopped looks at.
SameWait(s, t) ==
  /\ t.m_bPeerStoppedFlow = s.m_bPeerStoppedFlow
  /\ t.m_bPeerStoppedFlowNew = s.m_bPeerStoppedFlowNew
  /\ t.m_Timer = s.m_Timer
  /\ t.m_bWaitForAck = s.m_bWaitForAck

(* An update of the other members does not stop the flow.                  *)
LEMMA SameWaitFacts ==
  ASSUME NEW s, NEW t, Unstopped(s), SameWait(s, t)
  PROVE  Unstopped(t)
  BY DEF Unstopped, SameWait

(* The operations on m_Timer while only retransmissions are awaited.       *)
LEMMA RetransmissionTimer ==
  ASSUME NEW timer \in TimerType({"retransmit"})
  PROVE  /\ AsyncWait(timer, "retransmit") \in TimerType({"retransmit"})
         /\ Pending(AsyncWait(timer, "retransmit"), "retransmit")
         /\ Cancel(timer) \in TimerType({"retransmit"})
         /\ Dispatch(timer) \in TimerType({"retransmit"})
         /\ CanExpire(timer) =>
              Expire(timer) \in TimerType({"retransmit"}) /\ Pending(Expire(timer), "retransmit")
  BY DEF TimerType, AsyncWait, Cancel, Dispatch, Expire, CanExpire, Pending, Off

-----------------------------------------------------------------------------
(* Transmissions.                                                          *)

(* A frame is handed over: the line is not free any more.                  *)
LEMMA TransmitKeeps ==
  ASSUME NEW s \in PSType, Unstopped(s), NEW frame, Transmit(s, frame)
  PROVE  Unstopped(ps') /\ ~ps'.m_bAwaitsNextHDLCFrame
<1>1. SameWait(s, ps') /\ ~ps'.m_bAwaitsNextHDLCFrame
  BY DEF Transmit, PSType, SameWait
<1> QED
  BY <1>1, SameWaitFacts

(* Every frame that is due leaves the flow unstopped, and an I-frame its   *)
(* retransmission timer running.                                           *)
LEMMA TransmitDueKeeps ==
  ASSUME NEW s \in PSType, Unstopped(s), TransmitDue(s)
  PROVE  Unstopped(ps') /\ ~ps'.m_bAwaitsNextHDLCFrame
<1>1. CASE SendProbe(s)
  <2> DEFINE t == [s EXCEPT !.m_bSendProbe = FALSE]
  <2>1. t \in PSType /\ SameWait(s, t)
    BY DEF PSType, SameWait
  <2> QED
    BY <1>1, <2>1, SameWaitFacts, TransmitKeeps DEF SendProbe
<1>2. CASE SREJDue(s) /\ SendSREJ(s)
  <2> DEFINE t == [s EXCEPT !.m_SREJs = Tail(@)]
  <2>1. Tail(s.m_SREJs) \in Seq(Nat)
    BY <1>2 DEF SREJDue, PSType
  <2>2. t \in PSType /\ SameWait(s, t)
    BY <2>1 DEF PSType, SameWait
  <2> QED
    BY <1>2, <2>2, SameWaitFacts, TransmitKeeps DEF SendSREJ
<1>3. CASE SendIFrame(s)
  <2> DEFINE timer == AsyncWait(s.m_Timer, "retransmit")
             t == [s EXCEPT !.m_bWaitForAck = TRUE, !.m_bPeerRequiresAck = FALSE, !.m_Timer = timer]
  <2>1. timer \in TimerType({"retransmit"}) /\ timer \in TimerType(Waits) /\ Pending(timer, "retransmit")
    BY RetransmissionTimer, TimerFacts DEF Unstopped, PSType, Waits
  <2> HIDE DEF timer
  <2>2. t \in PSType /\ Unstopped(t)
    BY <2>1 DEF PSType, Unstopped
  <2>3. Transmit(t, PrepareIFrame(s))
    BY <1>3 DEF SendIFrame, timer
  <2> QED
    BY <2>2, <2>3, TransmitKeeps
<1>4. CASE SendRR(s)
  <2> DEFINE t == [s EXCEPT !.m_bPeerRequiresAck = FALSE]
  <2>1. Transmit(t, PrepareSFrameRR(s, FALSE))
    BY <1>4 DEF SendRR, Unstopped
  <2>2. t \in PSType /\ SameWait(s, t)
    BY DEF PSType, SameWait
  <2> QED
    BY <2>1, <2>2, SameWaitFacts, TransmitKeeps
<1>5. CASE UIDue(s) /\ SendUI(StartQueryTimer(s))
  <2> DEFINE t == [s EXCEPT !.m_WaitQueueUnreliable = Tail(@)]
  <2>1. StartQueryTimer(s) = s
    BY DEF StartQueryTimer, Unstopped
  <2>2. Tail(s.m_WaitQueueUnreliable) \in Seq(Payload)
    BY <1>5 DEF UIDue, PSType
  <2>3. t \in PSType /\ SameWait(s, t)
    BY <2>2 DEF PSType, SameWait
  <2> QED
    BY <1>5, <2>1, <2>3, SameWaitFacts, TransmitKeeps DEF SendUI
<1> QED
  BY <1>1, <1>2, <1>3, <1>4, <1>5 DEF TransmitDue

(* An opportunity for transmission sends the RR that is owed, or another   *)
(* frame instead.                                                          *)
LEMMA OpportunityKeeps ==
  ASSUME NEW s, MembersInv(s), Unstopped(s), offers \subseteq DataPacket, OpportunityForTransmission(s)
  PROVE  Unstopped(ps') /\ Acknowledged(ps', (Alive!IsAlive)')
<1>0. s \in PSType /\ StartQueryTimer(s) = s
  BY DEF MembersInv, StartQueryTimer, Unstopped
<1>1. ASSUME NEW t \in PSType, Unstopped(t), TransmitDue(t)
      PROVE  Unstopped(ps') /\ Acknowledged(ps', (Alive!IsAlive)')
  BY <1>1, TransmitDueKeeps DEF Acknowledged
<1>2. CASE ~s.m_bAwaitsNextHDLCFrame /\ ps' = s
  BY <1>2 DEF Acknowledged
<1>3. CASE TransmitDue(s)
  BY <1>0, <1>1, <1>3
<1>4. CASE ~(Alive!IsAlive)' /\ ps' = s
  BY <1>4 DEF Acknowledged
<1>5. CASE /\ NothingDue(s)
           /\ \/ ps' = s
              \/ \E packet \in offers: TransmitDue(Enqueue(s, packet))
  <2>1. CASE ps' = s
    BY <1>5, <2>1 DEF NothingDue, RRDue, Acknowledged, Unstopped
  <2>2. ASSUME NEW packet \in offers, TransmitDue(Enqueue(s, packet))
        PROVE  Unstopped(ps') /\ Acknowledged(ps', (Alive!IsAlive)')
    <3>1. Enqueue(s, packet) \in PSType
      BY <2>2, EnqueueFacts DEF MembersInv
    <3>2. SameWait(s, Enqueue(s, packet))
      BY <1>0 DEF Enqueue, PSType, SameWait
    <3> QED
      BY <1>1, <2>2, <3>1, <3>2, SameWaitFacts
  <2> QED
    BY <1>5, <2>1, <2>2
<1>6. CASE /\ NothingDue(s)
           /\ LET t == StartQueryTimer(s)
                  idle == t.m_WaitQueueReliable = <<>>
              IN IF idle \/ t.m_bPeerStoppedFlow
                 THEN QueryForPayload(t, idle /\ ~t.m_bPeerStoppedFlow, TRUE)
                 ELSE ps' = t
  <2>1. \/ ps' = s
        \/ \E packet \in offers: TransmitDue(Enqueue(s, packet))
    BY <1>0, <1>6 DEF QueryForPayload
  <2> QED
    BY <1>5, <1>6, <2>1
<1> QED
  BY <1>2, <1>3, <1>4, <1>6 DEF OpportunityForTransmission

-----------------------------------------------------------------------------
(* Received frames.                                                        *)

(* A station that stops waiting stops its timer.                           *)
LEMMA StopWaitingKeeps ==
  ASSUME NEW s \in PSType, Unstopped(s)
  PROVE  StopWaiting(s) \in PSType /\ Unstopped(StopWaiting(s))
<1> DEFINE timer == Cancel(s.m_Timer)
<1>1. timer \in TimerType({"retransmit"}) /\ timer \in TimerType(Waits)
  BY RetransmissionTimer, TimerFacts DEF Unstopped, PSType
<1>2. StopWaiting(s) = [s EXCEPT !.m_bWaitForAck = FALSE, !.m_Timer = timer]
  BY DEF StopWaiting
<1> HIDE DEF timer
<1> QED
  BY <1>1, <1>2 DEF PSType, Unstopped

(* No frame but RNR stops the flow.                                        *)
LEMMA AcknowledgementKeeps ==
  ASSUME NEW s, MembersInv(s), Unstopped(s), NEW frame \in Frame, frame.type # "RNR"
  PROVE  Unstopped(Acknowledgement(s, frame))
<1>0. /\ s \in PSType /\ RestartFlow(s) = s
      /\ frame.nr \in SeqNumbers /\ Pred(frame.nr) \in SeqNumbers
  BY SeqNumberFacts DEF MembersInv, RestartFlow, Unstopped, Frame
<1> DEFINE w == StopWaiting(s)
<1>1. w \in PSType /\ Unstopped(w)
  BY <1>0, StopWaitingKeeps
<1>2. ASSUME NEW t \in PSType, Unstopped(t), NEW n
      PROVE  Unstopped([t EXCEPT !.m_SSeqOutgoing = n])
  <2>1. SameWait(t, [t EXCEPT !.m_SSeqOutgoing = n])
    BY DEF PSType, SameWait
  <2> QED
    BY <1>2, <2>1, SameWaitFacts
<1>3. Unstopped(OnIOrRR(s, frame))
  <2>1. WeakInv(s) /\ (s.m_bWaitForAck => ~s.m_bPeerStoppedFlow)
    BY DEF MembersInv, WeakInv, NotWaitedFor
  <2>2. PopAcknowledged(s, frame) \in PSType
    BY <2>1, PopAcknowledgedFacts DEF WeakInv
  <2>3. Unstopped(PopAcknowledged(s, frame))
    <3>1. SameWait(w, [w EXCEPT !.m_WaitQueueReliable = Tail(@)])
      BY <1>1 DEF PSType, SameWait
    <3> QED
      BY <1>1, <3>1, SameWaitFacts DEF PopAcknowledged
  <2>4. OnIOrRR(s, frame) = [PopAcknowledged(s, frame) EXCEPT !.m_SSeqOutgoing = frame.nr]
    BY <1>0 DEF OnIOrRR
  <2> QED
    BY <1>2, <2>2, <2>3, <2>4
<1>4. Unstopped(OnREJ(s, frame))
  <2>1. OnREJ(s, frame) = [(IF frame.nr = s.m_SSeqOutgoing THEN w ELSE s)
                             EXCEPT !.m_SSeqOutgoing = Pred(frame.nr)]
    BY <1>0 DEF OnREJ
  <2> HIDE DEF w
  <2> QED
    BY <1>0, <1>1, <1>2, <2>1
<1>5. Unstopped(OnSREJ(s, frame))
  BY <1>0, <1>1 DEF OnSREJ
<1> QED
  BY <1>3, <1>4, <1>5 DEF Acknowledgement

(* Neither does the payload of an I-frame.                                 *)
LEMMA AcceptPayloadKeeps ==
  ASSUME NEW s \in PSType, Unstopped(s), NEW frame \in Frame
  PROVE  Unstopped(AcceptPayload(s, frame))
<1>1. SameWait(s, AcceptPayload(s, frame))
  BY DEF AcceptPayload, PSType, SameWait
<1> QED
  BY <1>1, SameWaitFacts

-----------------------------------------------------------------------------
(* The handlers.                                                           *)

\* What every handler finds.
Usual == UInv /\ Found /\ Unstopped(ps) /\ offers \subseteq DataPacket

(* What the handlers find of the invariant.                                *)
LEMMA UsualFacts == UInv => Usual
  BY FoundFacts DEF UInv, Usual, IInv, TypeOK

(* A packet of a client, with the transmission it may cause.               *)
LEMMA SendPayloadKeeps ==
  ASSUME UInv, NEW packet \in offers, SendPayload(packet)
  PROVE  Unstopped(ps') /\ Acknowledged(ps', (Alive!IsAlive)')
<1>1. Usual
  BY UsualFacts
<1>2. packet \in DataPacket /\ ps \in PSType
  BY <1>1 DEF Usual, Found
<1>3. MembersInv(Enqueue(ps, packet))
  BY <1>1, <1>2, EnqueueFacts DEF Usual, Found
<1>4. SameWait(ps, Enqueue(ps, packet))
  BY <1>2 DEF Enqueue, PSType, SameWait
<1>5. Unstopped(Enqueue(ps, packet))
  BY <1>1, <1>4, SameWaitFacts DEF Usual
<1> QED
  BY <1>1, <1>3, <1>5, OpportunityKeeps DEF SendPayload, Usual

(* A received frame: the RR it asks for is sent or owed by a busy line.    *)
LEMMA FrameKeeps ==
  ASSUME UInv, NEW frame \in Frame, frame.type # "RNR", InterpretDeserializedFrame(frame)
  PROVE  Unstopped(ps') /\ Acknowledged(ps', (Alive!IsAlive)')
<1> DEFINE t == AcceptPayload(ps, frame)
           s == Acknowledgement(t, frame)
<1>1. Usual
  BY UsualFacts
<1>2. MembersInv(t) /\ Unstopped(t)
  BY <1>1, AcceptPayloadFacts, AcceptPayloadKeeps DEF Usual, Found
<1>3. OpportunityForTransmission(s)
  BY DEF InterpretDeserializedFrame
<1> HIDE DEF t
<1>4. MembersInv(s) /\ Unstopped(s)
  BY <1>2, AcknowledgementFacts, AcknowledgementKeeps
<1> HIDE DEF s
<1> QED
  BY <1>1, <1>3, <1>4, OpportunityKeeps DEF Usual

(* The end of a write is the next opportunity.                             *)
LEMMA TriggerKeeps ==
  ASSUME UInv, TriggerNextHDLCFrame
  PROVE  Unstopped(ps') /\ Acknowledged(ps', (Alive!IsAlive)')
<1> DEFINE s == Written(ps)
<1>1. Usual /\ ps \in PSType /\ MembersInv(ps)
  BY UsualFacts DEF Usual, Found
<1>2. OpportunityForTransmission(s) /\ MembersInv(s)
  BY <1>1, WrittenFacts DEF TriggerNextHDLCFrame
<1>3. SameWait(ps, s)
  BY <1>1 DEF Written, PSType, SameWait
<1> HIDE DEF s
<1>4. Unstopped(s)
  BY <1>1, <1>3, SameWaitFacts DEF Usual
<1> QED
  BY <1>1, <1>2, <1>4, OpportunityKeeps DEF Usual

(* So is the end of an earlier write that misleads the station.            *)
LEMMA LateKeeps ==
  ASSUME UInv, LateCompletion
  PROVE  Unstopped(ps') /\ Acknowledged(ps', (Alive!IsAlive)')
<1> DEFINE s == [ps EXCEPT !.m_bAwaitsNextHDLCFrame = TRUE]
           w == [ps EXCEPT !.writes = @ + 1]
<1>1. Usual /\ ps \in PSType /\ MembersInv(ps)
  BY UsualFacts DEF Usual, Found
<1>2. (Alive!IsAlive)' <=> Alive!IsAlive
  BY <1>1, AliveUnchanged DEF LateCompletion, Usual, Found
<1>3. CASE ps' = ps
  BY <1>1, <1>2, <1>3 DEF UInv, Acknowledged
<1>4. CASE OpportunityForTransmission(s)
  <2>1. SameWait(ps, s) /\ MembersInv(s)
    BY <1>1, ReadyFacts DEF PSType, SameWait
  <2> HIDE DEF s
  <2> QED
    BY <1>1, <1>4, <2>1, SameWaitFacts, OpportunityKeeps DEF Usual
<1>5. CASE ps' = w
  <2>1. /\ SameWait(ps, w)
        /\ w.m_bStarted = ps.m_bStarted
        /\ w.m_bAwaitsNextHDLCFrame = ps.m_bAwaitsNextHDLCFrame
        /\ w.m_bPeerRequiresAck = ps.m_bPeerRequiresAck
    BY <1>1 DEF PSType, SameWait
  <2> HIDE DEF w
  <2> QED
    BY <1>1, <1>2, <1>5, <2>1, SameWaitFacts DEF Usual, UInv, Acknowledged
<1> QED
  BY <1>3, <1>4, <1>5 DEF LateCompletion

(* A retransmission timeout ends the wait it belongs to.                   *)
LEMMA RetransmissionKeeps ==
  ASSUME UInv, OnRetransmissionTimeout
  PROVE  Unstopped(ps') /\ Acknowledged(ps', (Alive!IsAlive)')
<1> DEFINE timer == Dispatch(ps.m_Timer)
           s == [ps EXCEPT !.m_Timer = timer, !.m_bWaitForAck = FALSE]
<1>1. Usual /\ ps \in PSType /\ MembersInv(ps)
  BY UsualFacts DEF Usual, Found
<1>2. timer \in TimerType({"retransmit"}) /\ timer \in TimerType(Waits)
  BY <1>1, RetransmissionTimer, TimerFacts DEF Usual, Unstopped, PSType
<1>3. OpportunityForTransmission(s)
  BY DEF OnRetransmissionTimeout
<1> HIDE DEF timer
<1>4. s \in PSType
  BY <1>1, <1>2 DEF PSType
<1>5. Kept(ps, s) /\ ~s.m_bWaitForAck /\ s.m_Timer = timer
  /\ s.m_bPeerStoppedFlow = ps.m_bPeerStoppedFlow
  /\ s.m_bPeerStoppedFlowNew = ps.m_bPeerStoppedFlowNew
  BY <1>1 DEF PSType, Kept
<1> HIDE DEF s
<1>6. Unstopped(s)
  BY <1>1, <1>2, <1>5 DEF Usual, Unstopped
<1>7. MembersInv(s)
  BY <1>1, <1>4, <1>5, <1>6 DEF Unstopped, Kept, MembersInv, Waiting, NotWaitedFor, OneFrame, Polled
<1> QED
  BY <1>1, <1>3, <1>6, <1>7, OpportunityKeeps DEF Usual

(* A probe is noted, and sent if the station still has its port.           *)
LEMMA ProbeKeeps ==
  ASSUME UInv, OnProbeTimeout
  PROVE  Unstopped(ps') /\ Acknowledged(ps', (Alive!IsAlive)')
<1> DEFINE s == [ps EXCEPT !.m_bSendProbe = TRUE]
<1>1. Usual /\ ps \in PSType /\ MembersInv(ps)
  BY UsualFacts DEF Usual, Found
<1>2. (Alive!IsAlive)' => Alive!IsAlive
  BY <1>1, AliveTimerStepFacts DEF OnProbeTimeout, AliveTimerStep, Usual, Found
<1>3. \/ ps' = ps
      \/ ps.m_SerialPortHandler /\ OpportunityForTransmission(s)
      \/ ~ps.m_SerialPortHandler /\ ps' = s
  BY DEF OnProbeTimeout
<1>4. s \in PSType
  BY <1>1 DEF PSType
<1>5. Kept(ps, s) /\ SameWait(ps, s) /\ MembersInv(s)
  BY <1>1, <1>4 DEF PSType, Kept, SameWait, MembersInv, Waiting, NotWaitedFor, OneFrame, Polled
<1> HIDE DEF s
<1>6. Unstopped(s)
  BY <1>1, <1>5, SameWaitFacts DEF Usual
<1>7. CASE ps' = ps
  BY <1>1, <1>2, <1>7 DEF UInv, Usual, Acknowledged
<1>8. CASE OpportunityForTransmission(s)
  BY <1>1, <1>5, <1>6, <1>8, OpportunityKeeps DEF Usual
<1>9. CASE ~ps.m_SerialPortHandler /\ ps' = s
  <2>1. ~s.m_bStarted
    BY <1>5, <1>9 DEF UInv, IInv, DetachedIsStopped, Kept
  <2> QED
    BY <1>6, <1>9, <2>1 DEF Acknowledged
<1> QED
  BY <1>3, <1>7, <1>8, <1>9

(* A station that is reset waits for nothing.                              *)
LEMMA ResetKeeps ==
  ASSUME NEW s \in PSType, Unstopped(s)
  PROVE  /\ ResetMembers(s) \in PSType
         /\ Unstopped(ResetMembers(s))
         /\ ~ResetMembers(s).m_bStarted
<1> DEFINE timer == Cancel(s.m_Timer)
<1>1. timer \in TimerType({"retransmit"})
  BY RetransmissionTimer DEF Unstopped
<1>2. ResetMembers(s).m_Timer = timer
  BY DEF ResetMembers, PSType
<1>3. /\ ~ResetMembers(s).m_bPeerStoppedFlow
      /\ ~ResetMembers(s).m_bPeerStoppedFlowNew
      /\ ~ResetMembers(s).m_bWaitForAck
  BY DEF ResetMembers, PSType
<1> HIDE DEF timer
<1> QED
  BY <1>1, <1>2, <1>3, ResetMembersFacts DEF Unstopped

(* The station is started again, or stopped.                               *)
LEMMA StartStopKeeps ==
  ASSUME UInv, ~TransmittedWhileStopped, Start \/ Stop \/ Shutdown
  PROVE  Unstopped(ps') /\ Acknowledged(ps', (Alive!IsAlive)')
<1> DEFINE r == ResetMembers(ps)
           s == [r EXCEPT !.m_bStarted = TRUE, !.m_bSendProbe = TRUE]
           e == GivenUp(r)
           d == [e EXCEPT !.m_SerialPortHandler = FALSE]
<1>1. Usual /\ ps \in PSType /\ MembersInv(ps)
  BY UsualFacts DEF Usual, Found
<1>2. /\ r \in PSType /\ Unstopped(r) /\ ~r.m_bStarted
      /\ r.m_bAwaitsNextHDLCFrame
      /\ r.m_SendBuffer = ps.m_SendBuffer /\ r.writes = ps.writes
  BY <1>1, ResetKeeps, ResetMembersFacts DEF Usual
<1>3. CASE Start
  <2>1. OpportunityForTransmission(s) /\ IsEmpty(ps.m_SendBuffer) /\ ps.writes = 0
    BY <1>1, <1>3 DEF Start, TransmittedWhileStopped, MembersInv, OneFrame
  <2> HIDE DEF r
  <2>2. /\ s \in PSType /\ SameWait(r, s) /\ s.m_bAwaitsNextHDLCFrame
        /\ s.m_SendBuffer = r.m_SendBuffer /\ s.writes = r.writes
    BY <1>2 DEF PSType, SameWait
  <2> HIDE DEF s
  <2>3. Unstopped(s)
    BY <1>2, <2>2, SameWaitFacts
  <2>4. Waiting(s) /\ NotWaitedFor(s) /\ OneFrame(s) /\ Polled(s)
    <3>1. ~s.m_bWaitForAck
      BY <1>1, <2>2 DEF SameWait, ResetMembers, PSType, r
    <3> QED
      BY <1>2, <2>1, <2>2, <2>3, <3>1 DEF Unstopped, Waiting, NotWaitedFor, OneFrame, Polled
  <2> QED
    BY <1>1, <2>1, <2>2, <2>3, <2>4, OpportunityKeeps DEF Usual, MembersInv
<1>4. CASE Stop
  <2>1. ps' = e
    BY <1>4 DEF Stop
  <2> HIDE DEF r
  <2>2. SameWait(r, e) /\ ~e.m_bStarted
    BY <1>2 DEF GivenUp, PSType, SameWait
  <2> HIDE DEF e
  <2> QED
    BY <1>2, <2>1, <2>2, SameWaitFacts DEF Acknowledged
<1>5. CASE Shutdown /\ ps.m_bStarted
  <2>1. ps' = d
    BY <1>5 DEF Shutdown
  <2> HIDE DEF r
  <2>2. SameWait(r, d) /\ ~d.m_bStarted
    BY <1>2 DEF GivenUp, PSType, SameWait
  <2> HIDE DEF d
  <2> QED
    BY <1>2, <2>1, <2>2, SameWaitFacts DEF Acknowledged
<1>6. CASE Shutdown /\ ~ps.m_bStarted
  BY <1>1, <1>6 DEF Shutdown, Usual, Acknowledged
<1> QED
  BY <1>3, <1>4, <1>5, <1>6

(* The expiry of a timer, and a state timeout, send nothing.               *)
LEMMA TimersKeep ==
  ASSUME UInv, TimerExpires \/ StateTimerExpires \/ ProbeTimerExpires \/ OnStateTimeout
  PROVE  Unstopped(ps') /\ Acknowledged(ps', (Alive!IsAlive)')
<1>1. Usual /\ ps \in PSType /\ Alive!TypeOK
  BY UsualFacts DEF Usual, Found
<1>2. CASE TimerExpires
  <2> DEFINE timer == Expire(ps.m_Timer)
             t == [ps EXCEPT !.m_Timer = timer]
  <2>1. timer \in TimerType({"retransmit"}) /\ Pending(timer, "retransmit")
    BY <1>1, <1>2, RetransmissionTimer DEF TimerExpires, Usual, Unstopped
  <2>2. ps' = t /\ ((Alive!IsAlive)' <=> Alive!IsAlive)
    BY <1>1, <1>2, AliveUnchanged DEF TimerExpires
  <2> HIDE DEF timer
  <2>3. /\ t.m_Timer = timer
        /\ t.m_bPeerStoppedFlow = ps.m_bPeerStoppedFlow
        /\ t.m_bPeerStoppedFlowNew = ps.m_bPeerStoppedFlowNew
        /\ t.m_bStarted = ps.m_bStarted
        /\ t.m_bAwaitsNextHDLCFrame = ps.m_bAwaitsNextHDLCFrame
        /\ t.m_bPeerRequiresAck = ps.m_bPeerRequiresAck
    BY <1>1 DEF PSType
  <2> HIDE DEF t
  <2>4. Unstopped(t)
    BY <1>1, <2>1, <2>3 DEF Usual, Unstopped
  <2>5. Acknowledged(t, (Alive!IsAlive)')
    BY <2>2, <2>3 DEF UInv, Acknowledged
  <2> QED
    BY <2>2, <2>4, <2>5
<1>3. CASE StateTimerExpires \/ ProbeTimerExpires \/ OnStateTimeout
  <2>1. AliveTimerStep /\ ps' = ps
    BY <1>3 DEF StateTimerExpires, ProbeTimerExpires, OnStateTimeout, AliveTimerStep
  <2>2. (Alive!IsAlive)' => Alive!IsAlive
    BY <1>1, <2>1, AliveTimerStepFacts
  <2> QED
    BY <1>1, <2>1, <2>2 DEF UInv, Usual, Acknowledged
<1> QED
  BY <1>2, <1>3

-----------------------------------------------------------------------------
(* The station starts within the invariant.                                *)
LEMMA UInitInv == Init => UInv
<1> SUFFICES ASSUME Init PROVE UInv
  OBVIOUS
<1>1. ps.m_Timer = IdleTimer /\ ~ps.m_bStarted /\ ~ps.m_bWaitForAck
      /\ ~ps.m_bPeerStoppedFlow /\ ~ps.m_bPeerStoppedFlowNew
  BY DEF Init, InitStation
<1>2. IdleTimer \in TimerType({"retransmit"})
  BY DEF IdleTimer, TimerType
<1> QED
  BY <1>1, <1>2, InitInv DEF UInv, Unstopped, Acknowledged

(* With a device that sends no RNR, every step preserves it: a query       *)
(* timeout does not occur.                                                 *)
LEMMA UNextInv == NoRNR /\ UInv /\ [Next]_vars => UInv'
<1> SUFFICES ASSUME NoRNR, UInv, [Next]_vars PROVE UInv'
  OBVIOUS
<1>1. IInv'
  BY NextInv DEF UInv
<1>2. ASSUME Unstopped(ps'), Acknowledged(ps', (Alive!IsAlive)')
      PROVE  UInv'
  BY <1>1, <1>2 DEF UInv, Unstopped, Acknowledged
<1>3. CASE UNCHANGED vars
  <2>1. ps' = ps /\ ((Alive!IsAlive)' <=> Alive!IsAlive)
    BY <1>3, UsualFacts, AliveUnchanged DEF vars, Usual, Found
  <2> QED
    BY <1>2, <2>1 DEF UInv, Acknowledged
<1>4. CASE ~TransmittedWhileStopped /\ Handlers
  <2>1. CASE Start \/ Stop \/ Shutdown
    BY <1>2, <1>4, <2>1, StartStopKeeps
  <2>2. CASE \E packet \in offers: SendPayload(packet)
    BY <1>2, <2>2, SendPayloadKeeps
  <2>3. CASE \E frame \in ReceivedFrames: InterpretDeserializedFrame(frame)
    BY <1>2, <2>3, FrameKeeps, ConstantsAssumption DEF NoRNR
  <2>4. CASE TriggerNextHDLCFrame
    BY <1>2, <2>4, TriggerKeeps
  <2>5. CASE LateCompletion
    BY <1>2, <2>5, LateKeeps
  <2>6. CASE OnRetransmissionTimeout
    BY <1>2, <2>6, RetransmissionKeeps
  <2>7. CASE OnQueryTimeout
    BY <2>7 DEF OnQueryTimeout, UInv, Unstopped, TimerType, Off
  <2>8. CASE TimerExpires \/ StateTimerExpires \/ ProbeTimerExpires \/ OnStateTimeout
    BY <1>2, <2>8, TimersKeep
  <2>9. CASE OnProbeTimeout
    BY <1>2, <2>9, ProbeKeeps
  <2> QED
    BY <1>4, <2>1, <2>2, <2>3, <2>4, <2>5, <2>6, <2>7, <2>8, <2>9 DEF Handlers
<1> QED
  BY <1>3, <1>4 DEF Next

(* The invariant holds throughout.                                         *)
LEMMA UInvariance == NoRNR => (Spec => []UInv)
<1>1. NoRNR => NoRNR'
  BY DEF NoRNR
<1> QED
  BY <1>1, UInitInv, UNextInv, PTL DEF Spec

(* As long as the device sends no RNR, an I-frame that is waited for is    *)
(* sent again: its retransmission timer is running.                        *)
THEOREM RetransmissionWillCome == NoRNR => (Spec => []RetransmissionIsPending)
<1>1. UInv => RetransmissionIsPending
  BY DEF UInv, Unstopped, RetransmissionIsPending
<1> QED
  BY <1>1, UInvariance, PTL

(* As long as the device sends no RNR, an RR that is owed to an alive      *)
(* device is sent as soon as the line is free.                             *)
THEOREM AcknowledgementsAreSent == NoRNR => (Spec => []AcknowledgementIsSent)
<1>1. UInv => AcknowledgementIsSent
  BY DEF UInv, Acknowledged, AcknowledgementIsSent
<1> QED
  BY <1>1, UInvariance, PTL
=============================================================================
