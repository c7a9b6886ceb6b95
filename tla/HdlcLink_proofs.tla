--------------------------- MODULE HdlcLink_proofs ---------------------------
(***************************************************************************)
(* Proofs that the link implements the reliable stream in both directions. *)
(* The lines lose frames, so that the proof is about what the frames on a  *)
(* line may still carry: the payloads are in order, and their numbers are  *)
(* those of the last packet or of the one before, never of both in turns.  *)
(* With slow timers there is one frame of them on the line at a time.      *)
(***************************************************************************)
EXTENDS HdlcLink, SequenceTheorems, TLAPS

\* The proofs about the station, of the station of the link.
S == INSTANCE StationSteps_proofs WITH
  Payload <- 1..(MaxPackets + DevicePackets),
  ReceivedFrames <- {},
  MaxLate <- 0, late <- 0, misled <- ~TRUE,
  offers <- IF submitted < MaxPackets
            THEN {[payload |-> submitted + 1, reliable |-> TRUE]} ELSE {}

(* The constants of the station are those of the link.                     *)
LEMMA StationConstants == S!ConstantsAssumption
  BY ConstantsAssumption DEF S!ConstantsAssumption

-----------------------------------------------------------------------------
(* HdlcLink and StationSteps_proofs each have an instance of the station.  *)
(* Its operators and actions are the same in both.                         *)

(* An opportunity for transmission.                                        *)
LEMMA OpportunityAgrees ==
  ASSUME NEW s, Station!OpportunityForTransmission(s)
  PROVE  S!OpportunityForTransmission(s)
  BY DEF Station!OpportunityForTransmission, S!OpportunityForTransmission,
         Station!TransmitDue, S!TransmitDue, Station!NothingDue, S!NothingDue,
         Station!QueryForPayload, S!QueryForPayload, Station!StartQueryTimer, S!StartQueryTimer,
         Station!Enqueue, S!Enqueue, Station!HasRoom, S!HasRoom,
         Station!ProbeDue, S!ProbeDue, Station!SREJDue, S!SREJDue, Station!IFrameDue, S!IFrameDue,
         Station!RRDue, S!RRDue, Station!UIDue, S!UIDue,
         Station!SendProbe, S!SendProbe, Station!SendSREJ, S!SendSREJ,
         Station!SendIFrame, S!SendIFrame, Station!SendRR, S!SendRR, Station!SendUI, S!SendUI,
         Station!Transmit, S!Transmit, Station!UnsetFrame, S!UnsetFrame,
         Station!PrepareUFrameTEST, S!PrepareUFrameTEST,
         Station!PrepareSFrameSREJ, S!PrepareSFrameSREJ,
         Station!PrepareIFrame, S!PrepareIFrame,
         Station!PrepareSFrameRR, S!PrepareSFrameRR,
         Station!PrepareUFrameUI, S!PrepareUFrameUI,
         Station!AsyncWait, S!AsyncWait, Station!Cancel, S!Cancel, Station!Off, S!Off,
         Station!Alive!IsAlive, S!Alive!IsAlive

(* The reset of the members.                                               *)
LEMMA ResetAgrees ==
  ASSUME NEW s
  PROVE  Station!ResetMembers(s) = S!ResetMembers(s)
  BY DEF Station!ResetMembers, S!ResetMembers, Station!Cancel, S!Cancel, Station!Off, S!Off

(* The port is opened.                                                     *)
LEMMA StartAgrees == Station!Start => S!Start
  BY OpportunityAgrees, ResetAgrees
  DEF Station!Start, S!Start, Station!portVars, S!portVars,
      Station!Alive!Start, S!Alive!Start, Station!Alive!Reset, S!Alive!Reset,
      Station!Alive!AsyncWait, S!Alive!AsyncWait, Station!Alive!Cancel, S!Alive!Cancel,
      Station!Alive!Off, S!Alive!Off

(* The port is closed.                                                     *)
LEMMA StopAgrees == Station!Stop => S!Stop
  BY ResetAgrees
  DEF Station!Stop, S!Stop, Station!GivenUp, S!GivenUp, Station!LeaveWrites, S!LeaveWrites,
      Station!UnsetFrame, S!UnsetFrame,
      Station!Alive!Stop, S!Alive!Stop, Station!Alive!Reset, S!Alive!Reset,
      Station!Alive!Cancel, S!Alive!Cancel, Station!Alive!Off, S!Alive!Off

(* A packet of a client.                                                   *)
LEMMA SendPayloadAgrees ==
  ASSUME NEW packet, Station!SendPayload(packet)
  PROVE  S!SendPayload(packet)
  BY OpportunityAgrees
  DEF Station!SendPayload, S!SendPayload, Station!portVars, S!portVars,
      Station!aliveVars, S!aliveVars, Station!HasRoom, S!HasRoom, Station!Enqueue, S!Enqueue

(* The end of a write.                                                     *)
LEMMA TriggerAgrees == Station!TriggerNextHDLCFrame => S!TriggerNextHDLCFrame
  BY OpportunityAgrees
  DEF Station!TriggerNextHDLCFrame, S!TriggerNextHDLCFrame, Station!portVars, S!portVars,
      Station!aliveVars, S!aliveVars, Station!Written, S!Written, Station!UnsetFrame, S!UnsetFrame

(* What a frame of the device changes.                                     *)
LEMMA AcknowledgementAgrees ==
  ASSUME NEW s, NEW frame
  PROVE  /\ Station!Acknowledgement(s, frame) = S!Acknowledgement(s, frame)
         /\ Station!AcceptPayload(s, frame) = S!AcceptPayload(s, frame)
<1>1. /\ \A t: Station!StopWaiting(t) = S!StopWaiting(t)
      /\ \A t: Station!Acknowledges(frame, t) <=> S!Acknowledges(frame, t)
  BY DEF Station!StopWaiting, S!StopWaiting, Station!Acknowledges, S!Acknowledges,
         Station!Succ, S!Succ, Station!Cancel, S!Cancel, Station!Off, S!Off
<1>2. \A t: /\ Station!RestartFlow(t) = S!RestartFlow(t)
            /\ Station!PopAcknowledged(t, frame) = S!PopAcknowledged(t, frame)
  BY <1>1 DEF Station!RestartFlow, S!RestartFlow, Station!PopAcknowledged, S!PopAcknowledged
<1>3. /\ Station!OnIOrRR(s, frame) = S!OnIOrRR(s, frame)
      /\ Station!OnRNR(s, frame) = S!OnRNR(s, frame)
      /\ Station!OnREJ(s, frame) = S!OnREJ(s, frame)
      /\ Station!OnSREJ(s, frame) = S!OnSREJ(s, frame)
  BY <1>1, <1>2
  DEF Station!OnIOrRR, S!OnIOrRR, Station!OnRNR, S!OnRNR, Station!OnREJ, S!OnREJ,
      Station!OnSREJ, S!OnSREJ, Station!Pred, S!Pred
<1> QED
  BY <1>3
  DEF Station!Acknowledgement, S!Acknowledgement, Station!AcceptPayload, S!AcceptPayload,
      Station!Skipped, S!Skipped, Station!Succ, S!Succ

(* A frame of the device.                                                  *)
LEMMA FrameAgrees ==
  ASSUME NEW frame, Station!InterpretDeserializedFrame(frame)
  PROVE  S!InterpretDeserializedFrame(frame)
  BY OpportunityAgrees, AcknowledgementAgrees
  DEF Station!InterpretDeserializedFrame, S!InterpretDeserializedFrame,
      Station!portVars, S!portVars, Station!Alive!OnFrameReceived, S!Alive!OnFrameReceived

(* The timer of the station.                                               *)
LEMMA TimersAgree ==
  /\ Station!TimerExpires => S!TimerExpires
  /\ Station!OnRetransmissionTimeout => S!OnRetransmissionTimeout
  /\ Station!OnQueryTimeout => S!OnQueryTimeout
<1>1. Station!TimerExpires => S!TimerExpires
  BY DEF Station!TimerExpires, S!TimerExpires, Station!portVars, S!portVars,
         Station!aliveVars, S!aliveVars, Station!CanExpire, S!CanExpire,
         Station!Expire, S!Expire, Station!Off, S!Off
<1>2. Station!OnRetransmissionTimeout => S!OnRetransmissionTimeout
  BY OpportunityAgrees
  DEF Station!OnRetransmissionTimeout, S!OnRetransmissionTimeout, Station!portVars, S!portVars,
      Station!aliveVars, S!aliveVars, Station!Dispatch, S!Dispatch, Station!Off, S!Off
<1>3. Station!OnQueryTimeout => S!OnQueryTimeout
  BY OpportunityAgrees
  DEF Station!OnQueryTimeout, S!OnQueryTimeout, Station!portVars, S!portVars,
      Station!aliveVars, S!aliveVars, Station!Dispatch, S!Dispatch, Station!Off, S!Off
<1> QED
  BY <1>1, <1>2, <1>3

(* The two alive timers.                                                   *)
LEMMA AliveTimersAgree ==
  /\ Station!StateTimerExpires => S!StateTimerExpires
  /\ Station!ProbeTimerExpires => S!ProbeTimerExpires
  /\ Station!OnStateTimeout => S!OnStateTimeout
  /\ Station!OnProbeTimeout => S!OnProbeTimeout
<1>1. /\ \A t, w: Station!Alive!AsyncWait(t, w) = S!Alive!AsyncWait(t, w)
      /\ \A t: Station!Alive!Dispatch(t) = S!Alive!Dispatch(t)
      /\ \A t: Station!Alive!Expire(t) = S!Alive!Expire(t)
      /\ \A t: Station!Alive!CanExpire(t) <=> S!Alive!CanExpire(t)
  BY DEF Station!Alive!AsyncWait, S!Alive!AsyncWait, Station!Alive!Dispatch, S!Alive!Dispatch,
         Station!Alive!Expire, S!Alive!Expire, Station!Alive!CanExpire, S!Alive!CanExpire,
         Station!Alive!Off, S!Alive!Off
<1>2. /\ Station!StateTimerExpires => S!StateTimerExpires
      /\ Station!ProbeTimerExpires => S!ProbeTimerExpires
  BY <1>1 DEF Station!StateTimerExpires, S!StateTimerExpires,
      Station!ProbeTimerExpires, S!ProbeTimerExpires,
      Station!Alive!StateTimerExpires, S!Alive!StateTimerExpires,
      Station!Alive!ProbeTimerExpires, S!Alive!ProbeTimerExpires,
      Station!portVars, S!portVars
<1>3. Station!OnStateTimeout => S!OnStateTimeout
  BY <1>1 DEF Station!OnStateTimeout, S!OnStateTimeout, Station!Alive!OnStateTimeout,
      S!Alive!OnStateTimeout, Station!Alive!MustNotHappen, S!Alive!MustNotHappen,
      Station!portVars, S!portVars
<1>4. Station!Alive!OnProbeTimeout => S!Alive!OnProbeTimeout
  BY <1>1 DEF Station!Alive!OnProbeTimeout, S!Alive!OnProbeTimeout,
      Station!Alive!ChangesBaudrate, S!Alive!ChangesBaudrate,
      Station!Alive!SendsProbe, S!Alive!SendsProbe
<1>5. /\ Station!Alive!ChangesBaudrate <=> S!Alive!ChangesBaudrate
      /\ Station!Alive!SendsProbe <=> S!Alive!SendsProbe
      /\ Station!ToggleBaudRate(m_CurrentBaudrateIndex) = S!ToggleBaudRate(m_CurrentBaudrateIndex)
  BY DEF Station!Alive!ChangesBaudrate, S!Alive!ChangesBaudrate, Station!Alive!SendsProbe,
         S!Alive!SendsProbe, Station!ToggleBaudRate, S!ToggleBaudRate
<1>6. Station!OnProbeTimeout => S!OnProbeTimeout
  BY <1>4, <1>5, OpportunityAgrees DEF Station!OnProbeTimeout, S!OnProbeTimeout
<1> QED
  BY <1>2, <1>3, <1>6

(* The initial states, the types and the guard of every step.              *)
LEMMA StatesAgree ==
  /\ Station!InitStation => S!InitStation
  /\ S!TypeOK => Station!TypeOK
  /\ S!TransmittedWhileStopped => Station!TransmittedWhileStopped
  /\ Station!Frame = S!Frame
  /\ Station!UnsetFrame = S!UnsetFrame
  BY DEF Station!InitStation, S!InitStation, Station!Alive!Init, S!Alive!Init,
         Station!IdleTimer, S!IdleTimer, Station!Alive!IdleTimer, S!Alive!IdleTimer,
         Station!Off, S!Off, Station!Alive!Off, S!Alive!Off,
         Station!UnsetFrame, S!UnsetFrame, Station!IsEmpty, S!IsEmpty,
         Station!TransmittedWhileStopped, S!TransmittedWhileStopped,
         Station!TypeOK, S!TypeOK, Station!PSType, S!PSType, Station!Waits, S!Waits,
         Station!TimerType, S!TimerType, Station!Alive!TimerType, S!Alive!TimerType,
         Station!Alive!TypeOK, S!Alive!TypeOK, Station!Alive!AliveStates, S!Alive!AliveStates,
         Station!Frame, S!Frame, Station!FrameTypes, S!FrameTypes,
         Station!SeqNumbers, S!SeqNumbers, Station!DataPacket, S!DataPacket,
         Station!BaudRateIndices, S!BaudRateIndices

-----------------------------------------------------------------------------
(* Sequence numbers.                                                       *)

SeqNumbers == 0..(SeqModulus - 1)
Succ(n) == (n + 1) % SeqModulus
Pred(n) == (n + SeqModulus - 1) % SeqModulus

(* A number differs from its neighbours, and they are each other's.        *)
LEMMA NumberFacts ==
  /\ \A n \in SeqNumbers: /\ Succ(n) \in SeqNumbers /\ Succ(n) # n
                          /\ Pred(n) \in SeqNumbers /\ Pred(n) # n
                          /\ Pred(Succ(n)) = n /\ Succ(Pred(n)) = n
  /\ \A n \in Nat: n % SeqModulus \in SeqNumbers
  /\ 0 \in SeqNumbers /\ 0 % SeqModulus = 0
<1>0. SeqModulus \in Nat /\ SeqModulus > 1
  BY ConstantsAssumption
<1>1. ASSUME NEW n \in SeqNumbers
      PROVE  /\ Succ(n) = IF n = SeqModulus - 1 THEN 0 ELSE n + 1
             /\ Pred(n) = IF n = 0 THEN SeqModulus - 1 ELSE n - 1
  BY <1>0 DEF SeqNumbers, Succ, Pred
<1>2. ASSUME NEW n \in SeqNumbers
      PROVE  Succ(n) \in SeqNumbers /\ Pred(n) \in SeqNumbers
  BY <1>0, <1>1 DEF SeqNumbers
<1>3. ASSUME NEW n \in SeqNumbers
      PROVE  Succ(n) # n /\ Pred(n) # n /\ Pred(Succ(n)) = n /\ Succ(Pred(n)) = n
  BY <1>0, <1>1, <1>2 DEF SeqNumbers
<1>4. \A n \in Nat: n % SeqModulus \in SeqNumbers
  BY <1>0 DEF SeqNumbers
<1>5. 0 \in SeqNumbers /\ 0 % SeqModulus = 0
  BY <1>0 DEF SeqNumbers
<1> QED
  BY <1>2, <1>3, <1>4, <1>5

(* The number of the next packet is the next number.                       *)
LEMMA NextNumber == \A n \in Nat: (n + 1) % SeqModulus = Succ(n % SeqModulus)
<1> SUFFICES ASSUME NEW n \in Nat PROVE (n + 1) % SeqModulus = Succ(n % SeqModulus)
  OBVIOUS
<1>0. SeqModulus \in Nat /\ SeqModulus > 1
  BY ConstantsAssumption
<1> DEFINE q == n \div SeqModulus
           r == n % SeqModulus
<1>1. q \in Nat /\ r \in 0..(SeqModulus - 1) /\ n = SeqModulus * q + r
  BY <1>0
<1> HIDE DEF q, r
<1>2. CASE r = SeqModulus - 1
  <2>1. n + 1 = SeqModulus * (q + 1) /\ r + 1 = SeqModulus
    BY <1>0, <1>1, <1>2
  <2>2. (n + 1) % SeqModulus = 0 /\ SeqModulus % SeqModulus = 0
    BY <1>0, <1>1, <2>1
  <2> QED
    BY <2>1, <2>2 DEF Succ, r
<1>3. CASE r # SeqModulus - 1
  <2>1. n + 1 = SeqModulus * q + (r + 1) /\ r + 1 \in 0..(SeqModulus - 1)
    BY <1>0, <1>1, <1>3
  <2>2. (n + 1) % SeqModulus = r + 1 /\ (r + 1) % SeqModulus = r + 1
    BY <1>0, <1>1, <2>1
  <2> QED
    BY <2>1, <2>2 DEF Succ, r
<1> QED
  BY <1>2, <1>3

-----------------------------------------------------------------------------
(* What the frames on a line carry.                                        *)

\* The I-frames carry packets from low to high, no younger one before an
\* older one.
InOrder(line, low, high) ==
  /\ \A i \in DOMAIN line: line[i].type = "I" => line[i].payload \in low..high
  /\ \A i, j \in DOMAIN line:
       i < j /\ line[i].type = "I" /\ line[j].type = "I" => line[i].payload <= line[j].payload

\* The I-frames carry the send number old, and from some frame on the new one.
SendNumbers(line, old, new) ==
  /\ \A i \in DOMAIN line: line[i].type = "I" => line[i].ns \in {old, new}
  /\ \A i, j \in DOMAIN line:
       i < j /\ line[i].type = "I" /\ line[j].type = "I" /\ line[i].ns = new => line[j].ns = new

\* The same of the receive numbers of some types of frames.
ReceiveNumbers(line, types, old, new) ==
  /\ \A i \in DOMAIN line: line[i].type \in types => line[i].nr \in {old, new}
  /\ \A i, j \in DOMAIN line:
       i < j /\ line[i].type \in types /\ line[j].type \in types /\ line[i].nr = new
         => line[j].nr = new

Frame == Station!Frame

(* The head leaves a line.                                                 *)
LEMMA TailFacts ==
  ASSUME NEW line \in Seq(Frame), line # <<>>
  PROVE  /\ Tail(line) \in Seq(Frame) /\ Len(Tail(line)) = Len(line) - 1
         /\ Head(line) = line[1] /\ 1 \in DOMAIN line /\ Head(line) \in Frame
         /\ \A i \in DOMAIN Tail(line): /\ i \in Nat \ {0} /\ i + 1 \in DOMAIN line
                                        /\ Tail(line)[i] = line[i + 1]
  OBVIOUS

(* A frame is written to a line.                                           *)
LEMMA AppendFacts ==
  ASSUME NEW line \in Seq(Frame), NEW frame \in Frame
  PROVE  LET longer == Append(line, frame)
         IN /\ longer \in Seq(Frame) /\ Len(longer) = Len(line) + 1
            /\ DOMAIN line \subseteq Nat /\ Len(line) + 1 \in DOMAIN longer
            /\ longer[Len(line) + 1] = frame
            /\ \A i \in DOMAIN line: i \in DOMAIN longer /\ longer[i] = line[i] /\ i < Len(line) + 1
            /\ \A i \in DOMAIN longer: i \in DOMAIN line \/ i = Len(line) + 1
  OBVIOUS

(* What is left of a line whose first frame was taken or lost, and what    *)
(* was on it before the last frame was written, is in order as well.       *)
LEMMA InOrderFacts ==
  ASSUME NEW line \in Seq(Frame), NEW low \in Nat, NEW high \in Nat
  PROVE  /\ InOrder(line, low, high) /\ line # <<>> => InOrder(Tail(line), low, high)
         /\ InOrder(line, low, high) /\ line # <<>> /\ Head(line).type = "I"
              => /\ Head(line).payload \in low..high
                 /\ InOrder(Tail(line), Head(line).payload, high)
         /\ \A frame \in Frame: InOrder(Append(line, frame), low, high) => InOrder(line, low, high)
         /\ \A top \in Nat: InOrder(line, low, high) /\ high <= top => InOrder(line, low, top)
         /\ \A frame \in Frame, top \in Nat:
              InOrder(line, low, high) /\ high <= top /\ (frame.type = "I" => frame.payload = top /\ low <= top)
                => InOrder(Append(line, frame), low, top)
<1>1. ASSUME InOrder(line, low, high), line # <<>>
      PROVE  /\ InOrder(Tail(line), low, high)
             /\ Head(line).type = "I" => /\ Head(line).payload \in low..high
                                         /\ InOrder(Tail(line), Head(line).payload, high)
  BY <1>1, TailFacts, SMTT(20) DEF InOrder
<1>2. ASSUME NEW frame \in Frame, InOrder(Append(line, frame), low, high)
      PROVE  InOrder(line, low, high)
  BY <1>2, AppendFacts DEF InOrder
<1>3. ASSUME NEW frame \in Frame, NEW top \in Nat, InOrder(line, low, high), high <= top,
             frame.type = "I" => frame.payload = top /\ low <= top
      PROVE  InOrder(Append(line, frame), low, top)
  <2> DEFINE longer == Append(line, frame)
  <2>1. ASSUME NEW i \in DOMAIN longer, longer[i].type = "I"
        PROVE  longer[i].payload \in low..top
    BY <1>3, <2>1, AppendFacts DEF InOrder
  <2>2. ASSUME NEW i \in DOMAIN longer, NEW j \in DOMAIN longer,
               i < j, longer[i].type = "I", longer[j].type = "I"
        PROVE  longer[i].payload <= longer[j].payload
    <3>1. i \in DOMAIN line
      BY <2>2, AppendFacts
    <3> QED
      BY <1>3, <2>2, <3>1, AppendFacts DEF InOrder
  <2> QED
    BY <2>1, <2>2 DEF InOrder
<1>4. ASSUME NEW top \in Nat, InOrder(line, low, high), high <= top
      PROVE  InOrder(line, low, top)
  BY <1>4 DEF InOrder
<1> QED
  BY <1>1, <1>2, <1>3, <1>4

(* The same of the send numbers; and a frame with the new number is        *)
(* followed by none with the old one.                                      *)
LEMMA SendNumbersFacts ==
  ASSUME NEW line \in Seq(Frame), NEW old, NEW new, SendNumbers(line, old, new)
  PROVE  /\ line # <<>> => SendNumbers(Tail(line), old, new)
         /\ line # <<>> /\ Head(line).type = "I" =>
              /\ Head(line).ns \in {old, new}
              /\ Head(line).ns = new => SendNumbers(Tail(line), new, new)
         /\ \A frame \in Frame:
              (frame.type = "I" =>
                 \/ frame.ns = new
                 \/ frame.ns = old /\ \A i \in DOMAIN line: line[i].type = "I" => line[i].ns # new)
              => SendNumbers(Append(line, frame), old, new)
         /\ old = new => \A n: SendNumbers(line, new, n)
<1>1. ASSUME line # <<>>
      PROVE  /\ SendNumbers(Tail(line), old, new)
             /\ Head(line).type = "I" =>
                  /\ Head(line).ns \in {old, new}
                  /\ Head(line).ns = new => SendNumbers(Tail(line), new, new)
  BY <1>1, TailFacts DEF SendNumbers
<1>2. ASSUME NEW frame \in Frame,
             frame.type = "I" =>
               \/ frame.ns = new
               \/ frame.ns = old /\ \A i \in DOMAIN line: line[i].type = "I" => line[i].ns # new
      PROVE  SendNumbers(Append(line, frame), old, new)
  <2> DEFINE longer == Append(line, frame)
  <2>1. ASSUME NEW i \in DOMAIN longer, longer[i].type = "I"
        PROVE  longer[i].ns \in {old, new}
    BY <1>2, <2>1, AppendFacts DEF SendNumbers
  <2>2. ASSUME NEW i \in DOMAIN longer, NEW j \in DOMAIN longer,
               i < j, longer[i].type = "I", longer[j].type = "I", longer[i].ns = new
        PROVE  longer[j].ns = new
    <3>1. i \in DOMAIN line
      BY <2>2, AppendFacts
    <3> QED
      BY <1>2, <2>2, <3>1, AppendFacts DEF SendNumbers
  <2> QED
    BY <2>1, <2>2 DEF SendNumbers
<1>3. old = new => \A n: SendNumbers(line, new, n)
  BY DEF SendNumbers
<1> QED
  BY <1>1, <1>2, <1>3

(* The same of the receive numbers.                                        *)
LEMMA ReceiveNumbersFacts ==
  ASSUME NEW line \in Seq(Frame), NEW types, NEW old, NEW new, ReceiveNumbers(line, types, old, new)
  PROVE  /\ line # <<>> => ReceiveNumbers(Tail(line), types, old, new)
         /\ line # <<>> /\ Head(line).type \in types =>
              /\ Head(line).nr \in {old, new}
              /\ Head(line).nr = new => ReceiveNumbers(Tail(line), types, new, new)
         /\ \A frame \in Frame:
              (frame.type \in types => frame.nr = new) => ReceiveNumbers(Append(line, frame), types, old, new)
         /\ old = new => \A n: ReceiveNumbers(line, types, new, n)
<1>1. ASSUME line # <<>>
      PROVE  /\ ReceiveNumbers(Tail(line), types, old, new)
             /\ Head(line).type \in types =>
                  /\ Head(line).nr \in {old, new}
                  /\ Head(line).nr = new => ReceiveNumbers(Tail(line), types, new, new)
  BY <1>1, TailFacts DEF ReceiveNumbers
<1>2. ASSUME NEW frame \in Frame, frame.type \in types => frame.nr = new
      PROVE  ReceiveNumbers(Append(line, frame), types, old, new)
  <2> DEFINE longer == Append(line, frame)
  <2>1. ASSUME NEW i \in DOMAIN longer, longer[i].type \in types
        PROVE  longer[i].nr \in {old, new}
    BY <1>2, <2>1, AppendFacts DEF ReceiveNumbers
  <2>2. ASSUME NEW i \in DOMAIN longer, NEW j \in DOMAIN longer,
               i < j, longer[i].type \in types, longer[j].type \in types, longer[i].nr = new
        PROVE  longer[j].nr = new
    <3>1. i \in DOMAIN line
      BY <2>2, AppendFacts
    <3> QED
      BY <1>2, <2>2, <3>1, AppendFacts DEF ReceiveNumbers
  <2> QED
    BY <2>1, <2>2 DEF ReceiveNumbers
<1>3. old = new => \A n: ReceiveNumbers(line, types, new, n)
  BY DEF ReceiveNumbers
<1> QED
  BY <1>1, <1>2, <1>3

(* What is said of all frames of a line can be said of the first ones.     *)
LEMMA ShorterLine ==
  ASSUME NEW line \in Seq(Frame), NEW frame \in Frame, NEW types, NEW old, NEW new
  PROVE  /\ SendNumbers(Append(line, frame), old, new) => SendNumbers(line, old, new)
         /\ ReceiveNumbers(Append(line, frame), types, old, new) => ReceiveNumbers(line, types, old, new)
<1>1. ASSUME SendNumbers(Append(line, frame), old, new) PROVE SendNumbers(line, old, new)
  BY <1>1, AppendFacts DEF SendNumbers
<1>2. ASSUME ReceiveNumbers(Append(line, frame), types, old, new)
      PROVE  ReceiveNumbers(line, types, old, new)
  BY <1>2, AppendFacts DEF ReceiveNumbers
<1> QED
  BY <1>1, <1>2

-----------------------------------------------------------------------------
(* The inductive invariant.                                                *)

\* The queue holds the packets that were submitted last.
Numbered(queue, last) ==
  /\ queue \in Seq(Nat)
  /\ Len(queue) <= last
  /\ \A i \in DOMAIN queue: queue[i] = last - Len(queue) + i

Released == submitted - Len(Queue)

\* The youngest packet that can be on its way.
Latest == IF Queue = <<>> THEN Released ELSE Released + 1

\* What will reach the device: the frames on the line and the one being written.
OnLine == Append(toDevice, ps.m_SendBuffer)

SendNumber == ps.m_SSeqOutgoing
ReceiveNumber == ps.m_RSeqIncoming

AnswerTypes == {"I", "RR", "RNR"}
AckTypes == {"I", "RR"}

LinkTypes ==
  /\ submitted \in 0..MaxPackets /\ restarts \in 0..MaxRestarts
  /\ toDevice \in Seq(Frame) /\ Len(toDevice) <= MaxLine
  /\ toDaemon \in Seq(Frame) /\ Len(toDaemon) <= MaxLine
  /\ expected \in SeqNumbers
  /\ busy \in BOOLEAN
  /\ {delivered, offered, confirmed, received} \subseteq Nat
  /\ offered <= DevicePackets

DownInOrder == delivered <= Latest /\ InOrder(OnLine, delivered, Latest)

\* The line from the device: also what is on it at all.
UpInOrder ==
  /\ received <= offered /\ confirmed <= offered /\ offered <= confirmed + 1
  /\ InOrder(toDaemon, received, offered)
  /\ \A i \in DOMAIN toDaemon:
       /\ toDaemon[i].type \in {"I", "RR", "RNR", "TEST"}
       /\ toDaemon[i].type = "I" => /\ toDaemon[i].payload > 0
                                    /\ toDaemon[i].ns = (toDaemon[i].payload - 1) % SeqModulus

\* The device has accepted the packet at the head of the queue once its number
\* is ahead of the station's; the converse may fail, see DeliveredOnce.
Waited ==
  \/ expected = SendNumber /\ delivered \in {Released, Released + 1}
  \/ expected = Succ(SendNumber) /\ delivered = Released + 1

\* Only the head of the queue is on its way under the expected number.
OnlyHeadIsNew ==
  \A i \in DOMAIN OnLine:
    OnLine[i].type = "I" /\ OnLine[i].ns = expected
      => expected = SendNumber /\ OnLine[i].payload = Released + 1

Synchronised ==
  /\ ~ps.m_bStarted => SendNumber = 0 /\ ReceiveNumber = 0
  /\ Waited
  /\ OnlyHeadIsNew
  /\ SendNumbers(OnLine, Pred(expected), expected)
  /\ ReceiveNumbers(toDaemon, AnswerTypes, SendNumber, expected)
  /\ ReceiveNumber = received % SeqModulus
  /\ confirmed <= received
  /\ ReceiveNumbers(OnLine, AckTypes, confirmed % SeqModulus, received % SeqModulus)

LinkInv ==
  /\ S!IInv
  /\ LinkTypes
  /\ Numbered(Queue, submitted)
  /\ DownInOrder
  /\ UpInOrder
  /\ restarts = 0 => Synchronised

(* What the proofs use of the types.                                       *)
Typed ==
  /\ ps \in Station!PSType
  /\ ps.m_SendBuffer \in Frame
  /\ OnLine \in Seq(Frame)
  /\ SendNumber \in SeqNumbers /\ ReceiveNumber \in SeqNumbers
  /\ Released \in Nat /\ Latest \in Nat

(* The members are of their types, and so is the line.                     *)
LEMMA StationTyped ==
  ASSUME S!IInv
  PROVE  /\ ps.m_SendBuffer \in Frame
         /\ SendNumber \in SeqNumbers /\ ReceiveNumber \in SeqNumbers
         /\ Queue \in Seq(Nat)
         /\ Queue \in Seq(1..(MaxPackets + DevicePackets))
<1>1. ps \in S!PSType
  BY StationConstants, S!FoundFacts DEF S!Found
<1>2. ps.m_SendBuffer \in S!Frame
  BY <1>1 DEF S!PSType
<1>3. SendNumber \in SeqNumbers /\ ReceiveNumber \in SeqNumbers
  BY <1>1 DEF S!PSType, S!SeqNumbers, SeqNumbers, SendNumber, ReceiveNumber
<1>4. Queue \in Seq(1..(MaxPackets + DevicePackets))
  BY <1>1 DEF S!PSType, Queue
<1>5. Queue \in Seq(Nat)
  <2>1. 1..(MaxPackets + DevicePackets) \subseteq Nat
    BY ConstantsAssumption
  <2> QED
    BY <1>4, <2>1, SeqMonotonic
<1> QED
  BY <1>2, <1>3, <1>4, <1>5, StatesAgree DEF Frame

(* A packet leaves a numbered queue at the head and enters it at the end.  *)
LEMMA NumberedFacts ==
  ASSUME NEW queue, NEW last \in Nat, Numbered(queue, last)
  PROVE  /\ queue # <<>> => /\ Numbered(Tail(queue), last)
                            /\ Len(Tail(queue)) = Len(queue) - 1 /\ Len(queue) > 0
                            /\ queue[Len(queue)] = last
                            /\ Head(queue) = last - Len(queue) + 1
         /\ Numbered(Append(queue, last + 1), last + 1)
         /\ last - Len(queue) \in Nat
<1>1. queue \in Seq(Nat) /\ Len(queue) \in Nat
  BY DEF Numbered
<1>2. queue # <<>> => /\ Numbered(Tail(queue), last)
                      /\ Len(Tail(queue)) = Len(queue) - 1 /\ Len(queue) > 0
                      /\ queue[Len(queue)] = last
                      /\ Head(queue) = last - Len(queue) + 1
  BY <1>1 DEF Numbered
<1>3. Numbered(Append(queue, last + 1), last + 1)
  <2> DEFINE longer == Append(queue, last + 1)
  <2>1. longer \in Seq(Nat) /\ Len(longer) = Len(queue) + 1
    BY <1>1
  <2>2. \A i \in DOMAIN longer: longer[i] = last + 1 - Len(longer) + i
    BY <1>1, <2>1 DEF Numbered
  <2> HIDE DEF longer
  <2> QED
    BY <1>1, <2>1, <2>2 DEF Numbered, longer
<1>4. last - Len(queue) \in Nat
  BY <1>1 DEF Numbered
<1> QED
  BY <1>2, <1>3, <1>4

(* The link is typed.                                                      *)
LEMMA LinkTyped ==
  ASSUME LinkInv
  PROVE  /\ OnLine \in Seq(Frame) /\ toDevice \in Seq(Frame) /\ toDaemon \in Seq(Frame)
         /\ ps.m_SendBuffer \in Frame
         /\ SendNumber \in SeqNumbers /\ ReceiveNumber \in SeqNumbers /\ expected \in SeqNumbers
         /\ submitted \in Nat /\ MaxPackets \in Nat /\ MaxLine \in Nat /\ DevicePackets \in Nat
         /\ Released \in Nat /\ Latest \in Nat /\ Latest >= Released
         /\ Queue # <<>> => Latest = Released + 1
         /\ Latest <= submitted
         /\ delivered \in Nat /\ offered \in Nat /\ confirmed \in Nat /\ received \in Nat
<1>1. S!IInv /\ LinkTypes /\ Numbered(Queue, submitted)
  BY DEF LinkInv
<1>2. /\ ps.m_SendBuffer \in Frame
      /\ SendNumber \in SeqNumbers /\ ReceiveNumber \in SeqNumbers
  BY <1>1, StationTyped
<1>3. MaxPackets \in Nat /\ MaxLine \in Nat /\ DevicePackets \in Nat
  BY ConstantsAssumption
<1>4. submitted \in Nat /\ Released \in Nat /\ (Queue # <<>> => Released + 1 <= submitted)
  BY <1>1, <1>3, NumberedFacts DEF LinkTypes, Released, Numbered
<1>5. Released <= submitted
  BY <1>1, <1>4 DEF Released, Numbered
<1>6. OnLine \in Seq(Frame)
  BY <1>1, <1>2 DEF OnLine, LinkTypes
<1> QED
  BY <1>1, <1>2, <1>3, <1>4, <1>5, <1>6 DEF LinkTypes, Latest

-----------------------------------------------------------------------------
(* A step of the station.                                                  *)

\* The queue after a step that released all packets up to last.
Queued(last) ==
  /\ submitted' \in {submitted, submitted + 1} /\ submitted' <= MaxPackets
  /\ Numbered(Queue, submitted)'
  /\ Released' = last
  /\ last \in {Released, Released + 1} /\ last <= submitted
  /\ Latest' >= Latest

(* The counter of the link follows the packets that the station lets in.   *)
LEMMA SubmissionCounted ==
  ASSUME LinkInv, NEW s, NEW r, NEW frame, NEW queue, CountSubmission,
         S!Moved(s, r, queue, frame),
         queue = Queue \/ (Queue # <<>> /\ queue = Tail(Queue))
  PROVE  Queued(submitted - Len(queue))
<1>1. submitted \in 0..MaxPackets /\ Numbered(Queue, submitted)
  BY DEF LinkInv, LinkTypes
<1>2. MaxPackets \in Nat /\ submitted \in Nat /\ Released \in Nat
  BY LinkTyped
<1>3. /\ Numbered(queue, submitted) /\ submitted - Len(queue) \in {Released, Released + 1}
      /\ submitted - Len(queue) <= submitted
      /\ submitted - Len(queue) + (IF queue = <<>> THEN 0 ELSE 1) >= Latest
  <2>1. Len(Queue) \in Nat /\ Len(queue) \in Nat
    BY <1>1 DEF Numbered
  <2>2. CASE queue = Queue
    BY <1>1, <1>2, <2>1, <2>2 DEF Released, Latest
  <2>3. CASE Queue # <<>> /\ queue = Tail(Queue)
    <3>1. Numbered(queue, submitted) /\ Len(queue) = Len(Queue) - 1
      BY <1>1, <1>2, <2>3, NumberedFacts
    <3>2. Latest = Released + 1
      BY <2>3 DEF Latest
    <3>3. submitted - Len(queue) = Released + 1
      BY <1>2, <2>1, <3>1 DEF Released
    <3> QED
      BY <1>2, <3>1, <3>2, <3>3
  <2> QED
    BY <2>2, <2>3
<1>5. CASE Queue' = queue
  <2>1. submitted' = submitted
    BY <1>1, <1>2, <1>3, <1>5, NumberedFacts DEF CountSubmission
  <2> QED
    BY <1>1, <1>2, <1>3, <1>5, <2>1 DEF Queued, Released, Latest
<1>6. CASE queue = <<>> /\ submitted < MaxPackets /\ Queue' = <<submitted + 1>>
  <2>1. submitted' = submitted + 1 /\ Len(queue) = 0 /\ Len(Queue') = 1 /\ Queue' # <<>>
    BY <1>2, <1>6 DEF CountSubmission
  <2>2. Numbered(Queue', submitted')
    BY <1>2, <1>6, <2>1 DEF Numbered
  <2> QED
    BY <1>1, <1>2, <1>3, <1>6, <2>1, <2>2 DEF Queued, Released, Latest
<1> QED
  BY <1>5, <1>6 DEF S!Moved, Queue

\* The frame that is being written goes on the line, or remains; the next one is
\* prepared.
LineMoved ==
  \/ toDevice' = toDevice /\ ps'.m_SendBuffer = ps.m_SendBuffer
  \/ toDevice' \in {toDevice, OnLine} /\ S!FramePrepared(ps')

(* What is on the line after a step of the station.                        *)
LEMMA LineAfterStep ==
  ASSUME LinkInv, S!IInv', LineMoved, OnLine' # OnLine
  PROVE  /\ ps'.m_SendBuffer \in Frame
         /\ S!FramePrepared(ps')
         /\ \E line \in {toDevice, OnLine}: OnLine' = Append(line, ps'.m_SendBuffer)
<1>1. ps'.m_SendBuffer \in Frame
  <2>1. (ps.m_SendBuffer \in Frame)'
    BY StationTyped, PTL
  <2> QED
    BY <2>1 DEF Frame, Station!Frame, Station!FrameTypes, Station!SeqNumbers
<1> QED
  BY <1>1 DEF LineMoved, OnLine

(* A step of the station writes packets in order.                          *)
LEMMA DownKept ==
  ASSUME LinkInv, S!IInv', LineMoved, NEW last, Queued(last), delivered' = delivered
  PROVE  DownInOrder'
<1>1. /\ OnLine \in Seq(Frame) /\ toDevice \in Seq(Frame) /\ ps.m_SendBuffer \in Frame
      /\ delivered \in Nat /\ Latest \in Nat /\ Released \in Nat /\ submitted \in Nat
  BY LinkTyped
<1>2. delivered <= Latest /\ InOrder(OnLine, delivered, Latest)
  BY DEF LinkInv, DownInOrder
<1>3. Released' \in Nat /\ Latest' \in Nat /\ Latest' >= Latest
  BY <1>1 DEF Queued, Latest
<1>4. CASE OnLine' = OnLine
  BY <1>1, <1>2, <1>3, <1>4, InOrderFacts DEF DownInOrder
<1>5. CASE OnLine' # OnLine
  <2> DEFINE frame == ps'.m_SendBuffer
  <2>1. /\ frame \in Frame
        /\ S!FramePrepared(ps')
        /\ \E line \in {toDevice, OnLine}: OnLine' = Append(line, frame)
    BY <1>5, LineAfterStep
  <2>2. PICK line \in {toDevice, OnLine}: OnLine' = Append(line, frame)
    BY <2>1
  <2>3. InOrder(toDevice, delivered, Latest)
    BY <1>1, <1>2, InOrderFacts DEF OnLine
  <2>4. line \in Seq(Frame) /\ InOrder(line, delivered, Latest)
    BY <1>1, <1>2, <2>2, <2>3
  <2>5. frame.type = "I" => frame.payload = Latest'
    <3>1. frame.type = "I" => Queue' # <<>> /\ frame.payload = Head(Queue')
      BY <2>1 DEF S!FramePrepared, Queue
    <3>2. Queue' # <<>> => Head(Queue') = Latest'
      <4>1. Numbered(Queue', submitted') /\ submitted' \in Nat
        BY <1>1 DEF Queued
      <4> QED
        BY <4>1, NumberedFacts DEF Latest, Released
    <3> QED
      BY <3>1, <3>2
  <2> HIDE DEF frame
  <2>6. InOrder(Append(line, frame), delivered, Latest')
    BY <1>1, <1>2, <1>3, <2>1, <2>4, <2>5, InOrderFacts
  <2> QED
    BY <1>1, <1>2, <1>3, <2>2, <2>6 DEF DownInOrder
<1> QED
  BY <1>4, <1>5

\* The numbers after a step of the station that released all packets up to last.
NumbersMoved(last) ==
  /\ Queued(last)
  /\ UNCHANGED <<expected, delivered, confirmed>>
  /\ \/ SendNumber' = SendNumber /\ last = Released
     \/ SendNumber' = expected /\ (last = Released \/ expected # SendNumber)
  /\ ReceiveNumber' = received' % SeqModulus
  /\ confirmed <= received'
  /\ ReceiveNumbers(OnLine, AckTypes, confirmed % SeqModulus, received' % SeqModulus)
  /\ ReceiveNumbers(toDaemon', AnswerTypes, SendNumber', expected)
  /\ ~ps'.m_bStarted => SendNumber' = 0 /\ ReceiveNumber' = 0

(* The two stations stay synchronised in a step of the daemon.             *)
LEMMA SynchronisedKept ==
  ASSUME LinkInv, Synchronised, S!IInv', LineMoved, NEW last, NumbersMoved(last)
  PROVE  Synchronised'
<1>1. /\ OnLine \in Seq(Frame) /\ toDevice \in Seq(Frame) /\ ps.m_SendBuffer \in Frame
      /\ SendNumber \in SeqNumbers /\ expected \in SeqNumbers
      /\ Released \in Nat /\ delivered \in Nat /\ submitted \in Nat
  BY LinkTyped
<1>2. Waited /\ OnlyHeadIsNew /\ SendNumbers(OnLine, Pred(expected), expected)
  BY DEF Synchronised
<1>3. Released' = last /\ last \in {Released, Released + 1}
  BY DEF NumbersMoved, Queued
<1>4. SendNumber' \in {SendNumber, expected}
  BY DEF NumbersMoved
<1>5. Waited'
  <2>1. CASE SendNumber' = SendNumber /\ last = Released
    BY <1>2, <1>3, <2>1 DEF Waited, NumbersMoved
  <2>2. CASE SendNumber' = expected /\ (last = Released \/ expected # SendNumber)
    BY <1>1, <1>2, <1>3, <2>2 DEF Waited, NumbersMoved
  <2> QED
    BY <2>1, <2>2 DEF NumbersMoved
<1>6. expected = SendNumber => SendNumber' = expected /\ Released' = Released
  BY <1>3 DEF NumbersMoved
<1>7. SendNumber' # expected => expected = Succ(SendNumber) /\ SendNumber' = SendNumber
  BY <1>2, <1>4, <1>6 DEF Waited
<1>8. CASE OnLine' = OnLine
  <2>1. OnlyHeadIsNew'
    BY <1>2, <1>6, <1>8 DEF OnlyHeadIsNew, NumbersMoved
  <2>2. SendNumbers(OnLine', Pred(expected'), expected')
    BY <1>2, <1>8 DEF NumbersMoved
  <2>3. ReceiveNumbers(OnLine', AckTypes, confirmed' % SeqModulus, received' % SeqModulus)
    BY <1>8 DEF NumbersMoved
  <2> QED
    BY <1>5, <2>1, <2>2, <2>3 DEF Synchronised, NumbersMoved
<1>9. CASE OnLine' # OnLine
  <2> DEFINE frame == ps'.m_SendBuffer
  <2>1. /\ frame \in Frame
        /\ frame.type \in {"I", "RR"} => frame.nr = ReceiveNumber'
        /\ frame.type = "I" => frame.ns = SendNumber' /\ Queue' # <<>> /\ frame.payload = Head(Queue')
        /\ \E line \in {toDevice, OnLine}: OnLine' = Append(line, frame)
    BY <1>9, LineAfterStep DEF S!FramePrepared, ReceiveNumber, SendNumber, Queue
  <2>2. PICK line \in {toDevice, OnLine}: OnLine' = Append(line, frame)
    BY <2>1
  <2>3. Queue' # <<>> => Head(Queue') = Released' + 1
    <3>1. Numbered(Queue', submitted') /\ submitted' \in Nat
      BY <1>1 DEF Queued, NumbersMoved
    <3> QED
      BY <3>1, NumberedFacts DEF Released
  <2>4. /\ line \in Seq(Frame)
        /\ \A i \in DOMAIN line: i \in DOMAIN OnLine /\ OnLine[i] = line[i]
    BY <1>1, AppendFacts DEF OnLine
  <2>5. SendNumbers(line, Pred(expected), expected)
    BY <1>1, <1>2, ShorterLine DEF OnLine
  <2>6. ReceiveNumbers(line, AckTypes, confirmed % SeqModulus, received' % SeqModulus)
    BY <1>1, ShorterLine DEF OnLine, NumbersMoved
  <2> HIDE DEF frame
  <2>7. \A i \in DOMAIN OnLine': (i \in DOMAIN line /\ OnLine'[i] = line[i]) \/ OnLine'[i] = frame
    BY <2>1, <2>2, <2>4, AppendFacts
  <2>8. OnlyHeadIsNew'
    <3> SUFFICES ASSUME NEW i \in DOMAIN OnLine', OnLine'[i].type = "I", OnLine'[i].ns = expected
                 PROVE  expected = SendNumber' /\ OnLine'[i].payload = Released' + 1
      BY DEF OnlyHeadIsNew, NumbersMoved
    <3>1. CASE i \in DOMAIN line /\ OnLine'[i] = line[i]
      BY <1>2, <1>6, <2>4, <3>1 DEF OnlyHeadIsNew
    <3>2. CASE OnLine'[i] = frame
      BY <2>1, <2>3, <3>2
    <3> QED
      BY <2>7, <3>1, <3>2
  <2>9. SendNumbers(OnLine', Pred(expected'), expected')
    <3>1. SendNumber' # expected => /\ SendNumber' = Pred(expected)
                                    /\ \A i \in DOMAIN line: line[i].type = "I" => line[i].ns # expected
      BY <1>1, <1>2, <1>6, <1>7, <2>4, NumberFacts DEF OnlyHeadIsNew
    <3>2. SendNumbers(Append(line, frame), Pred(expected), expected)
      BY <2>1, <2>4, <2>5, <3>1, SendNumbersFacts
    <3> QED
      BY <2>2, <3>2 DEF NumbersMoved
  <2>10. ReceiveNumbers(OnLine', AckTypes, confirmed' % SeqModulus, received' % SeqModulus)
    <3>1. frame.type \in AckTypes => frame.nr = received' % SeqModulus
      BY <2>1 DEF AckTypes, NumbersMoved
    <3>2. ReceiveNumbers(Append(line, frame), AckTypes, confirmed % SeqModulus, received' % SeqModulus)
      BY <2>1, <2>4, <2>6, <3>1, ReceiveNumbersFacts
    <3> QED
      BY <2>2, <3>2 DEF NumbersMoved
  <2> QED
    BY <1>5, <2>8, <2>9, <2>10 DEF Synchronised, NumbersMoved
<1> QED
  BY <1>8, <1>9

-----------------------------------------------------------------------------
(* The two streams.                                                        *)

DownStep == Stream!Next \/ UNCHANGED Stream!streamVars
UpStep == DeviceStream!Next \/ UNCHANGED DeviceStream!streamVars

(* A step of the daemon accepts or releases packets of the clients.        *)
LEMMA DownAccepts ==
  ASSUME LinkInv, NEW last, Queued(last), delivered' = delivered, restarts' = restarts,
         restarts = 0 => Synchronised'
  PROVE  DownStep
<1>1. /\ submitted \in Nat /\ Released \in Nat /\ delivered \in Nat /\ Latest \in Nat
      /\ Latest <= submitted /\ delivered <= Latest
  BY LinkTyped DEF LinkInv, DownInOrder
<1>2. /\ submitted' \in {submitted, submitted + 1}
      /\ Released' \in {Released, Released + 1} /\ Released' <= submitted
  BY DEF Queued
<1>3. UNCHANGED (restarts > 0)
  OBVIOUS
<1>4. restarts \in Nat
  BY ConstantsAssumption DEF LinkInv, LinkTypes
<1>5. CASE restarts = 0
  <2>1. delivered' \in {Released', Released' + 1}
    BY <1>5 DEF Synchronised, Waited
  <2>2. Released' \in Nat
    BY <1>1, <1>2
  <2>3. delivered \in {Released', Released' + 1}
    BY <2>1
  <2>4. Released' <= delivered
    <3>1. \A n, m \in Nat: m \in {n, n + 1} => n <= m
      OBVIOUS
    <3> QED
      BY <1>1, <2>2, <2>3, <3>1
  <2>5. ~(restarts > 0)
    BY <1>5
  <2>6. Stream!AcceptOrRelease
    BY <1>2, <1>3, <2>4, <2>5 DEF Stream!AcceptOrRelease, Released
  <2> QED
    BY <2>6 DEF DownStep, Stream!Next
<1>6. CASE restarts # 0
  <2>1. restarts > 0
    BY <1>4, <1>6
  <2>2. delivered' \in delivered..submitted
    BY <1>1
  <2>3. Stream!AfterSuspension
    BY <1>2, <1>3, <2>1, <2>2 DEF Stream!AfterSuspension, Released
  <2> QED
    BY <2>3 DEF DownStep, Stream!Next
<1> QED
  BY <1>5, <1>6

\* Neither moves the send number on nor releases a packet.
NothingReleased == restarts = 0 => SendNumber' = SendNumber /\ Released' = Released

(* A step of the daemon that takes no frame from the line.                 *)
LEMMA DaemonStep ==
  ASSUME LinkInv, S!IInv', LineMoved, Queued(Released), Len(toDevice') <= MaxLine,
         UNCHANGED <<received, restarts, toDaemon, deviceVars>>,
         restarts = 0 => UNCHANGED <<SendNumber, ReceiveNumber>>,
         ps'.m_bStarted \/ ps'.m_bStarted = ps.m_bStarted
  PROVE  LinkInv' /\ DownStep /\ UpStep /\ NothingReleased
<1>1. /\ OnLine \in Seq(Frame) /\ toDevice \in Seq(Frame)
      /\ LinkTypes /\ UpInOrder /\ (restarts = 0 => Synchronised)
      /\ submitted \in Nat /\ MaxPackets \in Nat
  BY LinkTyped DEF LinkInv
<1>2. DownInOrder'
  BY DownKept DEF deviceVars
<1>3. LinkTypes'
  <2>1. toDevice' \in Seq(Frame)
    BY <1>1 DEF LineMoved
  <2>2. submitted' \in 0..MaxPackets
    BY <1>1 DEF Queued
  <2> QED
    BY <1>1, <2>1, <2>2 DEF LinkTypes, deviceVars, SeqNumbers, Frame, Station!Frame,
       Station!FrameTypes, Station!SeqNumbers
<1>4. UpInOrder'
  BY <1>1 DEF UpInOrder, deviceVars, InOrder
<1>5. restarts = 0 => Synchronised'
  <2> SUFFICES ASSUME restarts = 0 PROVE Synchronised'
    OBVIOUS
  <2>1. Synchronised
    BY <1>1
  <2>2. NumbersMoved(Released)
    BY <2>1 DEF NumbersMoved, Synchronised, deviceVars
  <2> QED
    BY <2>1, <2>2, SynchronisedKept
<1>6. LinkInv'
  BY <1>2, <1>3, <1>4, <1>5 DEF LinkInv, Queued
<1>7. DownStep
  BY <1>5, DownAccepts DEF deviceVars
<1>8. UpStep
  <2>1. UNCHANGED (restarts > 0)
    OBVIOUS
  <2> QED
    BY <2>1 DEF UpStep, DeviceStream!streamVars, deviceVars
<1>9. NothingReleased
  BY DEF NothingReleased, Queued
<1> QED
  BY <1>6, <1>7, <1>8, <1>9

-----------------------------------------------------------------------------
(* The steps of the daemon.                                                *)

(* The packet on offer is a data packet of the station, before and after.  *)
LEMMA OffersTyped ==
  ASSUME NEW n \in Nat
  PROVE  (IF n < MaxPackets THEN {[payload |-> n + 1, reliable |-> TRUE]} ELSE {}) \subseteq S!DataPacket
<1>1. MaxPackets \in Nat /\ DevicePackets \in Nat
  BY ConstantsAssumption
<1>2. n < MaxPackets => n + 1 \in 1..(MaxPackets + DevicePackets)
  BY <1>1
<1>3. n < MaxPackets => [payload |-> n + 1, reliable |-> TRUE] \in S!DataPacket
  BY <1>2 DEF S!DataPacket
<1> QED
  BY <1>3

(* The inductive invariant of the station holds after its handlers.        *)
LEMMA StationInv ==
  ASSUME LinkInv, CountSubmission \/ submitted' = submitted,
         \/ ~Station!TransmittedWhileStopped /\ S!Handlers
         \/ \E frame \in Frame: S!InterpretDeserializedFrame(frame)
  PROVE  S!IInv'
<1>1. S!IInv /\ submitted \in Nat
  BY LinkTyped DEF LinkInv
<1>2. submitted' \in Nat
  BY <1>1 DEF CountSubmission
<1>3. (IF submitted' < MaxPackets THEN {[payload |-> submitted' + 1, reliable |-> TRUE]} ELSE {})
        \subseteq S!DataPacket
  BY <1>2, OffersTyped
<1>4. CASE ~Station!TransmittedWhileStopped /\ S!Handlers
  BY <1>1, <1>3, <1>4, StatesAgree, StationConstants, S!HandlersInv
<1>5. CASE \E frame \in Frame: S!InterpretDeserializedFrame(frame)
  <2>1. PICK frame \in S!Frame: S!InterpretDeserializedFrame(frame)
    BY <1>5, StatesAgree DEF Frame
  <2> QED
    BY <1>1, <1>3, <2>1, StationConstants, S!FrameStep
<1> QED
  BY <1>4, <1>5

(* A station that prepares a frame, leaves it or drops it moves the line.  *)
LEMMA MovedLine ==
  ASSUME NEW s, NEW r, NEW queue, NEW frame, S!Moved(s, r, queue, frame),
         \/ toDevice' = toDevice /\ frame \in {ps.m_SendBuffer, S!UnsetFrame}
         \/ toDevice' = OnLine /\ frame = S!UnsetFrame
  PROVE  /\ LineMoved
         /\ SendNumber' = s /\ ReceiveNumber' = r
<1>1. ps'.m_SendBuffer = S!UnsetFrame => S!FramePrepared(ps')
  BY DEF S!FramePrepared, S!UnsetFrame
<1>2. ps'.m_SendBuffer = frame \/ S!FramePrepared(ps')
  BY DEF S!Moved
<1> QED
  BY <1>1, <1>2 DEF LineMoved, S!Moved, SendNumber, ReceiveNumber

(* A frame reaches the line.                                               *)
LEMMA WriteFrameStep ==
  ASSUME LinkInv, ~Station!TransmittedWhileStopped, WriteFrame
  PROVE  LinkInv' /\ DownStep /\ UpStep /\ NothingReleased
<1>1. S!IInv /\ S!TriggerNextHDLCFrame /\ CountSubmission
  BY TriggerAgrees DEF WriteFrame, LinkInv
<1>2. S!IInv'
  BY <1>1, StationInv DEF S!Handlers
<1>3. /\ S!Moved(SendNumber, ReceiveNumber, Queue, S!UnsetFrame)
      /\ ps'.m_bStarted = ps.m_bStarted
  BY <1>1, StationConstants, S!TriggerSeen DEF SendNumber, ReceiveNumber, Queue
<1>4. toDevice' = OnLine
  BY DEF WriteFrame, OnLine
<1>5. LineMoved /\ SendNumber' = SendNumber /\ ReceiveNumber' = ReceiveNumber
  BY <1>3, <1>4, MovedLine
<1>6. Queued(Released)
  BY <1>1, <1>3, SubmissionCounted DEF Released
<1>7. Len(toDevice') <= MaxLine
  BY LinkTyped DEF WriteFrame
<1> QED
  BY <1>2, <1>3, <1>5, <1>6, <1>7, DaemonStep DEF WriteFrame

(* A handler of a timer is run, or a timer expires.                        *)
LEMMA TimerSteps ==
  ASSUME LinkInv, ~Station!TransmittedWhileStopped, NEW timer,
         RunTimerHandler(timer) \/ ExpireTimer(timer)
  PROVE  LinkInv' /\ DownStep /\ UpStep /\ NothingReleased
<1>1. \/ S!TimerExpires \/ S!OnRetransmissionTimeout \/ S!OnQueryTimeout
      \/ S!StateTimerExpires \/ S!ProbeTimerExpires \/ S!OnStateTimeout \/ S!OnProbeTimeout
  BY TimersAgree, AliveTimersAgree DEF RunTimerHandler, ExpireTimer
<1>2. CountSubmission \/ submitted' = submitted
  BY DEF RunTimerHandler, ExpireTimer
<1>3. S!IInv /\ S!IInv'
  BY <1>1, <1>2, StationInv DEF S!Handlers, LinkInv
<1>4. /\ S!Moved(SendNumber, ReceiveNumber, Queue, ps.m_SendBuffer)
      /\ ps'.m_bStarted = ps.m_bStarted
  BY <1>1, <1>3, StationConstants, S!TimersSeen DEF SendNumber, ReceiveNumber, Queue
<1>5. UNCHANGED <<received, restarts, toDaemon, deviceVars, toDevice>>
  BY DEF RunTimerHandler, ExpireTimer
<1>6. LineMoved /\ SendNumber' = SendNumber /\ ReceiveNumber' = ReceiveNumber
  BY <1>4, <1>5, MovedLine
<1>7. CountSubmission
  <2> SUFFICES ASSUME ExpireTimer(timer) PROVE CountSubmission
    BY DEF RunTimerHandler
  <2>1. ps \in S!PSType /\ Numbered(Queue, submitted) /\ submitted \in Nat
    BY <1>3, StationConstants, S!FoundFacts, LinkTyped DEF S!Found, LinkInv
  <2>2. Queue' = Queue
    BY <2>1 DEF ExpireTimer, Station!TimerExpires, Station!StateTimerExpires,
                Station!ProbeTimerExpires, Queue, S!PSType
  <2>3. Queue # <<>> => Queue[Len(Queue)] # submitted + 1
    BY <2>1, NumberedFacts
  <2> QED
    BY <2>2, <2>3 DEF CountSubmission, ExpireTimer
<1>8. Queued(Released)
  BY <1>4, <1>7, SubmissionCounted DEF Released
<1>9. Len(toDevice') <= MaxLine
  BY <1>5 DEF LinkInv, LinkTypes
<1> QED
  BY <1>3, <1>4, <1>5, <1>6, <1>8, <1>9, DaemonStep

(* A packet is submitted.                                                  *)
LEMMA SubmitStep ==
  ASSUME LinkInv, ~Station!TransmittedWhileStopped, Submit
  PROVE  LinkInv' /\ DownStep /\ UpStep /\ NothingReleased
<1> DEFINE packet == [payload |-> submitted + 1, reliable |-> TRUE]
           offers == IF submitted < MaxPackets THEN {packet} ELSE {}
           queue == Append(Queue, submitted + 1)
<1>1. S!IInv /\ Numbered(Queue, submitted) /\ submitted \in 0..MaxPackets
  BY DEF LinkInv, LinkTypes
<1>2. submitted \in Nat /\ MaxPackets \in Nat /\ Released \in Nat /\ submitted < MaxPackets
  BY LinkTyped DEF Submit
<1>3. packet \in offers /\ S!SendPayload(packet) /\ CountSubmission
  BY <1>2, SendPayloadAgrees DEF Submit
<1>4. S!IInv'
  BY <1>3, StationInv DEF S!Handlers
<1>5. /\ S!Moved(SendNumber, ReceiveNumber, queue, ps.m_SendBuffer)
      /\ ps'.m_bStarted = ps.m_bStarted
  BY <1>1, <1>3, StationConstants, S!SendPayloadSeen DEF SendNumber, ReceiveNumber, Queue
<1>6. LineMoved /\ SendNumber' = SendNumber /\ ReceiveNumber' = ReceiveNumber
  BY <1>5, MovedLine DEF Submit
<1>7. Queued(Released)
  <2>1. Queue \in Seq(Nat) /\ Len(Queue) \in Nat
    BY <1>1 DEF Numbered
  <2>2. queue # <<>> /\ Len(queue) = Len(Queue) + 1 /\ queue[Len(queue)] = submitted + 1
    BY <1>2, <2>1
  <2>3. Numbered(queue, submitted + 1)
    BY <1>1, <1>2, NumberedFacts
  <2> HIDE DEF queue
  <2>4. Queue' = queue
    BY <1>5, <2>2 DEF S!Moved, Queue
  <2>5. submitted' = submitted + 1
    BY <1>3, <2>2, <2>4 DEF CountSubmission
  <2>6. Released' = Released
    BY <1>2, <2>1, <2>2, <2>4, <2>5 DEF Released
  <2>7. Latest' >= Latest /\ Released <= submitted
    BY <1>2, <2>2, <2>4, <2>6, LinkTyped DEF Latest
  <2> QED
    BY <1>2, <2>3, <2>4, <2>5, <2>6, <2>7 DEF Queued
<1>8. Len(toDevice') <= MaxLine
  BY DEF Submit, LinkInv, LinkTypes
<1> QED
  BY <1>4, <1>5, <1>6, <1>7, <1>8, DaemonStep DEF Submit

(* The port is opened.  As long as it was not suspended, the numbers of    *)
(* the station are those it starts with.                                   *)
LEMMA OpenStep ==
  ASSUME LinkInv, ~Station!TransmittedWhileStopped, Open
  PROVE  LinkInv' /\ DownStep /\ UpStep /\ NothingReleased
<1>1. S!IInv /\ S!Start /\ CountSubmission /\ ~S!TransmittedWhileStopped
  BY StartAgrees, StatesAgree DEF Open, LinkInv
<1>2. S!IInv'
  BY <1>1, StationInv DEF S!Handlers
<1>3. S!Moved(0, 0, Queue, ps.m_SendBuffer) /\ ps'.m_bStarted
  BY <1>1, StationConstants, S!StartSeen DEF Queue
<1>4. LineMoved /\ SendNumber' = 0 /\ ReceiveNumber' = 0
  BY <1>3, MovedLine DEF Open
<1>5. restarts = 0 => SendNumber = 0 /\ ReceiveNumber = 0
  BY <1>1 DEF LinkInv, Synchronised, S!Start
<1>6. Queued(Released)
  BY <1>1, <1>3, SubmissionCounted DEF Released
<1>7. Len(toDevice') <= MaxLine
  BY DEF Open, LinkInv, LinkTypes
<1> QED
  BY <1>2, <1>3, <1>4, <1>5, <1>6, <1>7, DaemonStep DEF Open

(* The port is closed.  From now on only the order is kept.                *)
LEMMA SuspendStep ==
  ASSUME LinkInv, ~Station!TransmittedWhileStopped, Suspend
  PROVE  LinkInv' /\ DownStep /\ UpStep
<1>1. S!IInv /\ S!Stop /\ submitted' = submitted
  BY StopAgrees DEF Suspend, LinkInv
<1>2. S!IInv'
  BY <1>1, StationInv DEF S!Handlers
<1>3. S!Moved(0, 0, Queue, S!UnsetFrame)
  BY <1>1, StationConstants, S!StopSeen DEF Queue
<1>4. LineMoved
  BY <1>3, MovedLine DEF Suspend
<1>5. Queue' = Queue
  <2>1. ps \in S!PSType
    BY <1>1, StationConstants, S!FoundFacts DEF S!Found
  <2> QED
    BY <1>1, <2>1 DEF S!Stop, S!GivenUp, S!ResetMembers, S!PSType, Queue
<1>6. Queued(Released)
  <2>1. Released' = Released /\ Latest' = Latest
    BY <1>1, <1>5 DEF Released, Latest
  <2> QED
    BY <1>1, <1>5, <2>1, LinkTyped DEF Queued, LinkInv, LinkTypes
<1>7. DownInOrder'
  BY <1>2, <1>4, <1>6, DownKept DEF Suspend, deviceVars
<1>8. restarts \in Nat /\ restarts' = restarts + 1 /\ restarts' \in 0..MaxRestarts /\ 0 <= MaxLine
  BY ConstantsAssumption DEF Suspend, LinkInv, LinkTypes
<1>9. LinkTypes'
  BY <1>1, <1>8 DEF LinkInv, LinkTypes, Suspend, deviceVars, SeqNumbers, Frame, Station!Frame,
     Station!FrameTypes, Station!SeqNumbers
<1>10. UpInOrder'
  BY DEF LinkInv, UpInOrder, Suspend, deviceVars, InOrder
<1>11. LinkInv'
  BY <1>2, <1>6, <1>7, <1>8, <1>9, <1>10 DEF LinkInv, Queued
<1>12. restarts' > 0
  BY <1>8
<1>13. DownStep
  BY <1>1, <1>5, <1>12 DEF DownStep, Stream!Next, Stream!Suspend, Suspend, deviceVars
<1>14. UpStep
  BY <1>12 DEF UpStep, DeviceStream!Next, DeviceStream!Suspend, Suspend, deviceVars
<1> QED
  BY <1>11, <1>13, <1>14

(* A frame of the device is interpreted: what it acknowledges is released, *)
(* and its packet handed to the clients.                                   *)
LEMMA ReceiveFrameStep ==
  ASSUME LinkInv, ReceiveFrame
  PROVE  LinkInv' /\ DownStep /\ UpStep
<1> DEFINE frame == Head(toDaemon)
<1>1. S!IInv /\ LinkTypes /\ Numbered(Queue, submitted) /\ UpInOrder
  BY DEF LinkInv
<1>2. /\ toDaemon \in Seq(Frame) /\ toDaemon # <<>> /\ CountSubmission
      /\ SendNumber \in SeqNumbers /\ expected \in SeqNumbers
      /\ submitted \in Nat /\ Released \in Nat
      /\ received \in Nat /\ offered \in Nat /\ confirmed \in Nat
  BY LinkTyped DEF ReceiveFrame
<1>3. /\ frame \in Frame /\ Tail(toDaemon) \in Seq(Frame) /\ Len(Tail(toDaemon)) <= MaxLine
      /\ frame.type \in {"I", "RR", "RNR", "TEST"}
      /\ frame.type = "I" => frame.payload > 0 /\ frame.ns = (frame.payload - 1) % SeqModulus
  <2>1. Len(toDaemon) \in Nat /\ MaxLine \in Nat /\ Len(toDaemon) <= MaxLine
    BY <1>1, <1>2, LinkTyped DEF LinkTypes
  <2> QED
    BY <1>1, <1>2, <2>1, TailFacts DEF UpInOrder
<1>4. /\ toDaemon' = Tail(toDaemon)
      /\ toDevice' = toDevice
      /\ UNCHANGED <<restarts, deviceVars>>
  BY DEF ReceiveFrame
<1>5. S!InterpretDeserializedFrame(frame)
  BY FrameAgrees DEF ReceiveFrame
<1> HIDE DEF frame
<1>6. S!IInv'
  BY <1>2, <1>3, <1>5, StationInv
<1>7. frame.type = "I" => /\ frame.payload \in received..offered
                          /\ InOrder(Tail(toDaemon), frame.payload, offered)
                          /\ frame.payload \in Nat /\ frame.payload # NoPayload
  <2>1. frame.type = "I" => /\ frame.payload \in received..offered
                            /\ InOrder(Tail(toDaemon), frame.payload, offered)
    BY <1>1, <1>2, InOrderFacts DEF UpInOrder, frame
  <2>2. frame.type = "I" => frame.payload \in 1..(MaxPackets + DevicePackets)
    <3>1. offered <= DevicePackets /\ DevicePackets \in Nat /\ MaxPackets \in Nat
      BY <1>1, LinkTyped DEF LinkTypes
    <3>2. frame.type = "I" => frame.payload \in Nat /\ frame.payload > 0 /\ frame.payload <= offered
      BY <1>2, <1>3, <2>1
    <3> QED
      BY <1>2, <3>1, <3>2
  <2> QED
    BY <1>2, <2>1, <2>2, ConstantsAssumption
<1>8. PICK queue:
        /\ S!Moved(IF frame.type = "TEST" THEN SendNumber ELSE frame.nr,
                   IF frame.type = "I" THEN S!Succ(frame.ns) ELSE ReceiveNumber,
                   queue, ps.m_SendBuffer)
        /\ S!Popped(ps, frame.nr, queue)
        /\ frame.type = "TEST" => queue = Queue
  BY <1>1, <1>3, <1>5, <1>7, StationConstants, StatesAgree, S!FrameSeen
  DEF Frame, SendNumber, ReceiveNumber, Queue
<1>9. ps.m_bStarted /\ ps'.m_bStarted
  BY <1>1, <1>3, <1>5, StationConstants, StatesAgree, S!FrameSeen DEF Frame
<1>10. \/ queue = Queue
       \/ /\ Queue # <<>> /\ queue = Tail(Queue)
          /\ frame.nr = Succ(SendNumber) /\ frame.type # "TEST"
  BY <1>8 DEF S!Popped, S!Succ, Succ, SendNumber, Queue
<1>11. Queued(submitted - Len(queue))
  BY <1>2, <1>8, <1>10, SubmissionCounted
<1>12. /\ LineMoved
       /\ SendNumber' = IF frame.type = "TEST" THEN SendNumber ELSE frame.nr
       /\ ReceiveNumber' = IF frame.type = "I" THEN Succ(frame.ns) ELSE ReceiveNumber
  BY <1>4, <1>8, MovedLine DEF S!Succ, Succ
<1>13. received' = IF frame.type = "I" THEN frame.payload ELSE received
  BY <1>9 DEF ReceiveFrame, frame
<1>14. received' \in received..offered /\ received' \in Nat
  BY <1>1, <1>2, <1>7, <1>13 DEF UpInOrder
<1>15. DownInOrder'
  BY <1>4, <1>6, <1>11, <1>12, DownKept DEF deviceVars
<1>16. UpInOrder'
  <2>1. InOrder(Tail(toDaemon), received', offered)
    BY <1>1, <1>2, <1>7, <1>13, InOrderFacts DEF UpInOrder
  <2>2. \A i \in DOMAIN Tail(toDaemon): i + 1 \in DOMAIN toDaemon /\ Tail(toDaemon)[i] = toDaemon[i + 1]
    BY <1>2, TailFacts
  <2> QED
    BY <1>1, <1>4, <1>14, <2>1, <2>2 DEF UpInOrder, deviceVars
<1>17. LinkTypes'
  <2>1. submitted' \in 0..MaxPackets
    BY <1>2, <1>11, ConstantsAssumption DEF Queued
  <2> QED
    BY <1>1, <1>3, <1>4, <1>14, <2>1
    DEF LinkTypes, deviceVars, SeqNumbers, Frame, Station!Frame, Station!FrameTypes, Station!SeqNumbers
<1>18. restarts = 0 => NumbersMoved(submitted - Len(queue)) /\ received' \in {received, received + 1}
  <2> SUFFICES ASSUME restarts = 0
               PROVE  NumbersMoved(submitted - Len(queue)) /\ received' \in {received, received + 1}
    OBVIOUS
  <2>1. Synchronised
    BY DEF LinkInv
  <2>2. received' \in {received, received + 1} /\ (received' # received => received = confirmed)
    BY <1>1, <1>2, <1>14, <2>1 DEF UpInOrder, Synchronised
  <2>3. ReceiveNumber' = received' % SeqModulus
    <3>1. CASE frame.type = "I"
      <4>1. frame.payload - 1 \in Nat /\ frame.payload - 1 + 1 = frame.payload
        BY <1>3, <1>7, <3>1
      <4>2. frame.payload % SeqModulus = Succ((frame.payload - 1) % SeqModulus)
        BY <4>1, NextNumber
      <4> QED
        BY <1>3, <1>12, <1>13, <3>1, <4>2
    <3>2. CASE frame.type # "I"
      BY <1>12, <1>13, <2>1, <3>2 DEF Synchronised
    <3> QED
      BY <3>1, <3>2
  <2>4. confirmed <= received'
    BY <1>2, <1>14, <2>1 DEF Synchronised
  <2>5. ReceiveNumbers(OnLine, AckTypes, confirmed % SeqModulus, received' % SeqModulus)
    <3>1. CASE received' = received
      BY <2>1, <3>1 DEF Synchronised
    <3>2. CASE received' # received
      BY <2>1, <2>2, <3>2, LinkTyped, ReceiveNumbersFacts DEF Synchronised
    <3> QED
      BY <3>1, <3>2
  <2>6. frame.type # "TEST" => frame.nr \in {SendNumber, expected}
    BY <1>2, <1>3, <2>1, ReceiveNumbersFacts DEF Synchronised, AnswerTypes, frame
  <2>7. ReceiveNumbers(toDaemon', AnswerTypes, SendNumber', expected)
    <3>1. ReceiveNumbers(Tail(toDaemon), AnswerTypes, SendNumber, expected)
      BY <1>2, <2>1, ReceiveNumbersFacts DEF Synchronised
    <3>2. frame.type # "TEST" /\ frame.nr = expected
            => ReceiveNumbers(Tail(toDaemon), AnswerTypes, expected, expected)
      BY <1>2, <1>3, <2>1, ReceiveNumbersFacts DEF Synchronised, AnswerTypes, frame
    <3> QED
      BY <1>4, <1>12, <2>6, <3>1, <3>2
  <2>8. \/ SendNumber' = SendNumber /\ submitted - Len(queue) = Released
        \/ SendNumber' = expected /\ (submitted - Len(queue) = Released \/ expected # SendNumber)
    <3>1. CASE queue = Queue
      BY <1>12, <2>6, <3>1 DEF Released
    <3>2. CASE frame.nr = Succ(SendNumber) /\ frame.type # "TEST"
      BY <1>2, <1>12, <2>6, <3>2, NumberFacts
    <3> QED
      BY <1>10, <3>1, <3>2
  <2> QED
    BY <1>4, <1>9, <1>11, <2>2, <2>3, <2>4, <2>5, <2>7, <2>8 DEF NumbersMoved, deviceVars
<1>19. restarts = 0 => Synchronised'
  BY <1>6, <1>12, <1>18, SynchronisedKept DEF LinkInv
<1>20. LinkInv'
  BY <1>4, <1>6, <1>11, <1>15, <1>16, <1>17, <1>19 DEF LinkInv, Queued
<1>21. DownStep
  BY <1>4, <1>11, <1>19, DownAccepts DEF deviceVars
<1>22. UpStep
  <2>1. UNCHANGED (restarts > 0) /\ UNCHANGED <<offered, confirmed>>
    BY <1>4 DEF deviceVars
  <2>2. CASE received' = received
    BY <2>1, <2>2 DEF UpStep, DeviceStream!streamVars
  <2>3. CASE received' # received /\ restarts = 0
    <3>1. received < offered /\ received' = received + 1
      BY <1>2, <1>14, <1>18, <2>3
    <3>2. ~(restarts > 0)
      BY <2>3
    <3> QED
      BY <2>1, <3>1, <3>2 DEF UpStep, DeviceStream!Next, DeviceStream!Deliver
  <2>4. CASE restarts # 0
    <3>1. restarts > 0
      BY <1>1, <2>4, ConstantsAssumption DEF LinkTypes
    <3>2. confirmed <= offered
      BY <1>1 DEF UpInOrder
    <3> QED
      BY <1>2, <1>14, <2>1, <3>1, <3>2 DEF UpStep, DeviceStream!Next, DeviceStream!AfterSuspension
  <2> QED
    BY <2>2, <2>3, <2>4
<1> QED
  BY <1>20, <1>21, <1>22

-----------------------------------------------------------------------------
(* The steps of the line and of the device.                                *)

StationStill == UNCHANGED <<stationVars, submitted, received, restarts>>

(* The station has no part in them.                                        *)
LEMMA StillFacts ==
  ASSUME LinkInv, StationStill
  PROVE  /\ S!IInv' /\ Numbered(Queue, submitted)'
         /\ UNCHANGED <<ps, Queue, Released, Latest, SendNumber, ReceiveNumber, (restarts > 0)>>
         /\ UNCHANGED <<submitted, received, restarts>>
<1>1. UNCHANGED <<ps, submitted, received, restarts>>
  BY DEF StationStill, stationVars
<1>2. UNCHANGED Queue
  BY <1>1 DEF Queue
<1>3. UNCHANGED <<Released, Latest, SendNumber, ReceiveNumber>>
  BY <1>1, <1>2 DEF Released, Latest, SendNumber, ReceiveNumber
<1>4. UNCHANGED (restarts > 0)
  BY <1>1
<1>5. UNCHANGED (IF submitted < MaxPackets THEN {[payload |-> submitted + 1, reliable |-> TRUE]} ELSE {})
  BY <1>1
<1>6. S!IInv /\ Numbered(Queue, submitted)
  BY DEF LinkInv
<1>7. UNCHANGED S!vars
  BY <1>5 DEF S!vars, S!portVars, S!aliveVars, StationStill, stationVars
<1>8. S!IInv'
  BY <1>6, <1>7, StationConstants, S!UnchangedInv
<1>9. Numbered(Queue, submitted)'
  BY <1>1, <1>2, <1>6
<1> QED
  BY <1>1, <1>2, <1>3, <1>4, <1>8, <1>9

(* A frame leaves the line to the device.                                  *)
LEMMA OnLineShrinks ==
  ASSUME LinkInv, ps' = ps, toDevice # <<>>, toDevice' = Tail(toDevice)
  PROVE  /\ OnLine # <<>> /\ OnLine' = Tail(OnLine) /\ Head(OnLine) = Head(toDevice)
         /\ 1 \in DOMAIN OnLine /\ OnLine[1] = Head(toDevice) /\ Head(toDevice) \in Frame
         /\ \A i \in DOMAIN OnLine': i + 1 \in DOMAIN OnLine /\ OnLine'[i] = OnLine[i + 1]
         /\ toDevice' \in Seq(Frame) /\ Len(toDevice') <= MaxLine
<1>1. OnLine \in Seq(Frame) /\ toDevice \in Seq(Frame) /\ ps.m_SendBuffer \in Frame /\ MaxLine \in Nat
  BY LinkTyped
<1>2. Len(toDevice) <= MaxLine
  BY DEF LinkInv, LinkTypes
<1>3. OnLine # <<>> /\ Tail(OnLine) = Append(Tail(toDevice), ps.m_SendBuffer) /\ Head(OnLine) = Head(toDevice)
  BY <1>1 DEF OnLine
<1>4. OnLine' = Tail(OnLine)
  BY <1>3 DEF OnLine
<1>5. toDevice' \in Seq(Frame) /\ Len(toDevice') <= MaxLine
  BY <1>1, <1>2
<1> QED
  BY <1>1, <1>3, <1>4, <1>5, TailFacts

(* A frame is lost.                                                        *)
LEMMA LoseFrameStep ==
  ASSUME LinkInv, LoseFrame
  PROVE  LinkInv' /\ DownStep /\ UpStep
<1>1. /\ OnLine \in Seq(Frame) /\ toDaemon \in Seq(Frame) /\ toDevice \in Seq(Frame)
      /\ delivered \in Nat /\ Latest \in Nat /\ received \in Nat /\ offered \in Nat
      /\ MaxLine \in Nat
      /\ LinkTypes /\ DownInOrder /\ UpInOrder /\ (restarts = 0 => Synchronised)
  BY LinkTyped DEF LinkInv
<1>2. StationStill /\ UNCHANGED deviceVars
  BY DEF LoseFrame, StationStill
<1>3. /\ S!IInv' /\ Numbered(Queue, submitted)'
      /\ UNCHANGED <<ps, Queue, Released, Latest, SendNumber, ReceiveNumber, (restarts > 0)>>
      /\ UNCHANGED <<submitted, received, restarts>>
      /\ UNCHANGED <<expected, busy, delivered, offered, confirmed>>
  BY <1>2, StillFacts DEF deviceVars
<1>4. DownStep /\ UpStep
  BY <1>3 DEF DownStep, UpStep, Stream!streamVars, DeviceStream!streamVars, Released
<1>5. CASE toDevice # <<>> /\ toDevice' = Tail(toDevice) /\ UNCHANGED toDaemon
  <2>1. /\ OnLine # <<>> /\ OnLine' = Tail(OnLine)
        /\ \A i \in DOMAIN OnLine': i + 1 \in DOMAIN OnLine /\ OnLine'[i] = OnLine[i + 1]
        /\ toDevice' \in Seq(Frame) /\ Len(toDevice') <= MaxLine
    BY <1>3, <1>5, OnLineShrinks
  <2>2. LinkTypes' /\ UpInOrder'
    BY <1>1, <1>3, <1>5, <2>1 DEF LinkTypes, UpInOrder, InOrder, SeqNumbers, Frame, Station!Frame,
       Station!FrameTypes, Station!SeqNumbers
  <2>3. DownInOrder'
    BY <1>1, <1>3, <2>1, InOrderFacts DEF DownInOrder
  <2>4. restarts = 0 => Synchronised'
    <3> SUFFICES ASSUME restarts = 0 PROVE Synchronised'
      OBVIOUS
    <3>1. Synchronised
      BY <1>1
    <3>2. Waited' /\ OnlyHeadIsNew'
      BY <1>3, <2>1, <3>1 DEF Synchronised, Waited, OnlyHeadIsNew
    <3>3. SendNumbers(Tail(OnLine), Pred(expected), expected)
      BY <1>1, <2>1, <3>1, SendNumbersFacts DEF Synchronised
    <3>4. ReceiveNumbers(Tail(OnLine), AckTypes, confirmed % SeqModulus, received % SeqModulus)
      BY <1>1, <2>1, <3>1, ReceiveNumbersFacts DEF Synchronised
    <3> QED
      BY <1>3, <1>5, <2>1, <3>1, <3>2, <3>3, <3>4 DEF Synchronised
  <2> QED
    BY <1>3, <1>4, <2>2, <2>3, <2>4 DEF LinkInv
<1>6. CASE toDaemon # <<>> /\ toDaemon' = Tail(toDaemon) /\ UNCHANGED toDevice
  <2>1. /\ toDaemon' \in Seq(Frame) /\ Len(toDaemon') <= MaxLine
        /\ \A i \in DOMAIN toDaemon': i + 1 \in DOMAIN toDaemon /\ toDaemon'[i] = toDaemon[i + 1]
    BY <1>1, <1>6, TailFacts DEF LinkTypes
  <2>2. UNCHANGED OnLine
    BY <1>3, <1>6 DEF OnLine
  <2>3. LinkTypes'
    BY <1>1, <1>3, <1>6, <2>1 DEF LinkTypes, SeqNumbers, Frame, Station!Frame,
       Station!FrameTypes, Station!SeqNumbers
  <2>4. DownInOrder'
    BY <1>1, <1>3, <2>2 DEF DownInOrder
  <2>5. UpInOrder'
    <3>1. InOrder(toDaemon', received, offered)
      BY <1>1, <1>6, InOrderFacts DEF UpInOrder
    <3> QED
      BY <1>1, <1>3, <2>1, <3>1 DEF UpInOrder
  <2>6. restarts = 0 => Synchronised'
    <3> SUFFICES ASSUME restarts = 0 PROVE Synchronised'
      OBVIOUS
    <3>1. Synchronised
      BY <1>1
    <3>2. Waited' /\ OnlyHeadIsNew'
      BY <1>3, <2>2, <3>1 DEF Synchronised, Waited, OnlyHeadIsNew
    <3>3. ReceiveNumbers(toDaemon', AnswerTypes, SendNumber, expected)
      BY <1>1, <1>6, <3>1, ReceiveNumbersFacts DEF Synchronised
    <3> QED
      BY <1>3, <2>2, <3>1, <3>2, <3>3 DEF Synchronised
  <2> QED
    BY <1>3, <1>4, <2>3, <2>4, <2>5, <2>6 DEF LinkInv
<1> QED
  BY <1>5, <1>6 DEF LoseFrame

\* What may be on the line from the device.
OfDevice(frame) ==
  /\ frame.type \in {"I", "RR", "RNR", "TEST"}
  /\ frame.type = "I" => frame.payload > 0 /\ frame.ns = (frame.payload - 1) % SeqModulus

(* The device sends a frame.                                               *)
LEMMA ReplyFacts ==
  ASSUME LinkInv, NEW frame \in Frame, Reply(frame), OfDevice(frame),
         NEW top \in Nat, offered <= top, frame.type = "I" => frame.payload = top
  PROVE  /\ toDaemon' \in Seq(Frame) /\ Len(toDaemon') <= MaxLine
         /\ toDaemon' = Append(toDaemon, frame)
         /\ InOrder(toDaemon', received, top)
         /\ \A i \in DOMAIN toDaemon': OfDevice(toDaemon'[i])
<1>1. /\ toDaemon \in Seq(Frame) /\ received \in Nat /\ offered \in Nat /\ MaxLine \in Nat
      /\ UpInOrder /\ LinkTypes
  BY LinkTyped DEF LinkInv
<1>2. toDaemon' = Append(toDaemon, frame) /\ Len(toDaemon) < MaxLine
  BY DEF Reply
<1>3. /\ toDaemon' \in Seq(Frame) /\ Len(toDaemon') <= MaxLine
      /\ \A i \in DOMAIN toDaemon': (i \in DOMAIN toDaemon /\ toDaemon'[i] = toDaemon[i]) \/ toDaemon'[i] = frame
  <2>1. toDaemon' \in Seq(Frame) /\ Len(toDaemon') <= MaxLine
    BY <1>1, <1>2
  <2>2. \A i \in DOMAIN toDaemon': (i \in DOMAIN toDaemon /\ toDaemon'[i] = toDaemon[i]) \/ toDaemon'[i] = frame
    BY <1>1, <1>2, AppendFacts
  <2> QED
    BY <2>1, <2>2
<1>4. InOrder(toDaemon', received, top)
  BY <1>1, <1>2, InOrderFacts DEF UpInOrder
<1>5. \A i \in DOMAIN toDaemon: OfDevice(toDaemon[i])
  BY <1>1 DEF UpInOrder, OfDevice
<1> QED
  BY <1>2, <1>3, <1>4, <1>5

(* A supervisory frame of the device.                                      *)
LEMMA ReadyFacts ==
  ASSUME NEW isBusy \in BOOLEAN, NEW nr \in SeqNumbers
  PROVE  LET frame == Ready(isBusy, nr)
         IN frame \in Frame /\ frame.type \in {"RR", "RNR"} /\ frame.nr = nr /\ OfDevice(frame)
<1>1. /\ Station!UnsetFrame \in Frame /\ 0 \in SeqNumbers
  BY NumberFacts DEF Station!UnsetFrame, Frame, Station!Frame, Station!FrameTypes,
     Station!SeqNumbers, SeqNumbers
<1>2. Ready(isBusy, nr) \in Frame
  BY <1>1 DEF Ready, Station!UnsetFrame, Frame, Station!Frame, Station!FrameTypes,
     Station!SeqNumbers, SeqNumbers
<1> QED
  BY <1>2 DEF Ready, Station!UnsetFrame, OfDevice

(* The device only answers: nothing it sends changes the numbers.          *)
LEMMA DeviceTalks ==
  ASSUME LinkInv, StationStill, UNCHANGED <<toDevice, expected, delivered, confirmed>>,
         busy' \in BOOLEAN, offered' \in Nat, offered' <= DevicePackets,
         offered <= offered', offered' <= confirmed + 1,
         NEW frame \in Frame, Reply(frame), OfDevice(frame), frame.type \in AnswerTypes,
         frame.nr = expected, frame.type = "I" => frame.payload = offered'
  PROVE  LinkInv' /\ DownStep /\ UpStep
<1>1. /\ OnLine \in Seq(Frame) /\ toDaemon \in Seq(Frame)
      /\ received \in Nat /\ offered \in Nat /\ confirmed \in Nat
      /\ LinkTypes /\ DownInOrder /\ UpInOrder /\ (restarts = 0 => Synchronised)
  BY LinkTyped DEF LinkInv
<1>2. /\ S!IInv' /\ Numbered(Queue, submitted)'
      /\ UNCHANGED <<ps, Queue, Released, Latest, SendNumber, ReceiveNumber, (restarts > 0)>>
      /\ UNCHANGED <<submitted, received, restarts>>
  BY StillFacts
<1>3. /\ toDaemon' \in Seq(Frame) /\ Len(toDaemon') <= MaxLine
      /\ toDaemon' = Append(toDaemon, frame)
      /\ InOrder(toDaemon', received, offered')
      /\ \A i \in DOMAIN toDaemon': OfDevice(toDaemon'[i])
  BY ReplyFacts
<1>4. LinkTypes'
  BY <1>1, <1>2, <1>3 DEF LinkTypes, SeqNumbers, Frame, Station!Frame,
     Station!FrameTypes, Station!SeqNumbers
<1>5. UNCHANGED OnLine
  BY <1>2 DEF OnLine
<1>6. DownInOrder'
  BY <1>1, <1>2, <1>5 DEF DownInOrder
<1>7. UpInOrder'
  <2>1. received <= offered' /\ confirmed <= offered'
    BY <1>1 DEF UpInOrder
  <2> QED
    BY <1>2, <1>3, <2>1 DEF UpInOrder, OfDevice
<1>8. restarts = 0 => Synchronised'
  <2> SUFFICES ASSUME restarts = 0 PROVE Synchronised'
    OBVIOUS
  <2>1. Synchronised
    BY <1>1
  <2>2. Waited' /\ OnlyHeadIsNew'
    BY <1>2, <1>5, <2>1 DEF Synchronised, Waited, OnlyHeadIsNew
  <2>3. ReceiveNumbers(toDaemon', AnswerTypes, SendNumber, expected)
    BY <1>1, <1>3, <2>1, ReceiveNumbersFacts DEF Synchronised
  <2> QED
    BY <1>2, <1>5, <2>1, <2>2, <2>3 DEF Synchronised
<1>9. LinkInv'
  BY <1>2, <1>4, <1>6, <1>7, <1>8 DEF LinkInv
<1>10. DownStep
  BY <1>2 DEF DownStep, Stream!streamVars, Released
<1>11. UpStep
  <2>1. offered' \in {offered, offered + 1} /\ confirmed <= offered
    BY <1>1 DEF UpInOrder
  <2>2. CASE restarts = 0
    <3>1. ~(restarts > 0) /\ confirmed <= received
      BY <1>1, <2>2 DEF Synchronised
    <3> QED
      BY <1>1, <1>2, <2>1, <3>1 DEF UpStep, DeviceStream!Next, DeviceStream!AcceptOrRelease
  <2>3. CASE restarts # 0
    <3>1. restarts > 0
      BY <1>1, <2>3, ConstantsAssumption DEF LinkTypes
    <3>2. received \in received..offered
      BY <1>1 DEF UpInOrder
    <3> QED
      BY <1>1, <1>2, <2>1, <3>1, <3>2 DEF UpStep, DeviceStream!Next, DeviceStream!AfterSuspension
  <2> QED
    BY <2>2, <2>3
<1> QED
  BY <1>9, <1>10, <1>11

(* The device changes its RNR condition.                                   *)
LEMMA DeviceFlowStep ==
  ASSUME LinkInv, DeviceChangesFlow
  PROVE  LinkInv' /\ DownStep /\ UpStep
<1> DEFINE frame == Ready(busy', expected)
<1>1. /\ expected \in SeqNumbers /\ offered \in Nat /\ LinkTypes
      /\ offered <= DevicePackets /\ offered <= confirmed + 1
  BY LinkTyped DEF LinkInv, LinkTypes, UpInOrder
<1>2. busy' \in BOOLEAN /\ Reply(frame)
  BY <1>1 DEF DeviceChangesFlow, LinkTypes
<1>3. frame \in Frame /\ frame.type \in {"RR", "RNR"} /\ frame.nr = expected /\ OfDevice(frame)
  BY <1>1, <1>2, ReadyFacts
<1>4. StationStill /\ UNCHANGED <<toDevice, expected, delivered, confirmed, offered>>
  BY DEF DeviceChangesFlow, StationStill
<1> HIDE DEF frame
<1> QED
  BY <1>1, <1>2, <1>3, <1>4, DeviceTalks DEF AnswerTypes

(* The device sends a packet, or repeats it.                               *)
LEMMA DeviceTransmitsStep ==
  ASSUME LinkInv, NEW packet, DeviceTransmits(packet),
         \/ confirmed = offered /\ offered < DevicePackets /\ packet = offered + 1
         \/ confirmed < offered /\ packet = offered
  PROVE  LinkInv' /\ DownStep /\ UpStep
<1> DEFINE frame == [Station!UnsetFrame EXCEPT !.type = "I", !.ns = (packet - 1) % SeqModulus,
                                               !.nr = expected, !.payload = packet]
<1>1. /\ expected \in SeqNumbers /\ offered \in Nat /\ confirmed \in Nat /\ DevicePackets \in Nat
      /\ MaxPackets \in Nat
      /\ LinkTypes /\ offered <= DevicePackets /\ confirmed <= offered /\ offered <= confirmed + 1
  BY LinkTyped DEF LinkInv, LinkTypes, UpInOrder
<1>2. /\ packet \in 1..(MaxPackets + DevicePackets) /\ packet <= DevicePackets /\ packet - 1 \in Nat
      /\ offered <= packet /\ packet <= confirmed + 1 /\ packet \in Nat /\ packet > 0
  BY <1>1
<1>3. (packet - 1) % SeqModulus \in SeqNumbers /\ 0 \in SeqNumbers
  BY <1>2, NumberFacts
<1>4. /\ Reply(frame) /\ offered' = packet
      /\ StationStill /\ UNCHANGED <<toDevice, expected, delivered, confirmed, busy>>
  BY DEF DeviceTransmits, StationStill
<1>5. /\ frame.type = "I" /\ frame.nr = expected /\ frame.payload = packet
      /\ frame.ns = (packet - 1) % SeqModulus
  BY DEF Station!UnsetFrame
<1>6. frame \in Frame
  BY <1>1, <1>2, <1>3 DEF Station!UnsetFrame, Frame, Station!Frame, Station!FrameTypes,
     Station!SeqNumbers, SeqNumbers
<1> HIDE DEF frame
<1>7. OfDevice(frame)
  BY <1>2, <1>5 DEF OfDevice
<1>8. busy' \in BOOLEAN
  BY <1>1, <1>4 DEF LinkTypes
<1> QED
  BY <1>2, <1>4, <1>5, <1>6, <1>7, <1>8, DeviceTalks DEF AnswerTypes

(* The device takes a frame from the line: it accepts the packet it        *)
(* expects, and learns that its own was accepted.                          *)
LEMMA DeviceReceiveStep ==
  ASSUME LinkInv, NEW type \in {"I", "RR", "SREJ", "TEST"}, DeviceReceive(type)
  PROVE  LinkInv' /\ DownStep /\ UpStep
<1> DEFINE head == Head(toDevice)
           accepts == type = "I" /\ ~busy /\ head.ns = expected
           confirms == /\ type \in AckTypes /\ confirmed < offered
                       /\ head.nr = (confirmed + 1) % SeqModulus
<1>1. /\ OnLine \in Seq(Frame) /\ toDaemon \in Seq(Frame)
      /\ Released \in Nat /\ Latest \in Nat /\ Latest <= submitted /\ submitted \in Nat
      /\ delivered \in Nat /\ received \in Nat /\ offered \in Nat /\ confirmed \in Nat
      /\ SendNumber \in SeqNumbers /\ expected \in SeqNumbers
      /\ LinkTypes /\ DownInOrder /\ UpInOrder /\ (restarts = 0 => Synchronised)
  BY LinkTyped DEF LinkInv
<1>2. /\ toDevice # <<>> /\ toDevice' = Tail(toDevice) /\ head.type = type
      /\ StationStill /\ UNCHANGED <<busy, offered>>
  BY DEF DeviceReceive, StationStill
<1>3. /\ expected' = IF accepts THEN Succ(expected) ELSE expected
      /\ delivered' = IF accepts THEN head.payload ELSE delivered
      /\ confirmed' = IF confirms THEN confirmed + 1 ELSE confirmed
  BY DEF DeviceReceive, Succ, AckTypes
<1>4. /\ S!IInv' /\ Numbered(Queue, submitted)'
      /\ UNCHANGED <<ps, Queue, Released, Latest, SendNumber, ReceiveNumber, (restarts > 0)>>
      /\ UNCHANGED <<submitted, received, restarts>>
  BY <1>2, StillFacts
<1>5. /\ OnLine # <<>> /\ OnLine' = Tail(OnLine) /\ Head(OnLine) = head
      /\ 1 \in DOMAIN OnLine /\ OnLine[1] = head /\ head \in Frame
      /\ \A i \in DOMAIN OnLine': i + 1 \in DOMAIN OnLine /\ OnLine'[i] = OnLine[i + 1]
      /\ toDevice' \in Seq(Frame) /\ Len(toDevice') <= MaxLine
  BY <1>2, <1>4, OnLineShrinks
<1>6. expected' \in SeqNumbers
  BY <1>1, <1>3, NumberFacts
<1>7. \/ toDaemon' = toDaemon
      \/ \E frame \in Frame: /\ Reply(frame) /\ OfDevice(frame) /\ frame.type # "I"
                             /\ frame.type \in AnswerTypes => frame.nr = expected'
  <2>1. CASE type = "TEST" /\ Reply(head)
    BY <1>2, <1>5, <2>1 DEF OfDevice, AnswerTypes
  <2>2. CASE Reply(Ready(busy, expected'))
    <3>1. busy \in BOOLEAN
      BY <1>1 DEF LinkTypes
    <3> QED
      BY <1>6, <2>2, <3>1, ReadyFacts
  <2> QED
    BY <2>1, <2>2 DEF DeviceReceive
<1> HIDE DEF head, accepts, confirms
<1>8. /\ toDaemon' \in Seq(Frame) /\ Len(toDaemon') <= MaxLine
      /\ InOrder(toDaemon', received, offered)
      /\ \A i \in DOMAIN toDaemon': OfDevice(toDaemon'[i])
  <2>1. CASE toDaemon' = toDaemon
    BY <1>1, <2>1 DEF UpInOrder, LinkTypes, OfDevice
  <2>2. CASE toDaemon' # toDaemon
    <3>1. PICK frame \in Frame: Reply(frame) /\ OfDevice(frame) /\ frame.type # "I"
      BY <1>7, <2>2
    <3>2. offered <= offered
      BY <1>1
    <3> QED
      BY <1>1, <3>1, <3>2, ReplyFacts
  <2> QED
    BY <2>1, <2>2
<1>9. accepts => /\ head.type = "I" /\ head.ns = expected
                 /\ head.payload \in delivered..Latest /\ head.payload \in Nat
                 /\ InOrder(OnLine', head.payload, Latest)
  <2>1. accepts => head.type = "I" /\ head.ns = expected
    BY <1>2 DEF accepts
  <2>2. head.type = "I" => head.payload \in delivered..Latest /\ InOrder(OnLine', head.payload, Latest)
    BY <1>1, <1>5, InOrderFacts DEF DownInOrder
  <2> QED
    BY <1>1, <2>1, <2>2
<1>10. confirms => head.type \in AckTypes /\ head.nr = Succ(confirmed % SeqModulus) /\ confirmed < offered
  BY <1>1, <1>2, NextNumber DEF confirms
<1>11. delivered' \in Nat /\ delivered' \in delivered..Latest /\ InOrder(OnLine', delivered', Latest)
  <2>1. InOrder(OnLine', delivered, Latest) /\ delivered \in delivered..Latest
    BY <1>1, <1>5, InOrderFacts DEF DownInOrder
  <2> QED
    BY <1>1, <1>3, <1>9, <2>1
<1>12. DownInOrder'
  BY <1>1, <1>4, <1>11 DEF DownInOrder
<1>13. confirmed' \in Nat /\ confirmed' \in {confirmed, confirmed + 1} /\ confirmed' <= offered
       /\ confirmed <= confirmed'
  BY <1>1, <1>3, <1>10 DEF UpInOrder
<1>14. LinkTypes'
  BY <1>1, <1>2, <1>4, <1>5, <1>6, <1>8, <1>11, <1>13
  DEF LinkTypes, SeqNumbers, Frame, Station!Frame, Station!FrameTypes, Station!SeqNumbers
<1>15. UpInOrder'
  BY <1>1, <1>2, <1>4, <1>8, <1>13 DEF UpInOrder, OfDevice
<1>16. ASSUME restarts = 0
       PROVE  /\ Synchronised'
              /\ delivered' \in {delivered, delivered + 1}
              /\ confirmed' <= received
  <2>1. Synchronised
    BY <1>1, <1>16
  <2>2. accepts => expected = SendNumber /\ head.payload = Released + 1 /\ expected' = Succ(SendNumber)
    BY <1>3, <1>5, <1>9, <2>1 DEF Synchronised, OnlyHeadIsNew
  <2>3. delivered' \in {delivered, delivered + 1}
    BY <1>1, <1>3, <1>9, <2>1, <2>2 DEF Synchronised, Waited
  <2>4. Waited'
    BY <1>3, <1>4, <2>1, <2>2 DEF Synchronised, Waited
  <2>5. SendNumbers(OnLine', Pred(expected'), expected') /\ OnlyHeadIsNew'
    <3>1. CASE accepts
      <4>1. SendNumbers(OnLine', expected, expected)
        BY <1>1, <1>5, <1>9, <2>1, <3>1, SendNumbersFacts DEF Synchronised
      <4>2. Pred(expected') = expected /\ expected' # expected
        BY <1>1, <1>3, <3>1, NumberFacts
      <4>3. OnLine' \in Seq(Frame)
        BY <1>1, <1>5, TailFacts
      <4>4. SendNumbers(OnLine', expected, expected')
        BY <4>1, <4>3, SendNumbersFacts
      <4> QED
        BY <4>1, <4>2, <4>4 DEF OnlyHeadIsNew, SendNumbers
    <3>2. CASE ~accepts
      <4>1. SendNumbers(Tail(OnLine), Pred(expected), expected)
        BY <1>1, <1>5, <2>1, SendNumbersFacts DEF Synchronised
      <4>2. OnlyHeadIsNew'
        BY <1>3, <1>4, <1>5, <2>1, <3>2 DEF Synchronised, OnlyHeadIsNew
      <4> QED
        BY <1>3, <1>5, <3>2, <4>1, <4>2
    <3> QED
      BY <3>1, <3>2
  <2>6. ReceiveNumbers(toDaemon', AnswerTypes, SendNumber, expected')
    <3>1. ReceiveNumbers(toDaemon, AnswerTypes, SendNumber, expected')
      BY <1>1, <1>3, <2>1, <2>2, ReceiveNumbersFacts DEF Synchronised
    <3>2. CASE toDaemon' # toDaemon
      <4>1. PICK frame \in Frame: Reply(frame) /\ (frame.type \in AnswerTypes => frame.nr = expected')
        BY <1>7, <3>2
      <4>2. toDaemon' = Append(toDaemon, frame)
        BY <4>1 DEF Reply
      <4> QED
        BY <1>1, <3>1, <4>1, <4>2, ReceiveNumbersFacts
    <3> QED
      BY <3>1, <3>2
  <2>7. /\ confirmed' <= received
        /\ ReceiveNumbers(OnLine', AckTypes, confirmed' % SeqModulus, received % SeqModulus)
    <3>1. CASE confirms
      <4>1. head.nr \in {confirmed % SeqModulus, received % SeqModulus}
        BY <1>1, <1>5, <1>10, <2>1, <3>1, ReceiveNumbersFacts DEF Synchronised
      <4>2. head.nr # confirmed % SeqModulus
        BY <1>1, <1>10, <3>1, NumberFacts
      <4>3. received # confirmed /\ head.nr = received % SeqModulus
        BY <4>1, <4>2
      <4>4. confirmed' = received
        BY <1>1, <1>3, <2>1, <3>1, <4>3 DEF Synchronised, UpInOrder
      <4>5. ReceiveNumbers(OnLine', AckTypes, received % SeqModulus, received % SeqModulus)
        BY <1>1, <1>5, <1>10, <2>1, <3>1, <4>3, ReceiveNumbersFacts DEF Synchronised
      <4> QED
        BY <1>1, <4>4, <4>5
    <3>2. CASE ~confirms
      BY <1>1, <1>3, <1>5, <2>1, <3>2, ReceiveNumbersFacts DEF Synchronised
    <3> QED
      BY <3>1, <3>2
  <2> QED
    BY <1>4, <2>1, <2>3, <2>4, <2>5, <2>6, <2>7 DEF Synchronised
<1>17. LinkInv'
  BY <1>4, <1>12, <1>14, <1>15, <1>16 DEF LinkInv
<1>18. DownStep
  <2>1. Released <= submitted /\ UNCHANGED (submitted - Len(Queue))
    BY <1>4, LinkTyped DEF Released
  <2>2. CASE delivered' = delivered
    BY <1>4, <2>1, <2>2 DEF DownStep, Stream!streamVars
  <2>3. CASE delivered' # delivered /\ restarts = 0
    <3>1. delivered < submitted /\ delivered' = delivered + 1
      BY <1>1, <1>11, <1>16, <2>3
    <3>2. ~(restarts > 0)
      BY <2>3
    <3> QED
      BY <1>4, <2>1, <3>1, <3>2 DEF DownStep, Stream!Next, Stream!Deliver
  <2>4. CASE restarts # 0
    <3>1. restarts > 0
      BY <1>1, <2>4, ConstantsAssumption DEF LinkTypes
    <3>2. delivered' \in delivered..submitted
      BY <1>1, <1>11
    <3>3. submitted - Len(Queue) <= submitted
      BY <2>1 DEF Released
    <3>4. Stream!AfterSuspension
      BY <1>4, <2>1, <3>1, <3>2, <3>3 DEF Stream!AfterSuspension
    <3> QED
      BY <3>4 DEF DownStep, Stream!Next
  <2> QED
    BY <2>2, <2>3, <2>4
<1>19. UpStep
  <2>1. received <= offered /\ received \in received..offered
    BY <1>1 DEF UpInOrder
  <2>2. CASE restarts = 0
    <3>1. ~(restarts > 0)
      BY <2>2
    <3> QED
      BY <1>2, <1>4, <1>13, <1>16, <2>2, <3>1
      DEF UpStep, DeviceStream!Next, DeviceStream!AcceptOrRelease
  <2>3. CASE restarts # 0
    <3>1. restarts > 0
      BY <1>1, <2>3, ConstantsAssumption DEF LinkTypes
    <3> QED
      BY <1>2, <1>4, <1>13, <2>1, <3>1 DEF UpStep, DeviceStream!Next, DeviceStream!AfterSuspension
  <2> QED
    BY <2>2, <2>3
<1> QED
  BY <1>17, <1>18, <1>19

-----------------------------------------------------------------------------
(* Every step of the link preserves the inductive invariant, and is a step *)
(* of both streams or of none.                                             *)
LEMMA LinkStep == LinkInv /\ [Next]_vars => LinkInv' /\ DownStep /\ UpStep
<1> SUFFICES ASSUME LinkInv, [Next]_vars PROVE LinkInv' /\ DownStep /\ UpStep
  OBVIOUS
<1>1. CASE Next
  <2>1. CASE WriteFrame
    BY <1>1, <2>1, WriteFrameStep DEF Next
  <2>2. CASE ReceiveFrame
    BY <2>2, ReceiveFrameStep
  <2>3. CASE Submit
    BY <1>1, <2>3, SubmitStep DEF Next
  <2>4. CASE \E timer \in Timers: RunTimerHandler(timer) \/ ExpireTimer(timer)
    BY <1>1, <2>4, TimerSteps DEF Next
  <2>5. CASE Open
    BY <1>1, <2>5, OpenStep DEF Next
  <2>6. CASE Suspend
    BY <1>1, <2>6, SuspendStep DEF Next
  <2>7. CASE LoseFrame
    BY <2>7, LoseFrameStep
  <2>8. CASE \E type \in {"I", "RR", "SREJ", "TEST"}: DeviceReceive(type)
    BY <2>8, DeviceReceiveStep
  <2>9. CASE DeviceChangesFlow
    BY <2>9, DeviceFlowStep
  <2>10. CASE DeviceSends \/ DeviceRepeats
    BY <2>10, DeviceTransmitsStep DEF DeviceSends, DeviceRepeats
  <2> QED
    BY <1>1, <2>1, <2>2, <2>3, <2>4, <2>5, <2>6, <2>7, <2>8, <2>9, <2>10 DEF Next
<1>2. CASE UNCHANGED vars
  <2>1. /\ StationStill /\ UNCHANGED <<toDevice, toDaemon, deviceVars>>
    BY <1>2 DEF vars, StationStill
  <2>2. /\ S!IInv' /\ Numbered(Queue, submitted)'
        /\ UNCHANGED <<ps, Queue, Released, Latest, SendNumber, ReceiveNumber, (restarts > 0)>>
        /\ UNCHANGED <<submitted, received, restarts>>
        /\ UNCHANGED <<expected, busy, delivered, offered, confirmed>>
    BY <2>1, StillFacts DEF deviceVars
  <2>3. UNCHANGED OnLine
    BY <2>1, <2>2 DEF OnLine
  <2>4. LinkInv'
    BY <2>1, <2>2, <2>3
    DEF LinkInv, LinkTypes, DownInOrder, UpInOrder, InOrder, Synchronised, Waited, OnlyHeadIsNew,
        SeqNumbers, Frame, Station!Frame, Station!FrameTypes, Station!SeqNumbers
  <2> QED
    BY <2>2, <2>4 DEF DownStep, UpStep, Stream!streamVars, DeviceStream!streamVars, Released
<1> QED
  BY <1>1, <1>2

(* The link starts within the inductive invariant.                         *)
LEMMA LinkInit == Init => LinkInv /\ Stream!Init /\ DeviceStream!Init
<1> SUFFICES ASSUME Init PROVE LinkInv /\ Stream!Init /\ DeviceStream!Init
  OBVIOUS
<1>1. /\ submitted = 0 /\ restarts = 0 /\ toDevice = <<>> /\ toDaemon = <<>> /\ expected = 0
      /\ busy = FALSE /\ delivered = 0 /\ offered = 0 /\ confirmed = 0 /\ received = 0
      /\ S!InitStation
  BY StatesAgree DEF Init
<1>2. S!IInv
  <2>1. (IF submitted < MaxPackets THEN {[payload |-> submitted + 1, reliable |-> TRUE]} ELSE {})
          \subseteq S!DataPacket
    BY <1>1, OffersTyped
  <2> QED
    BY <1>1, <2>1, StationConstants, S!InitStationInv
<1>3. /\ Queue = <<>> /\ SendNumber = 0 /\ ReceiveNumber = 0 /\ ps.m_SendBuffer.type = "UNSET"
  BY <1>1 DEF S!InitStation, S!UnsetFrame, Queue, SendNumber, ReceiveNumber
<1>4. Released = 0 /\ Latest = 0 /\ Numbered(Queue, submitted)
  <2>1. Len(Queue) = 0 /\ Queue \in Seq(Nat) /\ DOMAIN Queue = {}
    BY <1>3
  <2>2. Released = 0
    BY <1>1, <2>1 DEF Released
  <2>3. Latest = 0
    BY <1>3, <2>2 DEF Latest
  <2> QED
    BY <1>1, <2>1, <2>2, <2>3 DEF Numbered
<1>5. \A i \in DOMAIN OnLine: OnLine[i].type = "UNSET"
  BY <1>1, <1>3 DEF OnLine
<1>6. 0 \in SeqNumbers /\ 0 % SeqModulus = 0
  BY NumberFacts
<1>7. LinkTypes
  <2>1. {MaxPackets, MaxRestarts, MaxLine, DevicePackets} \subseteq Nat
    BY ConstantsAssumption
  <2>2. <<>> \in Seq(Frame) /\ Len(<<>>) = 0
    OBVIOUS
  <2>3. submitted \in 0..MaxPackets /\ restarts \in 0..MaxRestarts /\ offered <= DevicePackets
    BY <1>1, <2>1
  <2>4. Len(toDevice) <= MaxLine /\ Len(toDaemon) <= MaxLine
    BY <1>1, <2>1, <2>2
  <2>5. toDevice \in Seq(Frame) /\ toDaemon \in Seq(Frame) /\ expected \in SeqNumbers
    BY <1>1, <1>6, <2>2
  <2>6. {delivered, offered, confirmed, received} \subseteq Nat
    BY <1>1
  <2>7. busy \in BOOLEAN
    BY DEF Init
  <2> QED
    BY <2>3, <2>4, <2>5, <2>6, <2>7 DEF LinkTypes
<1>8. DownInOrder /\ UpInOrder
  BY <1>1, <1>4, <1>5 DEF DownInOrder, UpInOrder, InOrder
<1>9. Synchronised
  BY <1>1, <1>3, <1>4, <1>5, <1>6
  DEF Synchronised, Waited, OnlyHeadIsNew, SendNumbers, ReceiveNumbers, AckTypes
<1>10. LinkInv
  BY <1>2, <1>4, <1>7, <1>8, <1>9 DEF LinkInv
<1>11. Stream!Init /\ DeviceStream!Init
  BY <1>1, <1>4 DEF Stream!Init, DeviceStream!Init, Released
<1> QED
  BY <1>10, <1>11

(* LinkInv is an invariant.                                                *)
LEMMA Invariance == Spec => []LinkInv
<1>1. Init => LinkInv
  BY LinkInit
<1>2. LinkInv /\ [Next]_vars => LinkInv'
  BY LinkStep
<1> QED
  BY <1>1, <1>2, PTL DEF Spec

(* The variables of the link are of their types, and the lines hold at     *)
(* most MaxLine frames.                                                    *)
THEOREM LinkTypeCorrect == Spec => []TypeOK
<1>1. LinkInv => TypeOK
  <2> SUFFICES ASSUME LinkInv PROVE TypeOK
    OBVIOUS
  <2>1. S!TypeOK
    BY DEF LinkInv, S!IInv
  <2>2. Station!TypeOK
    BY <2>1, StatesAgree
  <2>3. LinkTypes /\ DownInOrder /\ UpInOrder /\ Latest <= submitted /\ submitted \in 0..MaxPackets
    BY LinkTyped DEF LinkInv, LinkTypes
  <2>4. delivered \in 0..MaxPackets
    BY <2>3, LinkTyped DEF DownInOrder
  <2>5. {offered, confirmed, received} \subseteq 0..DevicePackets
    BY <2>3, LinkTyped DEF UpInOrder, LinkTypes
  <2> QED
    BY <2>2, <2>3, <2>4, <2>5 DEF TypeOK, LinkTypes, SeqNumbers, Frame
<1> QED
  BY <1>1, Invariance, PTL

(* The link implements the reliable stream: whatever is lost, repeated or  *)
(* late, a packet leaves the queue of the station only after the device    *)
(* has accepted it, and the device accepts the packets in order and        *)
(* without a gap; once the port was suspended, still in order.             *)
THEOREM ReliableStreamImplemented == Spec => ImplementsReliableStream
<1>1. Init => Stream!Init
  BY LinkInit
<1>2. LinkInv /\ [Next]_vars => [Stream!Next]_Stream!streamVars
  BY LinkStep DEF DownStep
<1> QED
  BY <1>1, <1>2, Invariance, PTL DEF Spec, ImplementsReliableStream, Stream!Spec

(* So it does in the other direction: the clients are handed the packets   *)
(* of the device in order and without a gap, and the device is told only   *)
(* of those that they were handed.                                         *)
THEOREM DeviceStreamImplemented == Spec => ImplementsDeviceStream
<1>1. Init => DeviceStream!Init
  BY LinkInit
<1>2. LinkInv /\ [Next]_vars => [DeviceStream!Next]_DeviceStream!streamVars
  BY LinkStep DEF UpStep
<1> QED
  BY <1>1, <1>2, Invariance, PTL DEF Spec, ImplementsDeviceStream, DeviceStream!Spec

-----------------------------------------------------------------------------
(* Delivered once.  Between a daemon with slow timers and a device that    *)
(* neither stops the flow nor has sent a packet, there is one I-frame or   *)
(* one RR on the line at a time, and the station waits for it.             *)

OnlyOne(line, type) ==
  \A i, j \in DOMAIN line: line[i].type = type /\ line[j].type = type => i = j

Carries(line, type) == \E i \in DOMAIN line: line[i].type = type

\* A packet or its acknowledgement is on its way.
Exchanging == Carries(OnLine, "I") \/ Carries(toDaemon, "RR")

OneExchange ==
  /\ OnlyOne(OnLine, "I") /\ OnlyOne(toDaemon, "RR")
  /\ ~(Carries(OnLine, "I") /\ Carries(toDaemon, "RR"))

Once ==
  /\ ~busy
  /\ S!Plain(ps)
  /\ ~ps.m_bStarted => ~ps.m_bWaitForAck
  /\ \A i \in DOMAIN OnLine: OnLine[i].type \in {"UNSET", "I", "TEST"}
  /\ \A i \in DOMAIN toDaemon: toDaemon[i].type \in {"RR", "TEST"}
  /\ OneExchange
  /\ Exchanging => ps.m_bWaitForAck /\ ps.m_Timer.queued = "off"
  /\ expected = SendNumber => delivered = Released

OnceInv == offered = 0 => Once

(* What a line still carries after the head has left it, and what it       *)
(* carries with one frame more.                                            *)
LEMMA CarriesFacts ==
  ASSUME NEW line \in Seq(Frame), NEW type
  PROVE  /\ line # <<>> =>
              /\ Carries(Tail(line), type) => Carries(line, type)
              /\ OnlyOne(line, type) =>
                   /\ OnlyOne(Tail(line), type)
                   /\ Head(line).type = type => Carries(line, type) /\ ~Carries(Tail(line), type)
         /\ \A frame \in Frame:
              /\ Carries(Append(line, frame), type) <=> (Carries(line, type) \/ frame.type = type)
              /\ OnlyOne(Append(line, frame), type)
                   <=> (OnlyOne(line, type) /\ ~(Carries(line, type) /\ frame.type = type))
<1>1. ASSUME line # <<>>
      PROVE  /\ Carries(Tail(line), type) => Carries(line, type)
             /\ OnlyOne(line, type) =>
                  /\ OnlyOne(Tail(line), type)
                  /\ Head(line).type = type => Carries(line, type) /\ ~Carries(Tail(line), type)
  <2>1. Carries(Tail(line), type) => Carries(line, type)
    BY <1>1, TailFacts DEF Carries
  <2>2. OnlyOne(line, type) => OnlyOne(Tail(line), type)
    <3> SUFFICES ASSUME OnlyOne(line, type), NEW i \in DOMAIN Tail(line), NEW j \in DOMAIN Tail(line),
                        Tail(line)[i].type = type, Tail(line)[j].type = type
                 PROVE  i = j
      BY DEF OnlyOne
    <3>1. /\ i \in Nat /\ i + 1 \in DOMAIN line /\ line[i + 1].type = type
          /\ j \in Nat /\ j + 1 \in DOMAIN line /\ line[j + 1].type = type
      BY <1>1, TailFacts
    <3>2. i + 1 = j + 1
      BY <3>1 DEF OnlyOne
    <3> QED
      BY <3>1, <3>2
  <2>3. OnlyOne(line, type) /\ Head(line).type = type => Carries(line, type) /\ ~Carries(Tail(line), type)
    <3> SUFFICES ASSUME OnlyOne(line, type), Head(line).type = type
                 PROVE  Carries(line, type) /\ ~Carries(Tail(line), type)
      OBVIOUS
    <3>1. 1 \in DOMAIN line /\ line[1].type = type
      BY <1>1, TailFacts
    <3>2. ASSUME NEW i \in DOMAIN Tail(line), Tail(line)[i].type = type PROVE FALSE
      <4>1. i \in Nat \ {0} /\ i + 1 \in DOMAIN line /\ line[i + 1].type = type
        BY <1>1, <3>2, TailFacts
      <4>2. i + 1 = 1
        BY <3>1, <4>1 DEF OnlyOne
      <4> QED
        BY <4>1, <4>2
    <3> QED
      BY <3>1, <3>2 DEF Carries
  <2> QED
    BY <2>1, <2>2, <2>3
<1>2. ASSUME NEW frame \in Frame
      PROVE  /\ Carries(Append(line, frame), type) <=> (Carries(line, type) \/ frame.type = type)
             /\ OnlyOne(Append(line, frame), type)
                  <=> (OnlyOne(line, type) /\ ~(Carries(line, type) /\ frame.type = type))
  <2> DEFINE longer == Append(line, frame)
             last == Len(line) + 1
  <2>1. /\ last \in DOMAIN longer /\ longer[last] = frame
        /\ \A i \in DOMAIN line: i \in DOMAIN longer /\ longer[i] = line[i] /\ i # last
        /\ \A i \in DOMAIN longer: i \in DOMAIN line \/ i = last
    BY AppendFacts
  <2> HIDE DEF longer, last
  <2>2. Carries(longer, type) <=> (Carries(line, type) \/ frame.type = type)
    BY <2>1 DEF Carries
  <2>3. OnlyOne(longer, type) => OnlyOne(line, type) /\ ~(Carries(line, type) /\ frame.type = type)
    BY <2>1 DEF OnlyOne, Carries
  <2>4. OnlyOne(line, type) /\ ~(Carries(line, type) /\ frame.type = type) => OnlyOne(longer, type)
    BY <2>1 DEF OnlyOne, Carries
  <2> QED
    BY <2>2, <2>3, <2>4 DEF longer
<1> QED
  BY <1>1, <1>2

(* The clients of the link submit reliable packets.                        *)
LEMMA LinkOffers == S!OffersReliable
  BY DEF S!OffersReliable

(* A step of the daemon that found the station waiting, or not, and its    *)
(* timer's handler queued, or not, when it came to the opportunity for     *)
(* transmission.                                                           *)
LEMMA OnceAfterTurn ==
  ASSUME LinkInv, Once, S!IInv', NEW waits, NEW queued, NEW frame, S!Turned(waits, queued, frame),
         \/ toDevice' = toDevice /\ frame = ps.m_SendBuffer
         \/ toDevice' = OnLine /\ frame = S!UnsetFrame,
         \/ toDaemon' = toDaemon
         \/ toDaemon # <<>> /\ toDaemon' = Tail(toDaemon),
         Carries(OnLine, "I") \/ Carries(toDaemon', "RR") => waits /\ queued = "off",
         waits => ps.m_bWaitForAck,
         ps'.m_bStarted \/ ps'.m_bStarted = ps.m_bStarted,
         busy' = busy,
         (expected = SendNumber => delivered = Released)'
  PROVE  Once'
<1> DEFINE next == ps'.m_SendBuffer
<1>1. /\ OnLine \in Seq(Frame) /\ toDevice \in Seq(Frame) /\ toDaemon \in Seq(Frame)
      /\ ps.m_SendBuffer \in Frame /\ next \in Frame
  <2>1. (ps.m_SendBuffer \in Frame)'
    BY StationTyped, PTL
  <2>2. next \in Frame
    BY <2>1 DEF Frame, Station!Frame, Station!FrameTypes, Station!SeqNumbers
  <2> QED
    BY <2>2, LinkTyped
<1>2. S!Plain(ps')
  BY DEF S!Turned
<1>3. ~ps'.m_bStarted => ~ps'.m_bWaitForAck
  <2>1. (S!Alive!IsAlive)' => ps'.m_bStarted
    <3>1. S!AliveOnlyWhileStarted'
      BY DEF S!IInv
    <3> QED
      BY <3>1 DEF S!AliveOnlyWhileStarted
  <2> QED
    BY <2>1 DEF S!Turned, Once
<1>4. /\ OnLine' = Append(toDevice', next)
      /\ toDevice' \in {toDevice, OnLine} /\ toDevice' \in Seq(Frame)
  BY <1>1 DEF OnLine
<1>5. \/ next.type = "I" /\ ~Carries(OnLine, "I") /\ ~Carries(toDaemon', "RR")
      \/ next.type \in {"UNSET", "TEST"}
      \/ OnLine' = OnLine
  <2>1. S!UnsetFrame.type = "UNSET"
    BY DEF S!UnsetFrame
  <2>2. CASE next.type = "I" /\ ~waits
    BY <2>2
  <2>3. CASE next = frame \/ next.type = "TEST"
    BY <1>4, <2>1, <2>3 DEF OnLine
  <2> QED
    BY <2>2, <2>3 DEF S!Turned
<1>6. /\ Carries(OnLine', "I") => Carries(OnLine, "I") \/ next.type = "I"
      /\ OnlyOne(OnLine', "I")
      /\ \A i \in DOMAIN OnLine': OnLine'[i].type \in {"UNSET", "I", "TEST"}
  <2>0. OnlyOne(OnLine, "I") /\ \A i \in DOMAIN OnLine: OnLine[i].type \in {"UNSET", "I", "TEST"}
    BY DEF Once, OneExchange
  <2>1. /\ OnlyOne(toDevice', "I") /\ (Carries(toDevice', "I") => Carries(OnLine, "I"))
        /\ \A i \in DOMAIN toDevice': toDevice'[i].type \in {"UNSET", "I", "TEST"}
    <3>1. CASE toDevice' = OnLine
      BY <2>0, <3>1
    <3>2. CASE toDevice' = toDevice
      <4>1. /\ OnlyOne(toDevice, "I") /\ (Carries(toDevice, "I") => Carries(OnLine, "I"))
        BY <1>1, <2>0, CarriesFacts DEF OnLine
      <4>2. \A i \in DOMAIN toDevice: i \in DOMAIN OnLine /\ OnLine[i] = toDevice[i]
        BY <1>1, AppendFacts DEF OnLine
      <4> QED
        BY <2>0, <3>2, <4>1, <4>2
    <3> QED
      BY <1>4, <3>1, <3>2
  <2>2. CASE OnLine' = OnLine
    BY <2>0, <2>2
  <2>3. CASE OnLine' # OnLine
    <3>1. next.type \in {"UNSET", "I", "TEST"} /\ (next.type = "I" => ~Carries(OnLine, "I"))
      BY <1>5, <2>3
    <3> HIDE DEF next
    <3>2. /\ Carries(Append(toDevice', next), "I") <=> (Carries(toDevice', "I") \/ next.type = "I")
          /\ OnlyOne(Append(toDevice', next), "I")
               <=> (OnlyOne(toDevice', "I") /\ ~(Carries(toDevice', "I") /\ next.type = "I"))
      BY <1>1, <1>4, CarriesFacts
    <3>3. \A i \in DOMAIN Append(toDevice', next):
            (i \in DOMAIN toDevice' /\ Append(toDevice', next)[i] = toDevice'[i])
              \/ Append(toDevice', next)[i] = next
      BY <1>1, <1>4, AppendFacts
    <3> QED
      BY <1>4, <2>1, <3>1, <3>2, <3>3
  <2> QED
    BY <2>2, <2>3
<1>7. /\ OnlyOne(toDaemon', "RR") /\ (Carries(toDaemon', "RR") => Carries(toDaemon, "RR"))
      /\ \A i \in DOMAIN toDaemon': toDaemon'[i].type \in {"RR", "TEST"}
  <2>1. CASE toDaemon' = toDaemon
    BY <2>1 DEF Once, OneExchange
  <2>2. CASE toDaemon # <<>> /\ toDaemon' = Tail(toDaemon)
    <3>1. \A i \in DOMAIN Tail(toDaemon): i + 1 \in DOMAIN toDaemon /\ Tail(toDaemon)[i] = toDaemon[i + 1]
      BY <1>1, <2>2, TailFacts
    <3> QED
      BY <1>1, <2>2, <3>1, CarriesFacts DEF Once, OneExchange
  <2> QED
    BY <2>1, <2>2
<1>8. OneExchange'
  <2>1. ~(Carries(OnLine', "I") /\ Carries(toDaemon', "RR"))
    BY <1>4, <1>5, <1>6, <1>7 DEF Once, OneExchange
  <2> QED
    BY <1>6, <1>7, <2>1 DEF OneExchange
<1>9. Exchanging' => ps'.m_bWaitForAck /\ ps'.m_Timer.queued = "off"
  <2>1. CASE next.type = "I" /\ ~waits /\ ps'.m_bWaitForAck /\ ps'.m_Timer.queued = S!Off
    BY <2>1 DEF S!Off
  <2>2. CASE /\ next = frame \/ next.type = "TEST"
             /\ ps'.m_bWaitForAck = waits /\ ps'.m_Timer.queued = queued
    <3>1. Carries(OnLine', "I") => Carries(OnLine, "I")
      <4>1. CASE OnLine' = OnLine
        BY <4>1
      <4>2. CASE next.type \in {"UNSET", "TEST"}
        BY <1>6, <4>2
      <4>3. CASE next.type = "I" /\ OnLine' # OnLine
        BY <1>4, <2>2, <4>3 DEF OnLine, S!UnsetFrame
      <4> QED
        BY <1>5, <4>1, <4>2, <4>3
    <3> QED
      BY <2>2, <3>1 DEF Exchanging
  <2> QED
    BY <2>1, <2>2 DEF S!Turned
<1>10. ~busy'
  BY DEF Once
<1> QED
  BY <1>2, <1>3, <1>6, <1>7, <1>8, <1>9, <1>10 DEF Once

(* The steps of the daemon that take no frame from the line.               *)
LEMMA OnceDaemonSteps ==
  ASSUME LinkInv, LinkInv', restarts = 0, Once, SlowTimers, NothingReleased,
         ~Station!TransmittedWhileStopped,
         \/ WriteFrame
         \/ Submit
         \/ \E timer \in Timers: RunTimerHandler(timer) \/ ExpireTimer(timer)
         \/ Open
  PROVE  Once'
<1>1. S!IInv /\ S!IInv' /\ S!Plain(ps) /\ S!OffersReliable
  BY LinkOffers DEF LinkInv, Once
<1>2. (expected = SendNumber => delivered = Released)'
  <2>1. UNCHANGED <<expected, delivered>>
    BY DEF WriteFrame, Submit, RunTimerHandler, ExpireTimer, Open, deviceVars
  <2> QED
    BY <2>1 DEF NothingReleased, Once
<1>3. UNCHANGED <<toDaemon, busy>>
  BY DEF WriteFrame, Submit, RunTimerHandler, ExpireTimer, Open, deviceVars
<1>4. Exchanging => ps.m_bWaitForAck /\ ps.m_Timer.queued = "off"
  BY DEF Once
<1>5. CASE WriteFrame
  <2>1. S!TriggerNextHDLCFrame /\ toDevice' = OnLine
    BY <1>5, TriggerAgrees DEF WriteFrame, OnLine
  <2>2. S!Turned(ps.m_bWaitForAck, ps.m_Timer.queued, S!UnsetFrame)
    BY <1>1, <2>1, StationConstants, S!PlainTrigger
  <2>3. ps'.m_bStarted = ps.m_bStarted
    BY <1>1, <2>1, StationConstants, S!TriggerSeen
  <2> QED
    BY <1>1, <1>2, <1>3, <1>4, <2>1, <2>2, <2>3, OnceAfterTurn DEF Exchanging
<1>6. CASE Submit
  <2> DEFINE packet == [payload |-> submitted + 1, reliable |-> TRUE]
  <2>1. S!SendPayload(packet) /\ toDevice' = toDevice /\ submitted < MaxPackets
    BY <1>6, SendPayloadAgrees DEF Submit
  <2>2. packet \in (IF submitted < MaxPackets THEN {packet} ELSE {})
    BY <2>1
  <2>3. S!Turned(ps.m_bWaitForAck, ps.m_Timer.queued, ps.m_SendBuffer)
    BY <1>1, <2>1, <2>2, StationConstants, S!PlainSendPayload DEF S!TurnedFrom
  <2>4. ps'.m_bStarted = ps.m_bStarted
    BY <1>1, <2>1, <2>2, StationConstants, S!SendPayloadSeen
  <2> QED
    BY <1>1, <1>2, <1>3, <1>4, <2>1, <2>3, <2>4, OnceAfterTurn DEF Exchanging
<1>7. ASSUME NEW timer \in Timers, RunTimerHandler(timer) \/ ExpireTimer(timer)
      PROVE  Once'
  <2>1. toDevice' = toDevice
    BY <1>7 DEF RunTimerHandler, ExpireTimer
  <2>2. \/ S!TimerExpires \/ S!OnRetransmissionTimeout \/ S!OnQueryTimeout
        \/ S!StateTimerExpires \/ S!ProbeTimerExpires \/ S!OnStateTimeout \/ S!OnProbeTimeout
    BY <1>7, TimersAgree, AliveTimersAgree DEF RunTimerHandler, ExpireTimer
  <2>3. ps'.m_bStarted = ps.m_bStarted
    BY <1>1, <2>2, StationConstants, S!TimersSeen
  <2>4. CASE S!StateTimerExpires \/ S!ProbeTimerExpires \/ S!OnStateTimeout \/ S!OnProbeTimeout
    <3>1. S!Turned(ps.m_bWaitForAck, ps.m_Timer.queued, ps.m_SendBuffer)
      BY <1>1, <2>4, StationConstants, S!PlainAliveTimers DEF S!TurnedFrom
    <3> QED
      BY <1>1, <1>2, <1>3, <1>4, <2>1, <2>3, <3>1, OnceAfterTurn DEF Exchanging
  <2>5. CASE S!OnRetransmissionTimeout
    <3>1. S!Turned(FALSE, S!Off, ps.m_SendBuffer) /\ ps.m_Timer.queued # S!Off
      BY <1>1, <2>5, StationConstants, S!PlainTimer
    <3>2. ~Exchanging
      BY <1>4, <3>1 DEF S!Off
    <3> QED
      BY <1>1, <1>2, <1>3, <2>1, <2>3, <3>1, <3>2, OnceAfterTurn DEF Exchanging
  <2>6. CASE ExpireTimer(timer) /\ S!TimerExpires
    <3>1. S!Turned(TRUE, "retransmit", ps.m_SendBuffer) /\ ps.m_bWaitForAck
      BY <1>1, <2>6, StationConstants, S!PlainTimer
    <3>2. toDaemon = <<>> /\ toDevice = <<>> /\ ps.m_SendBuffer.type = "UNSET"
      BY <2>6 DEF ExpireTimer, Quiet, Writing, Station!IsEmpty
    <3>3. OnLine = <<ps.m_SendBuffer>>
      BY <3>2 DEF OnLine
    <3>4. ~Exchanging
      BY <3>2, <3>3 DEF Exchanging, Carries
    <3> QED
      BY <1>1, <1>2, <1>3, <2>1, <2>3, <3>1, <3>4, OnceAfterTurn DEF Exchanging
  <2>7. ~S!OnQueryTimeout
    BY <1>1, StationConstants, S!PlainTimer
  <2>8. S!TimerExpires /\ RunTimerHandler(timer)
          => S!OnRetransmissionTimeout \/ S!OnQueryTimeout \/ S!OnStateTimeout \/ S!OnProbeTimeout
    BY TimersAgree, AliveTimersAgree DEF RunTimerHandler
  <2> QED
    BY <1>7, <2>2, <2>4, <2>5, <2>6, <2>7, <2>8
<1>8. CASE Open
  <2>1. S!Start /\ toDevice' = toDevice
    BY <1>8, StartAgrees DEF Open
  <2>2. ~ps.m_bWaitForAck
    BY <2>1 DEF Once, S!Start
  <2>3. S!Turned(FALSE, S!Off, ps.m_SendBuffer)
    BY <1>1, <2>1, <2>2, StationConstants, S!PlainStart
  <2>5. ps'.m_bStarted
    BY <1>1, <2>1, StatesAgree, StationConstants, S!StartSeen
  <2>6. ~Exchanging
    BY <1>4, <2>2
  <2> QED
    BY <1>1, <1>2, <1>3, <2>1, <2>3, <2>5, <2>6, OnceAfterTurn DEF Exchanging
<1> QED
  BY <1>5, <1>6, <1>7, <1>8

(* A frame of the device is interpreted.  If it acknowledges the packet,   *)
(* the device has accepted it, and nothing else is on the line.            *)
LEMMA OnceReceiveFrame ==
  ASSUME LinkInv, LinkInv', restarts = 0, Once, ReceiveFrame
  PROVE  Once'
<1> DEFINE frame == Head(toDaemon)
           queue == IF S!Answers(frame) THEN Tail(Queue) ELSE Queue
<1>1. S!IInv /\ S!IInv' /\ S!Plain(ps) /\ S!OffersReliable /\ Synchronised
  BY LinkOffers DEF LinkInv, Once
<1>2. /\ toDaemon \in Seq(Frame) /\ toDaemon # <<>> /\ CountSubmission
      /\ SendNumber \in SeqNumbers /\ expected \in SeqNumbers
      /\ submitted \in Nat /\ Released \in Nat
  BY LinkTyped DEF ReceiveFrame
<1>3. /\ frame \in Frame /\ frame.type \in {"RR", "TEST"}
      /\ frame.type = "RR" => /\ frame.nr \in {SendNumber, expected}
                              /\ ps.m_bWaitForAck /\ ps.m_Timer.queued = "off"
                              /\ ~Carries(OnLine, "I") /\ ~Carries(Tail(toDaemon), "RR")
  <2>1. frame \in Frame /\ 1 \in DOMAIN toDaemon /\ frame = toDaemon[1]
    BY <1>2, TailFacts
  <2>2. frame.type \in {"RR", "TEST"}
    BY <2>1 DEF Once
  <2>3. frame.type = "RR" => Carries(toDaemon, "RR") /\ ~Carries(Tail(toDaemon), "RR")
    BY <1>2, CarriesFacts DEF Once, OneExchange
  <2>4. frame.type = "RR" => frame.nr \in {SendNumber, expected}
    BY <1>1, <1>2, ReceiveNumbersFacts DEF Synchronised, AnswerTypes
  <2> QED
    BY <2>1, <2>2, <2>3, <2>4 DEF Once, OneExchange, Exchanging
<1>4. S!InterpretDeserializedFrame(frame) /\ toDaemon' = Tail(toDaemon) /\ toDevice' = toDevice
  BY FrameAgrees DEF ReceiveFrame
<1>5. UNCHANGED <<expected, delivered, busy>>
  BY DEF ReceiveFrame, deviceVars
<1> HIDE DEF frame
<1>6. frame \in S!Frame /\ (S!Answers(frame) => ps.m_Timer.queued = S!Off)
  BY <1>3, StatesAgree DEF Frame, S!Answers, S!Off
<1>7. /\ S!Turned(ps.m_bWaitForAck /\ ~S!Answers(frame), ps.m_Timer.queued, ps.m_SendBuffer)
      /\ S!Moved(IF frame.type = "RR" THEN frame.nr ELSE SendNumber, ReceiveNumber, queue, ps.m_SendBuffer)
  BY <1>1, <1>3, <1>4, <1>6, StationConstants, S!PlainFrame DEF SendNumber, ReceiveNumber, Queue
<1>8. S!Answers(frame) <=> frame.type = "RR" /\ frame.nr = Succ(SendNumber)
  BY <1>3 DEF S!Answers, S!Succ, Succ, SendNumber
<1>9. S!Answers(frame) => Queue # <<>>
  BY <1>1 DEF S!IInv, S!MembersInv, S!Waiting, S!Answers, Queue
<1>10. ps'.m_bStarted
  <2>1. frame.type \in {"I", "RR", "RNR", "TEST"}
    BY <1>3
  <2> QED
    BY <1>1, <1>4, <1>6, <2>1, StationConstants, S!FrameSeen
<1>11. SendNumber' = (IF frame.type = "RR" THEN frame.nr ELSE SendNumber) /\ Released' = submitted - Len(queue)
  <2>1. queue = Queue \/ (Queue # <<>> /\ queue = Tail(Queue))
    BY <1>9
  <2> HIDE DEF queue
  <2>2. PICK r, s, sent: S!Moved(s, r, queue, sent) /\ s = IF frame.type = "RR" THEN frame.nr ELSE SendNumber
    BY <1>7
  <2>3. Queued(submitted - Len(queue))
    BY <1>2, <2>1, <2>2, SubmissionCounted
  <2>4. Released' = submitted - Len(queue)
    BY <2>3 DEF Queued
  <2>5. SendNumber' = s
    BY <2>2 DEF S!Moved, SendNumber
  <2> QED
    BY <2>2, <2>4, <2>5
<1>12. (expected = SendNumber => delivered = Released)'
  <2>1. CASE S!Answers(frame)
    <3>1. Len(queue) = Len(Queue) - 1 /\ Len(Queue) \in Nat
      <4>1. Queue \in Seq(Nat) /\ Queue # <<>> /\ queue = Tail(Queue)
        BY <1>1, <1>9, <2>1, StationTyped
      <4> HIDE DEF queue
      <4> QED
        BY <4>1
    <3>2. Released' = Released + 1
      <4>1. Released' = submitted - Len(queue)
        BY <1>11
      <4> HIDE DEF queue
      <4> QED
        BY <1>2, <3>1, <4>1 DEF Released
    <3>3. expected # SendNumber
      BY <1>2, <1>3, <1>8, <2>1, NumberFacts
    <3>4. delivered = Released + 1
      BY <1>1, <3>3 DEF Synchronised, Waited
    <3> QED
      BY <1>5, <3>2, <3>4
  <2>2. CASE ~S!Answers(frame)
    <3>1. Released' = Released
      BY <1>11, <2>2 DEF Released
    <3>2. frame.type = "RR" => frame.nr = SendNumber
      BY <1>1, <1>3, <1>8, <2>2 DEF Synchronised, Waited
    <3>3. SendNumber' = SendNumber
      BY <1>11, <3>2
    <3> QED
      BY <1>5, <3>1, <3>3 DEF Once
  <2> QED
    BY <2>1, <2>2
<1>13. Carries(OnLine, "I") \/ Carries(toDaemon', "RR")
         => ps.m_bWaitForAck /\ ~S!Answers(frame) /\ ps.m_Timer.queued = "off"
  <2>1. Carries(OnLine, "I") \/ Carries(toDaemon', "RR") => frame.type # "RR" /\ Exchanging
    BY <1>2, <1>3, <1>4, CarriesFacts DEF Exchanging
  <2> QED
    BY <2>1, <1>8 DEF Once
<1> QED
  BY <1>1, <1>2, <1>4, <1>5, <1>7, <1>10, <1>12, <1>13, OnceAfterTurn

(* A frame is lost.                                                        *)
LEMMA OnceLoseFrame ==
  ASSUME LinkInv, Once, LoseFrame
  PROVE  Once'
<1>1. /\ OnLine \in Seq(Frame) /\ toDaemon \in Seq(Frame) /\ toDevice \in Seq(Frame)
      /\ ps.m_SendBuffer \in Frame
  BY LinkTyped
<1>2. /\ UNCHANGED <<ps, SendNumber, Released>>
      /\ UNCHANGED <<expected, delivered, busy>>
  BY StillFacts DEF LoseFrame, StationStill, deviceVars
<1>3. ASSUME /\ Carries(OnLine', "I") => Carries(OnLine, "I")
             /\ Carries(toDaemon', "RR") => Carries(toDaemon, "RR")
             /\ OnlyOne(OnLine', "I") /\ OnlyOne(toDaemon', "RR")
             /\ \A i \in DOMAIN OnLine': OnLine'[i].type \in {"UNSET", "I", "TEST"}
             /\ \A i \in DOMAIN toDaemon': toDaemon'[i].type \in {"RR", "TEST"}
      PROVE  Once'
  BY <1>2, <1>3 DEF Once, OneExchange, Exchanging
<1>4. CASE toDevice # <<>> /\ toDevice' = Tail(toDevice) /\ UNCHANGED toDaemon
  <2>1. /\ OnLine # <<>> /\ OnLine' = Tail(OnLine)
        /\ \A i \in DOMAIN OnLine': i + 1 \in DOMAIN OnLine /\ OnLine'[i] = OnLine[i + 1]
    BY <1>2, <1>4, OnLineShrinks
  <2>2. (Carries(OnLine', "I") => Carries(OnLine, "I")) /\ OnlyOne(OnLine', "I")
    BY <1>1, <2>1, CarriesFacts DEF Once, OneExchange
  <2>3. \A i \in DOMAIN OnLine': OnLine'[i].type \in {"UNSET", "I", "TEST"}
    BY <2>1 DEF Once
  <2> QED
    BY <1>3, <1>4, <2>2, <2>3 DEF Once, OneExchange
<1>5. CASE toDaemon # <<>> /\ toDaemon' = Tail(toDaemon) /\ UNCHANGED toDevice
  <2>1. OnLine' = OnLine
    BY <1>2, <1>5 DEF OnLine
  <2>2. (Carries(toDaemon', "RR") => Carries(toDaemon, "RR")) /\ OnlyOne(toDaemon', "RR")
    BY <1>1, <1>5, CarriesFacts DEF Once, OneExchange
  <2>3. \A i \in DOMAIN Tail(toDaemon): i + 1 \in DOMAIN toDaemon /\ Tail(toDaemon)[i] = toDaemon[i + 1]
    BY <1>1, <1>5, TailFacts
  <2>4. \A i \in DOMAIN toDaemon': toDaemon'[i].type \in {"RR", "TEST"}
    BY <1>5, <2>3 DEF Once
  <2> QED
    BY <1>3, <2>1, <2>2, <2>4 DEF Once, OneExchange
<1> QED
  BY <1>4, <1>5 DEF LoseFrame

(* The device takes a frame: it answers the packet with RR, and a probe    *)
(* with a probe.  It accepts a packet only while it expects the number of  *)
(* the station, and that packet follows the one it accepted last.          *)
LEMMA OnceDeviceReceive ==
  ASSUME LinkInv, restarts = 0, Once, NEW type \in {"I", "RR", "SREJ", "TEST"}, DeviceReceive(type)
  PROVE  Once' /\ (expected' # expected => delivered' # delivered)
<1> DEFINE head == Head(toDevice)
           accepts == type = "I" /\ ~busy /\ head.ns = expected
<1>1. /\ OnLine \in Seq(Frame) /\ toDaemon \in Seq(Frame)
      /\ Released \in Nat /\ delivered \in Nat
      /\ SendNumber \in SeqNumbers /\ expected \in SeqNumbers
      /\ Synchronised
  BY LinkTyped DEF LinkInv
<1>2. toDevice # <<>> /\ toDevice' = Tail(toDevice) /\ head.type = type /\ busy' = busy
  BY DEF DeviceReceive
<1>3. UNCHANGED <<ps, SendNumber, Released>>
  BY StillFacts DEF DeviceReceive, StationStill
<1>4. /\ OnLine # <<>> /\ OnLine' = Tail(OnLine) /\ Head(OnLine) = head
      /\ 1 \in DOMAIN OnLine /\ OnLine[1] = head /\ head \in Frame
      /\ \A i \in DOMAIN OnLine': i + 1 \in DOMAIN OnLine /\ OnLine'[i] = OnLine[i + 1]
  BY <1>2, <1>3, OnLineShrinks
<1>5. type \in {"I", "TEST"}
  BY <1>2, <1>4 DEF Once
<1>6. expected' \in SeqNumbers /\ (accepts => expected' = Succ(expected))
  <2>1. expected' = IF accepts THEN Succ(expected) ELSE expected
    BY DEF DeviceReceive, Succ
  <2> QED
    BY <1>1, <2>1, NumberFacts
<1>7. PICK frame \in Frame: /\ toDaemon' = Append(toDaemon, frame)
                            /\ frame.type = IF type = "I" THEN "RR" ELSE "TEST"
  <2>1. CASE type = "TEST"
    BY <1>2, <1>4, <2>1 DEF DeviceReceive, Reply
  <2>2. CASE type = "I"
    <3>1. Reply(Ready(FALSE, expected')) /\ FALSE \in BOOLEAN
      <4>1. busy = FALSE
        BY DEF Once, LinkInv, LinkTypes
      <4> QED
        BY <2>2, <4>1 DEF DeviceReceive
    <3>2. Ready(FALSE, expected') \in Frame
      BY <1>6, <3>1, ReadyFacts
    <3>3. Ready(FALSE, expected').type = "RR"
      BY DEF Ready, Station!UnsetFrame
    <3> QED
      BY <2>2, <3>1, <3>2, <3>3 DEF Reply
  <2> QED
    BY <1>5, <2>1, <2>2
<1>8. /\ expected' = IF accepts THEN Succ(expected) ELSE expected
      /\ delivered' = IF accepts THEN head.payload ELSE delivered
  BY DEF DeviceReceive, Succ
<1>9. accepts => /\ expected = SendNumber /\ head.payload = Released + 1 /\ delivered = Released
                 /\ expected' # SendNumber
  <2>1. accepts => expected = SendNumber /\ head.payload = Released + 1
    BY <1>1, <1>2, <1>4 DEF Synchronised, OnlyHeadIsNew
  <2> QED
    BY <1>1, <1>8, <2>1, NumberFacts DEF Once
<1>10. expected' # expected => delivered' # delivered
  BY <1>1, <1>8, <1>9
<1>11. (expected = SendNumber => delivered = Released)'
  BY <1>3, <1>8, <1>9 DEF Once
<1> HIDE DEF head, accepts
<1>12. /\ Carries(OnLine', "I") => Carries(OnLine, "I")
       /\ OnlyOne(OnLine', "I")
       /\ type = "I" => Carries(OnLine, "I") /\ ~Carries(OnLine', "I")
  BY <1>1, <1>2, <1>4, CarriesFacts DEF Once, OneExchange
<1>13. /\ Carries(toDaemon', "RR") <=> (Carries(toDaemon, "RR") \/ type = "I")
       /\ OnlyOne(toDaemon', "RR") <=> (OnlyOne(toDaemon, "RR") /\ ~(Carries(toDaemon, "RR") /\ type = "I"))
  <2>1. (frame.type = "RR") <=> (type = "I")
    BY <1>5, <1>7
  <2> QED
    BY <1>1, <1>7, <2>1, CarriesFacts
<1>14. OneExchange' /\ (Exchanging' => Exchanging)
  BY <1>12, <1>13 DEF Once, OneExchange, Exchanging
<1>15. \A i \in DOMAIN OnLine': OnLine'[i].type \in {"UNSET", "I", "TEST"}
  BY <1>4 DEF Once
<1>16. \A i \in DOMAIN toDaemon': toDaemon'[i].type \in {"RR", "TEST"}
  BY <1>1, <1>7, AppendFacts DEF Once
<1> QED
  BY <1>2, <1>3, <1>10, <1>11, <1>14, <1>15, <1>16 DEF Once

(* Until the device sends a packet, every step preserves Once, and a       *)
(* packet that the device accepts is another one than the last.            *)
LEMMA OnceStep ==
  ASSUME SlowTimers, ~BusyDevice, MaxRestarts = 0, LinkInv, OnceInv, [Next]_vars
  PROVE  /\ OnceInv'
         /\ offered = 0 /\ expected' # expected => delivered' # delivered
<1>1. LinkInv'
  BY LinkStep
<1>2. restarts = 0
  BY ConstantsAssumption DEF LinkInv, LinkTypes
<1>3. CASE DeviceSends \/ DeviceRepeats
  <2>1. expected' = expected
    BY <1>3 DEF DeviceSends, DeviceRepeats, DeviceTransmits
  <2>2. offered \in Nat /\ confirmed \in Nat
    BY LinkTyped
  <2>3. offered' = offered + 1 \/ (offered' = offered /\ confirmed < offered)
    BY <1>3 DEF DeviceSends, DeviceRepeats, DeviceTransmits
  <2>4. offered' # 0
    BY <2>2, <2>3
  <2> QED
    BY <2>1, <2>4 DEF OnceInv
<1>4. ASSUME Next, ~(DeviceSends \/ DeviceRepeats)
      PROVE  /\ offered' = offered
             /\ Once => Once' /\ (expected' # expected => delivered' # delivered)
  <2>1. CASE \/ WriteFrame
             \/ Submit
             \/ \E timer \in Timers: RunTimerHandler(timer) \/ ExpireTimer(timer)
             \/ Open
    <3>1. NothingReleased /\ ~Station!TransmittedWhileStopped
      BY <1>4, <2>1, WriteFrameStep, SubmitStep, TimerSteps, OpenStep DEF Next
    <3>2. UNCHANGED <<offered, expected>>
      BY <2>1 DEF WriteFrame, Submit, RunTimerHandler, ExpireTimer, Open, deviceVars
    <3> QED
      BY <1>1, <1>2, <2>1, <3>1, <3>2, OnceDaemonSteps
  <2>2. CASE ReceiveFrame
    BY <1>1, <1>2, <2>2, OnceReceiveFrame DEF ReceiveFrame, deviceVars
  <2>3. CASE LoseFrame
    BY <2>3, OnceLoseFrame DEF LoseFrame, deviceVars
  <2>4. CASE \E type \in {"I", "RR", "SREJ", "TEST"}: DeviceReceive(type)
    BY <1>2, <2>4, OnceDeviceReceive DEF DeviceReceive
  <2>5. ~Suspend /\ ~DeviceChangesFlow
    BY <1>2 DEF Suspend, DeviceChangesFlow
  <2> QED
    BY <1>4, <2>1, <2>2, <2>3, <2>4, <2>5 DEF Next
<1>5. CASE UNCHANGED vars
  <2>1. /\ UNCHANGED <<ps, SendNumber, Released, toDaemon, toDevice>>
        /\ UNCHANGED <<expected, delivered, busy, offered>>
    BY <1>5, StillFacts DEF vars, StationStill, deviceVars
  <2>2. UNCHANGED OnLine
    BY <2>1 DEF OnLine
  <2> QED
    BY <2>1, <2>2 DEF OnceInv, Once, OneExchange, Exchanging
<1> QED
  BY <1>3, <1>4, <1>5 DEF OnceInv

(* The link starts with nothing on its way.                                *)
LEMMA OnceInit == Init => OnceInv
<1> SUFFICES ASSUME Init PROVE Once
  BY DEF OnceInv
<1>1. /\ toDevice = <<>> /\ toDaemon = <<>> /\ ~busy /\ delivered = 0 /\ submitted = 0 /\ S!InitStation
  BY StatesAgree DEF Init
<1>2. /\ ps.m_SendBuffer.type = "UNSET" /\ ~ps.m_bWaitForAck /\ Queue = <<>> /\ S!Plain(ps)
  BY <1>1 DEF S!InitStation, S!UnsetFrame, S!IdleTimer, S!Off, S!Plain, Queue
<1>3. OnLine = <<ps.m_SendBuffer>> /\ Released = 0
  <2>1. Len(Queue) = 0
    BY <1>2
  <2> QED
    BY <1>1, <2>1 DEF OnLine, Released
<1> QED
  BY <1>1, <1>2, <1>3 DEF Once, OneExchange, Exchanging, OnlyOne, Carries

(* No packet reaches the device twice before the device sends one of its   *)
(* own: with timers slower than a frame and its answer, a device that does *)
(* not stop the flow, and a port that is not suspended.                    *)
THEOREM PacketsDeliveredOnce ==
  ASSUME SlowTimers, ~BusyDevice, MaxRestarts = 0
  PROVE  Spec => DeliveredOnce
<1>1. Init => OnceInv
  BY OnceInit
<1>2. LinkInv /\ OnceInv /\ [Next]_vars
        => OnceInv' /\ [offered = 0 /\ expected' # expected => delivered' # delivered]_vars
  BY OnceStep
<1> QED
  BY <1>1, <1>2, Invariance, PTL DEF Spec, DeliveredOnce
=============================================================================
