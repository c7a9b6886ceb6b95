------------------------------ MODULE HdlcLink ------------------------------
(***************************************************************************)
(* The HDLC station of the daemon, a serial line that loses frames, and    *)
(* the station of the device.  The clients submit reliable packets, num-   *)
(* bered 1, 2, ... in the order in which they are accepted, and so does    *)
(* the application of the device in the other direction.                   *)
(*                                                                         *)
(* The device is external.  It is the peer the code is written for: it     *)
(* accepts the I-frame with the number it expects, answers every I-frame   *)
(* and every poll with RR, or with RNR while it is busy, and answers TEST. *)
(* Like the daemon it has one I-frame on its way, which it repeats until   *)
(* that is acknowledged, and it ignores SREJ.  It keeps its numbers when   *)
(* the port is suspended and resumed, as the daemon never tells it to      *)
(* reset.                                                                  *)
(*                                                                         *)
(* A suspension leaves no completion of a write queued here: late is 0.    *)
(* What such a completion does to the station is shown in ProtocolState;   *)
(* it mixes the bytes of two frames, which no frame of this model does.    *)
(***************************************************************************)
EXTENDS Naturals, Sequences

CONSTANTS
  NoPayload,
  SeqModulus,
  ProbesPerBaudRate,
  MaxQueue,
  MaxPackets,   \* bound: packets submitted
  DevicePackets,  \* bound: packets the device sends
  MaxLine,      \* bound: frames in one direction of the line
  MaxRestarts,  \* bound: suspensions of the port
  BusyDevice,   \* the device may stop the flow
  SlowTimers    \* the timers of 500 ms are slower than a frame and its answer

ASSUME ConstantsAssumption ==
  /\ SeqModulus \in Nat /\ SeqModulus > 1
  /\ ProbesPerBaudRate \in Nat \ {0}
  /\ {MaxQueue, MaxPackets, DevicePackets, MaxLine, MaxRestarts} \subseteq Nat
  /\ NoPayload \notin 1..(MaxPackets + DevicePackets)
  /\ {BusyDevice, SlowTimers} \subseteq BOOLEAN

VARIABLES
  ps, m_Registered, m_CurrentBaudrateIndex,
  m_eAliveState, m_bFrameWasReceived, m_ProbeCounter, m_StateTimer, m_ProbeTimer,
  submitted,  \* packets accepted by the station
  restarts,
  toDevice, toDaemon,  \* the frames on the line
  expected,   \* the receive number of the device
  busy,
  delivered,  \* the packet the device accepted last
  offered,    \* the packet the device sent last
  confirmed,  \* the packet whose acknowledgement it received last
  received    \* the packet that was handed to the clients last

\* ~TRUE is FALSE in a form that TLC takes for the value of an expression.
Station == INSTANCE ProtocolState WITH
  Payload <- 1..(MaxPackets + DevicePackets),
  ReceivedFrames <- {},
  MaxLate <- 0, late <- 0, misled <- ~TRUE,
  offers <- IF submitted < MaxPackets
            THEN {[payload |-> submitted + 1, reliable |-> TRUE]} ELSE {}

stationVars == <<ps, m_Registered, m_CurrentBaudrateIndex, m_eAliveState,
                 m_bFrameWasReceived, m_ProbeCounter, m_StateTimer, m_ProbeTimer>>
deviceVars == <<expected, busy, delivered, offered, confirmed>>
vars == <<stationVars, submitted, received, restarts, toDevice, toDaemon, deviceVars>>

Queue == ps.m_WaitQueueReliable
Writing == ~Station!IsEmpty(ps.m_SendBuffer)

Init ==
  /\ Station!InitStation
  /\ submitted = 0
  /\ restarts = 0
  /\ toDevice = <<>>
  /\ toDaemon = <<>>
  /\ expected = 0
  /\ busy = FALSE
  /\ delivered = 0
  /\ offered = 0
  /\ confirmed = 0
  /\ received = 0

-----------------------------------------------------------------------------
(* Steps of the daemon.  A step that let in the packet on offer counts it. *)

CountSubmission ==
  submitted' = IF Queue' # <<>> /\ Queue'[Len(Queue')] = submitted + 1
               THEN submitted + 1 ELSE submitted

\* A frame reaches the line when its last byte was written.
WriteFrame ==
  /\ Len(toDevice) < MaxLine
  /\ toDevice' = Append(toDevice, ps.m_SendBuffer)
  /\ Station!TriggerNextHDLCFrame
  /\ CountSubmission
  /\ UNCHANGED <<received, restarts, toDaemon, deviceVars>>

ReceiveFrame ==
  /\ toDaemon # <<>>
  /\ Station!InterpretDeserializedFrame(Head(toDaemon))
  /\ toDaemon' = Tail(toDaemon)
  /\ received' = IF Head(toDaemon).type = "I" /\ ps.m_bStarted THEN Head(toDaemon).payload ELSE received
  /\ CountSubmission
  /\ UNCHANGED <<restarts, toDevice, deviceVars>>

Submit ==
  /\ submitted < MaxPackets
  /\ Station!SendPayload([payload |-> submitted + 1, reliable |-> TRUE])
  /\ CountSubmission
  /\ UNCHANGED <<received, restarts, toDevice, toDaemon, deviceVars>>

Timers == {"m_Timer", "m_StateTimer", "m_ProbeTimer"}

RunTimerHandler(timer) ==
  /\ \/ timer = "m_Timer" /\ (Station!OnRetransmissionTimeout \/ Station!OnQueryTimeout)
     \/ timer = "m_StateTimer" /\ Station!OnStateTimeout
     \/ timer = "m_ProbeTimer" /\ Station!OnProbeTimeout
  /\ CountSubmission
  /\ UNCHANGED <<received, restarts, toDevice, toDaemon, deviceVars>>

Quiet == ~Writing /\ toDevice = <<>> /\ toDaemon = <<>>

\* The state timer of 15 s is always slower than the line.
ExpireTimer(timer) ==
  /\ (SlowTimers \/ timer = "m_StateTimer") => Quiet
  /\ \/ timer = "m_Timer" /\ Station!TimerExpires
     \/ timer = "m_StateTimer" /\ Station!StateTimerExpires
     \/ timer = "m_ProbeTimer" /\ Station!ProbeTimerExpires
  /\ UNCHANGED <<submitted, received, restarts, toDevice, toDaemon, deviceVars>>

Open ==
  /\ Station!Start
  /\ CountSubmission
  /\ UNCHANGED <<received, restarts, toDevice, toDaemon, deviceVars>>

\* What was not read from the port is lost.
Suspend ==
  /\ restarts < MaxRestarts
  /\ restarts' = restarts + 1
  /\ Station!Stop
  /\ toDaemon' = <<>>
  /\ UNCHANGED <<submitted, received, toDevice, deviceVars>>

LoseFrame ==
  /\ \/ toDevice # <<>> /\ toDevice' = Tail(toDevice) /\ UNCHANGED toDaemon
     \/ toDaemon # <<>> /\ toDaemon' = Tail(toDaemon) /\ UNCHANGED toDevice
  /\ UNCHANGED <<stationVars, submitted, received, restarts, deviceVars>>

-----------------------------------------------------------------------------
(* Steps of the device.                                                    *)

Ready(isBusy, nr) == [Station!UnsetFrame EXCEPT !.type = IF isBusy THEN "RNR" ELSE "RR", !.nr = nr]

Reply(frame) == Len(toDaemon) < MaxLine /\ toDaemon' = Append(toDaemon, frame)

DeviceReceive(type) ==
  /\ toDevice # <<>> /\ Head(toDevice).type = type
  /\ toDevice' = Tail(toDevice)
  /\ LET frame == Head(toDevice)
         accepts == type = "I" /\ ~busy /\ frame.ns = expected
         confirms == /\ type \in {"I", "RR"} /\ confirmed < offered
                     /\ frame.nr = (confirmed + 1) % SeqModulus
     IN /\ expected' = IF accepts THEN (expected + 1) % SeqModulus ELSE expected
        /\ delivered' = IF accepts THEN frame.payload ELSE delivered
        /\ confirmed' = IF confirms THEN confirmed + 1 ELSE confirmed
        /\ \/ type = "TEST" /\ Reply(frame)
           \/ type # "TEST" /\ (type = "I" \/ frame.pf) /\ Reply(Ready(busy, expected'))
           \/ type \in {"RR", "SREJ"} /\ ~frame.pf /\ UNCHANGED toDaemon
  /\ UNCHANGED <<stationVars, submitted, received, restarts, busy, offered>>

DeviceChangesFlow ==
  /\ BusyDevice
  /\ busy' = ~busy
  /\ Reply(Ready(busy', expected))
  /\ UNCHANGED <<stationVars, submitted, received, restarts, toDevice, expected, delivered,
                 offered, confirmed>>

DeviceTransmits(packet) ==
  /\ Reply([Station!UnsetFrame EXCEPT !.type = "I", !.ns = (packet - 1) % SeqModulus,
                                      !.nr = expected, !.payload = packet])
  /\ offered' = packet
  /\ UNCHANGED <<stationVars, submitted, received, restarts, toDevice, expected, busy,
                 delivered, confirmed>>

DeviceSends == confirmed = offered /\ offered < DevicePackets /\ DeviceTransmits(offered + 1)

DeviceRepeats == confirmed < offered /\ (SlowTimers => Quiet) /\ DeviceTransmits(offered)

Next ==
  /\ ~Station!TransmittedWhileStopped
  /\ \/ WriteFrame
     \/ ReceiveFrame
     \/ Submit
     \/ \E timer \in Timers: RunTimerHandler(timer) \/ ExpireTimer(timer)
     \/ Open
     \/ Suspend
     \/ LoseFrame
     \/ \E type \in {"I", "RR", "SREJ", "TEST"}: DeviceReceive(type)
     \/ DeviceChangesFlow
     \/ DeviceSends
     \/ DeviceRepeats

Spec == Init /\ [][Next]_vars

(* The io_service runs its handlers, a line moves, and a timer that waits   *)
(* for nothing expires.  One of the two repetitions is due sooner or later  *)
(* by the clock, however often the line is busy in the meantime.  A kind of *)
(* frame that is sent again and again is not lost every time.               *)
Fairness ==
  /\ WF_vars(Open)
  /\ WF_vars(WriteFrame)
  /\ WF_vars(ReceiveFrame)
  /\ WF_vars(\E type \in {"I", "RR", "SREJ", "TEST"}: DeviceReceive(type))
  /\ \A timer \in Timers: WF_vars(RunTimerHandler(timer)) /\ WF_vars(ExpireTimer(timer))
  /\ SF_vars(ExpireTimer("m_Timer") \/ DeviceRepeats)
  /\ \A type \in {"I", "RR", "TEST"}:
       /\ SF_vars(ReceiveFrame /\ Head(toDaemon).type = type)
       /\ SF_vars(DeviceReceive(type))

FairSpec == Spec /\ Fairness
-----------------------------------------------------------------------------
TypeOK ==
  /\ Station!TypeOK
  /\ submitted \in 0..MaxPackets /\ delivered \in 0..MaxPackets
  /\ {offered, confirmed, received} \subseteq 0..DevicePackets
  /\ restarts \in 0..MaxRestarts
  /\ \A line \in {toDevice, toDaemon}: Len(line) <= MaxLine /\ line \in Seq(Station!Frame)
  /\ expected \in 0..(SeqModulus - 1)
  /\ busy \in BOOLEAN

Stream == INSTANCE ReliableStream WITH
  accepted <- submitted,
  released <- submitted - Len(Queue),
  suspended <- restarts > 0

(* The link implements the reliable stream: whatever is lost, repeated or  *)
(* late, a packet is acknowledged to the queue only after the device has   *)
(* accepted it, and the device accepts the packets in order.               *)
ImplementsReliableStream == Stream!Spec

(* No packet reaches the device twice, if the timers are slower than a     *)
(* frame and its answer, the device does not stop the flow and the port is *)
(* not suspended, and until the device sends I-frames of its own.  Any of  *)
(* these can end the wait for an acknowledgement that is still to come: an *)
(* N(R) that comes then is not taken for one any more, but it moves        *)
(* m_SSeqOutgoing, and the packet goes out again under the next number.    *)
DeliveredOnce == [][offered = 0 /\ expected' # expected => delivered' # delivered]_vars

(* Every accepted packet reaches the device, and every packet of the       *)
(* device is acknowledged to it: while some are on their way, a time comes *)
(* when none is.  RRs and the I-frames that carry acknowledgements may be  *)
(* lost, a timeout may find the line or the device not ready, and a        *)
(* repeated packet makes the daemon request others before it answers.      *)
AcceptedIsDelivered ==
  delivered < submitted \/ confirmed < offered ~> delivered = submitted /\ confirmed = offered

DeviceStream == INSTANCE ReliableStream WITH
  accepted <- offered,
  released <- confirmed,
  delivered <- received,
  suspended <- restarts > 0

(* In the other direction the daemon takes any number and acknowledges it: *)
(* the clients see the packets of the device in order and without a gap,   *)
(* and none is acknowledged that they have not seen, though the numbers    *)
(* wrap and the device repeats its packets whenever it likes.              *)
ImplementsDeviceStream == DeviceStream!Spec
=============================================================================
