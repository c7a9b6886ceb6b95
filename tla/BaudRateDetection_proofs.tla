---------------------- MODULE BaudRateDetection_proofs ----------------------
(***************************************************************************)
(* What AliveState guarantees for every number of probes per baud rate,    *)
(* and that its owners use it as it is specified: whatever the device, the *)
(* clients and the timers do, each step of ProtocolState and               *)
(* SerialPortHandler is an operation of AliveState or leaves it alone.     *)
(* What is proved of AliveState therefore holds of the detection of the    *)
(* baud rate.                                                              *)
(***************************************************************************)
EXTENDS BaudRateDetection, TLAPS

-----------------------------------------------------------------------------
(* AliveState by itself.  Its properties are not inductive as they stand:  *)
(* the strengthening is HeardMeansFound.                                   *)

(* A frame that was not yet accounted for by a state timeout keeps the     *)
(* device FOUND.                                                           *)
HeardMeansFound == m_bFrameWasReceived => m_eAliveState = "FOUND"

IInv == TypeOK /\ HeardMeansFound

(* No operation on a timer leaves the type of the timer.                   *)
LEMMA TimerOperations ==
  ASSUME NEW Waits, NEW timer \in TimerType(Waits), NEW w \in Waits
  PROVE  /\ IdleTimer \in TimerType(Waits)
         /\ AsyncWait(timer, w) \in TimerType(Waits)
         /\ Cancel(timer) \in TimerType(Waits)
         /\ Expire(timer) \in TimerType(Waits)
         /\ Dispatch(timer) \in TimerType(Waits)
  BY DEF TimerType, IdleTimer, AsyncWait, Cancel, Expire, Dispatch

(* The inductive invariant holds initially.                                *)
LEMMA InitInv == Init => IInv
<1> SUFFICES ASSUME Init PROVE IInv
  OBVIOUS
<1>1. m_StateTimer \in TimerType({"state"}) /\ m_ProbeTimer \in TimerType({"probe"})
  BY DEF Init, TimerType, IdleTimer
<1>2. m_ProbeCounter \in 0..(ProbesPerBaudRate - 1)
  BY ProbesPerBaudRateAssumption DEF Init
<1> QED
  BY <1>1, <1>2 DEF Init, IInv, TypeOK, HeardMeansFound, AliveStates

(* Every operation preserves the inductive invariant.                      *)
LEMMA NextInv == IInv /\ [Next]_vars => IInv'
<1> SUFFICES ASSUME IInv, [Next]_vars PROVE IInv'
  OBVIOUS
<1> USE ProbesPerBaudRateAssumption DEF IInv, TypeOK, HeardMeansFound, AliveStates
<1>0. ProbesPerBaudRate \in Nat \ {0} /\ m_ProbeCounter \in Nat
  OBVIOUS
<1>1. CASE Start
  <2>1. Cancel(m_StateTimer) \in TimerType({"state"}) /\ Cancel(m_ProbeTimer) \in TimerType({"probe"})
    BY TimerOperations
  <2>2. m_StateTimer' \in TimerType({"state"}) /\ m_ProbeTimer' \in TimerType({"probe"})
    BY <1>1, <2>1, TimerOperations DEF Start
  <2>3. 0 \in 0..(ProbesPerBaudRate - 1)
    BY <1>0
  <2> QED
    BY <1>1, <2>2, <2>3 DEF Start, Reset
<1>2. CASE Stop
  <2>1. m_StateTimer' \in TimerType({"state"}) /\ m_ProbeTimer' \in TimerType({"probe"})
    BY <1>2, TimerOperations DEF Stop
  <2>2. 0 \in 0..(ProbesPerBaudRate - 1)
    BY <1>0
  <2> QED
    BY <1>2, <2>1, <2>2 DEF Stop, Reset
<1>3. CASE OnFrameReceived
  BY <1>3 DEF OnFrameReceived
<1>4. CASE StateTimerExpires
  BY <1>4, TimerOperations DEF StateTimerExpires
<1>5. CASE ProbeTimerExpires
  BY <1>5, TimerOperations DEF ProbeTimerExpires
<1>6. CASE OnStateTimeout
  <2>1. m_StateTimer' \in TimerType({"state"})
    BY <1>6, TimerOperations DEF OnStateTimeout
  <2>2. m_eAliveState' \in AliveStates /\ m_bFrameWasReceived' \in BOOLEAN
    BY <1>6 DEF OnStateTimeout
  <2>3. HeardMeansFound'
    BY <1>6 DEF OnStateTimeout, MustNotHappen
  <2> QED
    BY <1>6, <2>1, <2>2, <2>3 DEF OnStateTimeout
<1>7. CASE OnProbeTimeout
  <2>1. m_ProbeTimer' \in TimerType({"probe"})
    BY <1>7, TimerOperations DEF OnProbeTimeout
  <2>2. m_ProbeCounter' \in 0..(ProbesPerBaudRate - 1)
    BY <1>0, <1>7 DEF OnProbeTimeout
  <2> QED
    BY <1>7, <2>1, <2>2 DEF OnProbeTimeout
<1>8. CASE UNCHANGED vars
  BY <1>8 DEF vars
<1> QED
  BY <1>1, <1>2, <1>3, <1>4, <1>5, <1>6, <1>7, <1>8 DEF Next

(* The inductive invariant holds throughout.                               *)
LEMMA Invariance == Spec => []IInv
  BY InitInv, NextInv, PTL DEF Spec

-----------------------------------------------------------------------------
(* The members of AliveState keep their types.                             *)
THEOREM TypeCorrect == Spec => []TypeOK
<1>1. IInv => TypeOK
  BY DEF IInv
<1> QED
  BY <1>1, Invariance, PTL

(* The assert(false) in OnStateTimeout is never reached.                   *)
THEOREM AssertionHolds == Spec => []ReprobingHeardNothing
<1>1. IInv => ReprobingHeardNothing
  BY DEF IInv, HeardMeansFound, ReprobingHeardNothing, MustNotHappen
<1> QED
  BY <1>1, Invariance, PTL

(* No state timeout demotes a device heard since the previous one.         *)
THEOREM HeardIsKept == Spec => HeardDeviceIsKept
<1>1. IInv => [OnStateTimeout /\ m_bFrameWasReceived => m_eAliveState' = "FOUND"]_vars
  BY DEF IInv, HeardMeansFound, OnStateTimeout
<1> QED
  BY <1>1, Invariance, PTL DEF HeardDeviceIsKept

(* From FOUND a device gets to PROBING only with a restart or a stop, and  *)
(* only a received frame makes a device alive.                             *)
THEOREM GivenUpInTwoSteps == Spec => GivenUpAfterReprobing
<1>1. IInv /\ [Next]_vars =>
        [/\ (m_eAliveState = "FOUND" /\ m_eAliveState' = "PROBING") => (Start \/ Stop)
         /\ (~IsAlive /\ IsAlive') => m_bFrameWasReceived']_vars
  BY DEF Next, vars, IsAlive, IInv, TypeOK, AliveStates, Start, Stop, Reset, OnFrameReceived,
         StateTimerExpires, ProbeTimerExpires, OnStateTimeout, OnProbeTimeout
<1> QED
  BY <1>1, Invariance, PTL DEF Spec, GivenUpAfterReprobing

-----------------------------------------------------------------------------
(* The detection of the baud rate.                                         *)

(* The owner starts with AliveState in its initial state.                  *)
LEMMA DetectionInitImplements == DetectionInit => Init
  BY DEF DetectionInit

(* Every step of the detection is one of AliveState, or none.              *)
LEMMA DetectionStepImplements == [DetectionNext]_allVars => [Next]_vars
<1> SUFFICES ASSUME [DetectionNext]_allVars PROVE [Next]_vars
  OBVIOUS
<1>1. CASE OpenSerialPort
  BY <1>1 DEF OpenSerialPort, Next
<1>2. CASE SuspendSerialPort
  BY <1>2 DEF SuspendSerialPort, Next
<1>3. CASE ReceiveAnswer
  BY <1>3 DEF ReceiveAnswer, Next
<1>4. CASE ReceiveTraffic
  BY <1>4 DEF ReceiveTraffic, Next
<1>5. CASE StateTimeout
  BY <1>5 DEF StateTimeout, Next
<1>6. CASE ProbeTimeout
  BY <1>6 DEF ProbeTimeout, Next
<1>7. CASE TimersExpire
  BY <1>7 DEF TimersExpire, Next
<1>8. CASE Replug
  BY <1>8 DEF Replug
<1>9. CASE UNCHANGED allVars
  BY <1>9 DEF allVars
<1> QED
  BY <1>1, <1>2, <1>3, <1>4, <1>5, <1>6, <1>7, <1>8, <1>9 DEF DetectionNext

(* The detection of the baud rate is an AliveState that its owner starts,  *)
(* stops and feeds with frames.                                            *)
THEOREM DetectionImplementsAliveState == DetectionSpec => Spec
  BY DetectionInitImplements, DetectionStepImplements, PTL DEF DetectionSpec, Spec

-----------------------------------------------------------------------------
\* What the owner keeps beside AliveState.
OwnerTypeOK ==
  /\ m_bStarted \in BOOLEAN
  /\ m_CurrentBaudrateIndex \in BaudRateIndices
  /\ device \in BaudRateIndices \cup {Unplugged}
  /\ answering \in BOOLEAN

(* The owner's variables keep their types: the index of the baud rate      *)
(* wraps, and never points beyond the list of baud rates.                  *)
LEMMA OwnerStep == OwnerTypeOK /\ [DetectionNext]_allVars => OwnerTypeOK'
<1> SUFFICES ASSUME OwnerTypeOK, [DetectionNext]_allVars PROVE OwnerTypeOK'
  OBVIOUS
<1> USE DEF OwnerTypeOK
<1>1. \A i: ToggleBaudRate(i) \in BaudRateIndices
  BY DEF ToggleBaudRate, BaudRateIndices
<1>2. ASSUME Probe PROVE answering' \in BOOLEAN
  BY <1>2 DEF Probe
<1>3. CASE OpenSerialPort
  BY <1>2, <1>3 DEF OpenSerialPort
<1>4. CASE SuspendSerialPort
  BY <1>4 DEF SuspendSerialPort
<1>5. CASE ReceiveAnswer
  BY <1>5 DEF ReceiveAnswer
<1>6. CASE ReceiveTraffic
  BY <1>6 DEF ReceiveTraffic
<1>7. CASE StateTimeout
  BY <1>7 DEF StateTimeout
<1>8. CASE ProbeTimeout
  BY <1>1, <1>2, <1>8 DEF ProbeTimeout
<1>9. CASE TimersExpire
  BY <1>9 DEF TimersExpire
<1>10. CASE Replug
  BY <1>10 DEF Replug
<1>11. CASE UNCHANGED allVars
  BY <1>11 DEF allVars
<1> QED
  BY <1>3, <1>4, <1>5, <1>6, <1>7, <1>8, <1>9, <1>10, <1>11 DEF DetectionNext

(* Every variable of the detection keeps its type.                         *)
THEOREM DetectionTypeCorrect == DetectionSpec => []DetectionTypeOK
<1>1. DetectionInit => OwnerTypeOK
  <2>1. 0 \in BaudRateIndices
    BY DEF BaudRateIndices
  <2> QED
    BY <2>1 DEF DetectionInit, OwnerTypeOK
<1>2. TypeOK /\ OwnerTypeOK => DetectionTypeOK
  BY DEF OwnerTypeOK, DetectionTypeOK
<1> QED
  BY <1>1, <1>2, OwnerStep, DetectionImplementsAliveState, TypeCorrect, PTL DEF DetectionSpec

(* The assertion in OnStateTimeout holds against every device.             *)
THEOREM DetectionAssertionHolds == DetectionSpec => []ReprobingHeardNothing
  BY DetectionImplementsAliveState, AssertionHolds, PTL

(* A device that was just heard is not demoted, at whatever baud rate it   *)
(* talks and however it is unplugged and plugged in again.                 *)
THEOREM DetectionKeepsHeardDevice == DetectionSpec => HeardDeviceIsKept
  BY DetectionImplementsAliveState, HeardIsKept, PTL

(* A device that is unplugged is given up in two steps.                    *)
THEOREM DetectionGivesUpInTwoSteps == DetectionSpec => GivenUpAfterReprobing
  BY DetectionImplementsAliveState, GivenUpInTwoSteps, PTL
=============================================================================
