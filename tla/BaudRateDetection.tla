------------------------- MODULE BaudRateDetection -------------------------
(***************************************************************************)
(* AliveState and BaudRate as ProtocolState and SerialPortHandler put them *)
(* together, against a device that talks at one baud rate, and may be      *)
(* unplugged and plugged in again at any other.  Clients may suspend the   *)
(* port and resume it.                                                     *)
(*                                                                         *)
(* The device is external: while it is plugged in it answers a TEST frame  *)
(* that was sent at its own baud rate, before the next probe is due (the   *)
(* assumption AnswersInTime), and may send frames of its own accord.  A    *)
(* frame sent at another baud rate is noise to the receiver.               *)
(***************************************************************************)
EXTENDS AliveState, BaudRate

VARIABLES
  m_bStarted,              \* ProtocolState::m_bStarted
  m_CurrentBaudrateIndex,  \* of SerialPortHandler::m_BaudRate
  device,                  \* the index of the baud rate the device talks at, or Unplugged
  answering                \* the device owes the answer to a probe

allVars == <<vars, m_bStarted, m_CurrentBaudrateIndex, device, answering>>

Unplugged == 2

CanHear == GetBaudRate(m_CurrentBaudrateIndex) = GetBaudRate(device) /\ device # Unplugged

DetectionTypeOK ==
  /\ TypeOK
  /\ m_bStarted \in BOOLEAN
  /\ m_CurrentBaudrateIndex \in BaudRateIndices
  /\ device \in BaudRateIndices \cup {Unplugged}
  /\ answering \in BOOLEAN

DetectionInit ==
  /\ Init
  /\ m_bStarted = FALSE
  /\ m_CurrentBaudrateIndex = 0
  /\ device \in BaudRateIndices \cup {Unplugged}
  /\ answering = FALSE

\* A probe leaves at the baud rate selected in this step.
Probe == answering' = (answering \/ CanHear')

OpenSerialPort ==
  /\ ~m_bStarted
  /\ m_bStarted' = TRUE
  /\ Start
  /\ UNCHANGED <<m_CurrentBaudrateIndex, device>>
  /\ Probe

\* What the device had to say is lost with the port.
SuspendSerialPort ==
  /\ m_bStarted
  /\ m_bStarted' = FALSE
  /\ Stop
  /\ answering' = FALSE
  /\ UNCHANGED <<m_CurrentBaudrateIndex, device>>

ReceiveAnswer ==
  /\ answering
  /\ answering' = FALSE
  /\ IF CanHear THEN OnFrameReceived ELSE UNCHANGED vars
  /\ UNCHANGED <<m_bStarted, m_CurrentBaudrateIndex, device>>

ReceiveTraffic ==
  /\ m_bStarted
  /\ CanHear
  /\ OnFrameReceived
  /\ UNCHANGED <<m_bStarted, m_CurrentBaudrateIndex, device, answering>>

StateTimeout ==
  /\ OnStateTimeout
  /\ UNCHANGED <<m_bStarted, m_CurrentBaudrateIndex, device, answering>>

\* ChangeBaudrateCallback, then SendProbeCallback.  A probe timeout that is late
\* for a suspended port ends the process, see TransmittedWhileStopped.
ProbeTimeout ==
  /\ m_bStarted
  /\ OnProbeTimeout
  /\ m_CurrentBaudrateIndex' = IF ChangesBaudrate THEN ToggleBaudRate(m_CurrentBaudrateIndex)
                                                  ELSE m_CurrentBaudrateIndex
  /\ UNCHANGED <<m_bStarted, device>>
  /\ IF SendsProbe THEN Probe ELSE UNCHANGED answering

AnswersInTime == ~answering

TimersExpire ==
  /\ StateTimerExpires \/ (AnswersInTime /\ ProbeTimerExpires)
  /\ UNCHANGED <<m_bStarted, m_CurrentBaudrateIndex, device, answering>>

\* An unplugged device takes the answer it owed with it.
Replug ==
  /\ device' \in (BaudRateIndices \cup {Unplugged}) \ {device}
  /\ answering' = FALSE
  /\ UNCHANGED <<vars, m_bStarted, m_CurrentBaudrateIndex>>

DetectionNext ==
  \/ OpenSerialPort
  \/ SuspendSerialPort
  \/ ReceiveAnswer
  \/ ReceiveTraffic
  \/ StateTimeout
  \/ ProbeTimeout
  \/ TimersExpire
  \/ Replug

(* The io_service runs every queued handler, an armed timer expires, and   *)
(* the device answers.  Nobody has to suspend or resume the port, to       *)
(* unplug a device or to send traffic.                                     *)
Fairness ==
  /\ WF_allVars(ReceiveAnswer)
  /\ WF_allVars(StateTimeout)
  /\ WF_allVars(ProbeTimeout)
  /\ WF_allVars(AnswersInTime /\ ProbeTimerExpires /\ TimersExpire)
  /\ WF_allVars(StateTimerExpires /\ TimersExpire)

DetectionSpec == DetectionInit /\ [][DetectionNext]_allVars /\ Fairness

-----------------------------------------------------------------------------
(* A device that stays plugged in is found once the port stays open, at    *)
(* whatever baud rate it talks and whatever was found before it, and found *)
(* again each time it was given up.                                        *)
DeviceIsFound == \A d \in BaudRateIndices: <>[](m_bStarted /\ device = d) => []<>IsAlive

(* A device that is gone for good is given up for good, and the daemon     *)
(* keeps probing for it at every baud rate.                                *)
SilentDeviceIsHunted ==
  <>[](m_bStarted /\ device = Unplugged) =>
    /\ <>[]~IsAlive
    /\ \A b \in BaudRateIndices: []<>(m_CurrentBaudrateIndex = b)
=============================================================================
