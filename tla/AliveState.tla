----------------------------- MODULE AliveState -----------------------------
(***************************************************************************)
(* src/SerialPort/HDLC/AliveState: is the device at the other end of the   *)
(* serial line alive?  The owner starts and stops the object and reports   *)
(* each valid HDLC frame; two timers demote a silent device and send       *)
(* probes.  The two callbacks into the owner (SendProbeCallback and        *)
(* ChangeBaudrateCallback) are the predicates SendsProbe and ChangesBaud-  *)
(* rate, which the owner evaluates in the step that calls OnProbeTimeout.  *)
(***************************************************************************)
EXTENDS Naturals, DeadlineTimer

CONSTANT ProbesPerBaudRate  \* 4 in the code: (m_ProbeCounter + 1) & 0x03
ASSUME ProbesPerBaudRateAssumption == ProbesPerBaudRate \in Nat \ {0}

VARIABLES
  m_eAliveState,        \* "PROBING", "FOUND" or "REPROBING"
  m_bFrameWasReceived,  \* a frame arrived since the last state timeout
  m_ProbeCounter,       \* probes sent at the current baud rate
  m_StateTimer,         \* 15 s
  m_ProbeTimer          \* 500 ms

vars == <<m_eAliveState, m_bFrameWasReceived, m_ProbeCounter, m_StateTimer, m_ProbeTimer>>

AliveStates == {"PROBING", "FOUND", "REPROBING"}

TypeOK ==
  /\ m_eAliveState \in AliveStates
  /\ m_bFrameWasReceived \in BOOLEAN
  /\ m_ProbeCounter \in 0..(ProbesPerBaudRate - 1)
  /\ m_StateTimer \in TimerType({"state"})
  /\ m_ProbeTimer \in TimerType({"probe"})

IsAlive == m_eAliveState \in {"FOUND", "REPROBING"}

Init ==
  /\ m_eAliveState = "PROBING"
  /\ m_bFrameWasReceived = FALSE
  /\ m_ProbeCounter = 0
  /\ m_StateTimer = IdleTimer
  /\ m_ProbeTimer = IdleTimer

Reset ==
  /\ m_eAliveState' = "PROBING"
  /\ m_bFrameWasReceived' = FALSE
  /\ m_ProbeCounter' = 0

\* Always ends in SendProbeCallback: the owner sends the first probe.
Start ==
  /\ Reset
  /\ m_StateTimer' = AsyncWait(Cancel(m_StateTimer), "state")
  /\ m_ProbeTimer' = AsyncWait(Cancel(m_ProbeTimer), "probe")

Stop ==
  /\ Reset
  /\ m_StateTimer' = Cancel(m_StateTimer)
  /\ m_ProbeTimer' = Cancel(m_ProbeTimer)

\* Mutant: only a device that is being probed is found.
OnFrameReceivedWhileProbing ==
  /\ m_bFrameWasReceived' = TRUE
  /\ m_eAliveState' = IF m_eAliveState = "PROBING" THEN "FOUND" ELSE m_eAliveState
  /\ UNCHANGED <<m_ProbeCounter, m_StateTimer, m_ProbeTimer>>

OnFrameReceived ==
  /\ m_bFrameWasReceived' = TRUE
  /\ m_eAliveState' = "FOUND"
  /\ UNCHANGED <<m_ProbeCounter, m_StateTimer, m_ProbeTimer>>

StateTimerExpires ==
  /\ CanExpire(m_StateTimer)
  /\ m_StateTimer' = Expire(m_StateTimer)
  /\ UNCHANGED <<m_eAliveState, m_bFrameWasReceived, m_ProbeCounter, m_ProbeTimer>>

ProbeTimerExpires ==
  /\ CanExpire(m_ProbeTimer)
  /\ m_ProbeTimer' = Expire(m_ProbeTimer)
  /\ UNCHANGED <<m_eAliveState, m_bFrameWasReceived, m_ProbeCounter, m_StateTimer>>

\* OnStateTimeout has no branch for a frame received while re-probing: it is
\* the assert(false) marked "This must not happen".
MustNotHappen == m_eAliveState = "REPROBING" /\ m_bFrameWasReceived

\* Mutants: a received frame is overlooked, a silent device is given up at once,
\* the timer is not started again.
OnStateTimeoutOverlooksFrame ==
  /\ m_StateTimer.queued = "state"
  /\ ~MustNotHappen
  /\ m_StateTimer' = AsyncWait(Dispatch(m_StateTimer), "state")
  /\ m_eAliveState' = IF m_eAliveState = "FOUND" THEN "REPROBING" ELSE "PROBING"
  /\ m_bFrameWasReceived' = FALSE
  /\ UNCHANGED <<m_ProbeCounter, m_ProbeTimer>>

OnStateTimeoutGivesUp ==
  /\ m_StateTimer.queued = "state"
  /\ m_StateTimer' = AsyncWait(Dispatch(m_StateTimer), "state")
  /\ m_eAliveState' = IF m_bFrameWasReceived THEN m_eAliveState ELSE "PROBING"
  /\ m_bFrameWasReceived' = FALSE
  /\ UNCHANGED <<m_ProbeCounter, m_ProbeTimer>>

OnStateTimeoutOnce ==
  /\ m_StateTimer.queued = "state"
  /\ ~MustNotHappen
  /\ m_StateTimer' = Dispatch(m_StateTimer)
  /\ m_eAliveState' = IF m_eAliveState = "FOUND" /\ ~m_bFrameWasReceived THEN "REPROBING" ELSE m_eAliveState
  /\ m_bFrameWasReceived' = FALSE
  /\ UNCHANGED <<m_ProbeCounter, m_ProbeTimer>>

\* The handler of m_StateTimer: OnStateTimeout, then StartStateTimer.
OnStateTimeout ==
  /\ m_StateTimer.queued = "state"
  /\ ~MustNotHappen
  /\ m_StateTimer' = AsyncWait(Dispatch(m_StateTimer), "state")
  /\ m_eAliveState' = CASE m_eAliveState = "FOUND" /\ ~m_bFrameWasReceived -> "REPROBING"
                        [] m_eAliveState = "REPROBING" -> "PROBING"
                        [] OTHER -> m_eAliveState
  /\ m_bFrameWasReceived' = (m_bFrameWasReceived /\ m_eAliveState # "FOUND")
  /\ UNCHANGED <<m_ProbeCounter, m_ProbeTimer>>

\* Mutant: the counter wraps before it is compared.
ChangesBaudrateTooLate == m_eAliveState = "PROBING" /\ m_ProbeCounter = ProbesPerBaudRate

\* The probes sent at this baud rate are used up: ChangeBaudrateCallback.
ChangesBaudrate == m_eAliveState = "PROBING" /\ (m_ProbeCounter + 1) % ProbesPerBaudRate = 0

\* OnProbeTimeout calls SendProbeCallback (after ChangeBaudrateCallback).
SendsProbe == m_eAliveState \in {"PROBING", "REPROBING"}

\* Mutant: the timer is not started again.
OnProbeTimeoutOnce ==
  /\ m_ProbeTimer.queued = "probe"
  /\ m_ProbeTimer' = Dispatch(m_ProbeTimer)
  /\ m_ProbeCounter' = IF m_eAliveState = "PROBING"
                       THEN (m_ProbeCounter + 1) % ProbesPerBaudRate
                       ELSE m_ProbeCounter
  /\ UNCHANGED <<m_eAliveState, m_bFrameWasReceived, m_StateTimer>>

\* The handler of m_ProbeTimer: OnProbeTimeout, then StartProbeTimer.
OnProbeTimeout ==
  /\ m_ProbeTimer.queued = "probe"
  /\ m_ProbeTimer' = AsyncWait(Dispatch(m_ProbeTimer), "probe")
  /\ m_ProbeCounter' = IF m_eAliveState = "PROBING"
                       THEN (m_ProbeCounter + 1) % ProbesPerBaudRate
                       ELSE m_ProbeCounter
  /\ UNCHANGED <<m_eAliveState, m_bFrameWasReceived, m_StateTimer>>

Next ==
  \/ Start
  \/ Stop
  \/ OnFrameReceived
  \/ StateTimerExpires
  \/ ProbeTimerExpires
  \/ OnStateTimeout
  \/ OnProbeTimeout

Spec == Init /\ [][Next]_vars

-----------------------------------------------------------------------------
(* A frame that arrives while the device is being re-probed brings it back *)
(* to FOUND before the next state timeout can look: the assert(false) in   *)
(* OnStateTimeout cannot be reached, whatever the order of frames, timers, *)
(* late timer handlers and restarts.                                       *)
ReprobingHeardNothing == ~MustNotHappen

(* A device heard since the last state timeout is still FOUND after the    *)
(* next one: no order of frames and of late timer handlers lets a state    *)
(* timeout demote a device that has just been heard.                       *)
HeardDeviceIsKept ==
  [][OnStateTimeout /\ m_bFrameWasReceived => m_eAliveState' = "FOUND"]_vars

(* A device is given up in two steps: from FOUND it goes to PROBING only   *)
(* when the owner restarts or stops the object, never on a state timeout;  *)
(* and nothing but a received frame makes a device alive.                  *)
GivenUpAfterReprobing ==
  [][/\ (m_eAliveState = "FOUND" /\ m_eAliveState' = "PROBING") => (Start \/ Stop)
     /\ (~IsAlive /\ IsAlive') => m_bFrameWasReceived']_vars
=============================================================================
