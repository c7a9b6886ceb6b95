------------------------------ MODULE BaudRate ------------------------------
(* src/SerialPort/BaudRate.h: the baud rates the daemon steps through.     *)
EXTENDS Naturals

BaudRateIndices == 0..1

GetBaudRate(m_CurrentBaudrateIndex) == IF m_CurrentBaudrateIndex = 0 THEN 9600 ELSE 115200

\* Mutant: the index is counted up and never wraps.
ToggleBaudRateCountsUp(m_CurrentBaudrateIndex) == m_CurrentBaudrateIndex + 1

ToggleBaudRate(m_CurrentBaudrateIndex) == IF m_CurrentBaudrateIndex = 0 THEN 1 ELSE 0
=============================================================================
