----------------------------- MODULE MCHdlcLink -----------------------------
EXTENDS HdlcLink

\* Bound of the exploration: once the device sends packets of its own, TLC
\* follows neither a suspension nor a stopped flow, and no second packet of
\* the clients.
DeviceSendsUndisturbed ==
  offered > 0 => /\ restarts = 0
                 /\ ~busy /\ ~ps.m_bPeerStoppedFlow
                 /\ submitted <= 1
=============================================================================
