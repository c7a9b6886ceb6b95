-------------------------- MODULE MCProtocolState --------------------------
EXTENDS ProtocolState

\* The numbers of S- and U-frames that carry none are 0.
Received(types, nrs) ==
  {f \in Frame: /\ f.type \in types
                /\ f.nr \in (IF f.type = "TEST" THEN {0} ELSE nrs)
                /\ f.type = "I" \/ (f.ns = 0 /\ f.payload = NoPayload)
                /\ ~f.pf}

\* What concerns the frames the station sends.
SenderFrames == Received({"RR", "RNR", "REJ", "SREJ", "TEST"}, SeqNumbers)
FramesWithoutRNR == Received({"I", "RR", "REJ", "SREJ"}, SeqNumbers)
=============================================================================
