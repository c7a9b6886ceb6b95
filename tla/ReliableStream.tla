--------------------------- MODULE ReliableStream ---------------------------
(***************************************************************************)
(* What the reliable service of the daemon promises to its clients: the    *)
(* packets it has accepted reach the device in order and without a gap,    *)
(* and a packet is dropped from the queue only when it has reached the     *)
(* device.  Packets are numbered in the order of their acceptance, and     *)
(* accepted, delivered and released are the numbers of the last packet     *)
(* that got so far.  The service does not promise that a packet reaches    *)
(* the device only once.  Once the port has been suspended, a packet may   *)
(* be lost or reach the device again, and only the order is left: no       *)
(* packet reaches the device after a younger one.                          *)
(***************************************************************************)
EXTENDS Naturals

VARIABLES accepted, delivered, released, suspended

streamVars == <<accepted, delivered, released, suspended>>

InOrder == released <= delivered /\ delivered <= accepted

Init == accepted = 0 /\ delivered = 0 /\ released = 0 /\ suspended = FALSE

Deliver ==
  /\ ~suspended
  /\ delivered < accepted
  /\ delivered' = delivered + 1
  /\ UNCHANGED <<accepted, released, suspended>>

\* A packet that makes room in the queue may let in the next one at once.
AcceptOrRelease ==
  /\ ~suspended
  /\ accepted' \in {accepted, accepted + 1}
  /\ released' \in {released, released + 1}
  /\ released' <= delivered
  /\ UNCHANGED <<delivered, suspended>>

Suspend ==
  /\ suspended' = TRUE
  /\ UNCHANGED <<accepted, delivered, released>>

AfterSuspension ==
  /\ suspended
  /\ accepted' \in {accepted, accepted + 1}
  /\ released' \in {released, released + 1} /\ released' <= accepted
  /\ delivered' \in delivered..accepted
  /\ UNCHANGED suspended

Next == Deliver \/ AcceptOrRelease \/ Suspend \/ AfterSuspension

Spec == Init /\ [][Next]_streamVars
=============================================================================
