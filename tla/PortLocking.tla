---------------------------- MODULE PortLocking ----------------------------
(***************************************************************************)
(* What suspending and resuming a serial port promises to the clients that *)
(* share it: the port is open exactly while some client is attached and    *)
(* none of them holds a lock.  Each client holds at most one lock, its     *)
(* lock goes with the client, and only a kill request or a port that       *)
(* cannot be opened detaches the clients all at once.                      *)
(***************************************************************************)
CONSTANT Clients

VARIABLES attached, holders, open

lockingVars == <<attached, holders, open>>

OpenAsNeeded == open' = (attached' # {} /\ holders' = {})

Init == attached = {} /\ holders = {} /\ open = FALSE

Attach(c) ==
  /\ attached' = attached \cup {c}
  /\ UNCHANGED holders
  /\ OpenAsNeeded

Acquire(c) ==
  /\ c \in attached
  /\ holders' = holders \cup {c}
  /\ UNCHANGED attached
  /\ OpenAsNeeded

Release(c) ==
  /\ holders' = holders \ {c}
  /\ UNCHANGED attached
  /\ OpenAsNeeded

Detach(c) ==
  /\ attached' = attached \ {c}
  /\ holders' = holders \ {c}
  /\ OpenAsNeeded

DetachAll == attached' = {} /\ holders' = {} /\ open' = FALSE

Next ==
  \/ \E c \in Clients: Attach(c) \/ Acquire(c) \/ Release(c) \/ Detach(c)
  \/ DetachAll

Spec == Init /\ [][Next]_lockingVars
=============================================================================
