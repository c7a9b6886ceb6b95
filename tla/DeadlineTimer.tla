--------------------------- MODULE DeadlineTimer ---------------------------
(***************************************************************************)
(* External: boost::asio::deadline_timer on a single-threaded io_service,  *)
(* as AliveState and ProtocolState use it.  A timer is the wait it is      *)
(* armed with, and the completion handler that has already been queued     *)
(* with success and not yet been run.  expires_from_now and cancel abort   *)
(* the armed wait (its handler then does nothing) and cannot take back a   *)
(* queued handler.  A new expiry is collected only after the handlers of   *)
(* the previous collection have run, so at most one is queued per timer.   *)
(***************************************************************************)

Off == "off"

TimerType(Waits) == [armed: Waits \cup {Off}, queued: Waits \cup {Off}]

IdleTimer == [armed |-> Off, queued |-> Off]

\* expires_from_now, then async_wait with the handler w.
AsyncWait(timer, w) == [timer EXCEPT !.armed = w]

Cancel(timer) == [timer EXCEPT !.armed = Off]

CanExpire(timer) == timer.armed # Off /\ timer.queued = Off

Expire(timer) == [armed |-> Off, queued |-> timer.armed]

\* The handler leaves the queue: it is being run.
Dispatch(timer) == [timer EXCEPT !.queued = Off]

\* The handler w will run unless the timer is cancelled in time.
Pending(timer, w) == timer.armed = w \/ timer.queued = w
=============================================================================
