--------------------------- MODULE BookingDispatch --------------------------
(***************************************************************************)
(* What ends a booking without a job: the in-memory dispatch timer, the    *)
(* lazy sweep that stands in for a lost timer, the BookingTimeout sweeper, *)
(* and cancelBooking, with the refund each of them posts afterwards.       *)
(***************************************************************************)
EXTENDS Bookings

(* Mutant: one timer variable instead of the map of timers. *)
DispatchSingleTimer(s) ==
  LET b == call[s].b IN
  /\ At(s, "dispatch")
  /\ timers' = IF row[b].status = "PARTNER_SEARCHING" THEN {b} ELSE timers
  /\ Return(s)
  /\ UNCHANGED <<row, upi, money, window, clock, codes, crashes>>

(* dispatchBooking: only a searching booking is offered and gets a timer.  *)
Dispatch(s) ==
  LET b == call[s].b IN
  /\ At(s, "dispatch")
  /\ timers' = IF row[b].status = "PARTNER_SEARCHING" THEN timers \cup {b} ELSE timers
  /\ Return(s)
  /\ UNCHANGED <<row, upi, money, window, clock, codes, crashes>>

(* expireBooking: claims the row first, then looks for the escrow debit    *)
(* and refunds it in a transaction of its own.                             *)
TimerFires(s, b) ==
  /\ b \in timers
  /\ timers' = timers \ {b}
  /\ IF Unclaimed(row[b])
     THEN /\ Save(b, [row[b] EXCEPT !.status = "EXPIRED"])
          /\ Begin(s, "expire.check", b, "SYSTEM", SeenNothing)
     ELSE UNCHANGED <<row, call>>
  /\ UNCHANGED <<upi, money, window, clock, codes, crashes>>

(* A gateway payment is a DEBIT row, not a WALLET_DEBIT: no hold is found. *)
ExpireCheck(s) ==
  LET b == call[s].b IN
  /\ At(s, "expire.check")
  /\ IF money[b].holds > 0 /\ ~row[b].refunded THEN Goto(s, "expire.refund") ELSE Return(s)
  /\ UNCHANGED <<row, upi, money, timers, window, clock, codes, crashes>>

Refund(b) == Post(b, "refunds") /\ Save(b, [row[b] EXCEPT !.refunded = TRUE])

ExpireRefund(s) ==
  /\ At(s, "expire.refund")
  /\ Refund(call[s].b)
  /\ Return(s)
  /\ UNCHANGED <<upi, timers, window, clock, codes, crashes>>

(* expireStaleSearches, run before every partner job listing: one update   *)
(* of all the unclaimed searches whose booking is older than the window    *)
(* (30 minutes: longer than the request that creates and dispatches it).   *)
Dispatching(b) == \E s \in Slots : At(s, "dispatch") /\ call[s].b = b

(* Mutant: the update asks only that nobody took the booking. *)
LazySweepAnyStage ==
  \E Stale \in SUBSET {b \in Bookings : Exists(b) /\ row[b].partner = NoPartner /\ ~Dispatching(b)} :
    /\ Stale # {}
    /\ row' = [b \in Bookings |-> IF b \in Stale THEN [row[b] EXCEPT !.status = "EXPIRED"]
                                                 ELSE row[b]]
    /\ UNCHANGED <<upi, money, timers, window, clock, call, codes, crashes>>

LazySweep ==
  \E Stale \in SUBSET {b \in Bookings : Unclaimed(row[b]) /\ ~Dispatching(b)} :
    /\ Stale # {}
    /\ row' = [b \in Bookings |-> IF b \in Stale THEN [row[b] EXCEPT !.status = "EXPIRED"]
                                                 ELSE row[b]]
    /\ UNCHANGED <<upi, money, timers, window, clock, call, codes, crashes>>

(* processTimeoutBookings: the batch is read with its bookings; one that   *)
(* has a partner or left the search is only marked, any other cancelled.   *)
Sweep(s, b) ==
  /\ window[b] = "open"
  /\ IF row[b].partner = NoPartner
        /\ row[b].status \in {"PARTNER_SEARCHING", "PAYMENT_SUCCESSFUL", "PAYMENT_PENDING"}
     THEN Begin(s, "cancel.read", b, "SYSTEM", SeenNothing)
     ELSE Begin(s, "sweep.mark", b, "SYSTEM", SeenNothing)
  /\ UNCHANGED <<row, upi, money, timers, window, clock, codes, crashes>>

SweepMark(s) ==
  /\ At(s, "sweep.mark")
  /\ window' = [window EXCEPT ![call[s].b] = "done"]
  /\ Return(s)
  /\ UNCHANGED <<row, upi, money, timers, clock, codes, crashes>>

-----------------------------------------------------------------------------
(* cancelBooking.  The user, the assigned partner (cancelBookingHandler),  *)
(* and a partner rejecting an accepted job (rejectBooking) arrive here;    *)
(* ownership and stage are checked on a row read before cancelBooking's.   *)
RequestCancel(s, b) ==
  /\ Exists(b)
  /\ Begin(s, "cancel.read", b, "PARTY", SeenNothing)
  /\ UNCHANGED <<row, upi, money, timers, window, clock, codes, crashes>>

RejectAccepted(s, b) ==
  /\ row[b].status = "PARTNER_ACCEPTED" /\ row[b].partner # NoPartner
  /\ Begin(s, "cancel.read", b, "PARTY", SeenNothing)
  /\ UNCHANGED <<row, upi, money, timers, window, clock, codes, crashes>>

Terminal == {"COMPLETED", "CANCELLED", "REFUND_INITIATED", "REFUND_COMPLETED"}

(* The sweeper marks its BookingTimeout row when cancelBooking returns.    *)
EndCancel(s) == IF call[s].who = "SYSTEM" THEN Goto(s, "sweep.mark") ELSE Return(s)

CancelRead(s) ==
  LET b == call[s].b IN
  /\ At(s, "cancel.read")
  /\ IF row[b].status \in Terminal
     THEN EndCancel(s)
     ELSE GotoSeeing(s, "cancel.claim", SeenStage(row[b]))
  /\ UNCHANGED <<row, upi, money, timers, window, clock, codes, crashes>>

(* Mutants: the refund forgets the payment; it forgets expired bookings.   *)
RefundDueUnpaid(seen) ==
  seen.status \in {"PAYMENT_PENDING", "PAYMENT_INITIATED", "PAYMENT_SUCCESSFUL",
                   "PARTNER_SEARCHING", "EXPIRED", "PARTNER_ACCEPTED", "OTP_GENERATED"}
RefundDueUnlessExpired(seen) ==
  /\ seen.pay = "PAID"
  /\ seen.status \in {"PAYMENT_PENDING", "PAYMENT_INITIATED", "PAYMENT_SUCCESSFUL",
                      "PARTNER_SEARCHING", "PARTNER_ACCEPTED", "OTP_GENERATED"}

(* Full refund before a partner commits, less a fee after; the stage and   *)
(* the payment are those of the row that was READ.                         *)
RefundDue(seen) ==
  /\ seen.pay = "PAID"
  /\ seen.status \in {"PAYMENT_PENDING", "PAYMENT_INITIATED", "PAYMENT_SUCCESSFUL",
                      "PARTNER_SEARCHING", "EXPIRED", "PARTNER_ACCEPTED", "OTP_GENERATED"}

CancelClaim(s) ==
  LET b == call[s].b IN
  /\ At(s, "cancel.claim")
  /\ IF row[b].status \notin Terminal /\ (call[s].who = "SYSTEM" \/ CanCancel(b))
     THEN /\ Save(b, [row[b] EXCEPT !.status = "CANCELLED"])
          /\ IF RefundDue(call[s].seen) THEN Goto(s, "cancel.refund") ELSE EndCancel(s)
     ELSE EndCancel(s) /\ UNCHANGED row
  /\ UNCHANGED <<upi, money, timers, window, clock, codes, crashes>>

CancelRefund(s) ==
  /\ At(s, "cancel.refund")
  /\ Refund(call[s].b)
  /\ EndCancel(s)
  /\ UNCHANGED <<upi, timers, window, clock, codes, crashes>>

-----------------------------------------------------------------------------
(* Time passes and the process restarts.                                   *)
Tick(b) ==
  /\ clock[b] < Phases /\ Exists(b)
  /\ clock' = [clock EXCEPT ![b] = @ + 1]
  /\ UNCHANGED <<row, upi, money, timers, window, call, codes, crashes>>

(* Timers live in the process; the rows survive.  A transaction is never   *)
(* half done, so what is lost is the rest of every handler in flight.      *)
Crash ==
  /\ crashes < MaxCrashes
  /\ crashes' = crashes + 1
  /\ timers' = {}
  /\ call' = [s \in Slots |-> Idle]
  /\ UNCHANGED <<row, upi, money, window, clock, codes>>

DispatchStep(s) ==
  \/ Dispatch(s) \/ ExpireCheck(s) \/ ExpireRefund(s) \/ SweepMark(s)
  \/ CancelRead(s) \/ CancelClaim(s) \/ CancelRefund(s)

DispatchRequest(s, b) ==
  \/ TimerFires(s, b) \/ Sweep(s, b)
  \/ RequestCancel(s, b) \/ RejectAccepted(s, b)

Time == LazySweep \/ Crash \/ \E b \in Bookings : Tick(b)
=============================================================================
