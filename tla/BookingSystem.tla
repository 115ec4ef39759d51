---------------------------- MODULE BookingSystem ---------------------------
(***************************************************************************)
(* The booking system: payment, dispatch and job workflow running together *)
(* over the same rows, and what they promise.                              *)
(***************************************************************************)
EXTENDS BookingPayment, BookingDispatch, JobWorkflow

Step(s) == PaymentStep(s) \/ DispatchStep(s) \/ JobStep(s)

Next ==
  \/ \E s \in Slots : Step(s)
  \/ \E s \in Slots, b \in Bookings :
       PaymentRequest(s, b) \/ DispatchRequest(s, b) \/ JobRequest(s, b)
  \/ \E b \in Bookings : AdminUpi(b) \/ CodeLapses(b)
  \/ Time

Spec == Init /\ [][Next]_vars

-----------------------------------------------------------------------------
(* Safety that holds however the handlers interleave.                      *)

(* Nobody works on a booking no money was taken for: a partner is on the   *)
(* row only if its escrow hold or its gateway payment is in the ledger.    *)
(* The claims of acceptBooking and assignPartnerToBooking read the status  *)
(* only, so this rests on who may write PARTNER_SEARCHING.                 *)
PartnerImpliesFunded == \A b \in Bookings : row[b].partner # NoPartner => Funded(b)

(* "A refund is ONLY ever issued against money the platform actually       *)
(* holds" (cancelBooking): no REFUND row without an earlier debit, though  *)
(* the decision is taken on a stale paymentStatus that an admin's REJECT,  *)
(* a resubmitted reference and a settlement rewrite in between.            *)
RefundImpliesFunded == \A b \in Bookings : money[b].refunds > 0 => Funded(b)

(* Rule 84 of bookingStateMachine, for the money: a partner is paid only   *)
(* for a booking whose start code and whose completion code were entered.  *)
PayoutFollowsBothCodes ==
  \A b \in Bookings : money[b].payouts > 0 => codes[b] = {"start", "done"}

(* "Single enforced entry into IN_PROGRESS" (partnerController.verifyOTP): *)
(* no row waits for its start with a start code already checked, which is  *)
(* what startBooking requires: that second entry can never be taken.       *)
StartVerifyIsOnlyEntry ==
  \A b \in Bookings : row[b].status = "OTP_GENERATED" => row[b].otp = "sent"

(* A booking still to be settled in cash never reaches a partner: nothing  *)
(* moves a PENDING_CASH row into the search, and every handler that does   *)
(* start a search overwrites PENDING_CASH.                                 *)
CashNeverReachesPartner ==
  \A b \in Bookings : row[b].pay = "PENDING_CASH" => row[b].partner = NoPartner

(* A hold no UPI reference asked for: the wallet paid when the booking was *)
(* created.                                                                *)
WalletHeld(b) == money[b].holds > 0 /\ \A u \in Claims : upi[b][u] = "NONE"

(* dispatchBooking arms a timer for every search, and nothing but a claim  *)
(* of the row disarms it: while the process has not restarted, a booking   *)
(* paid from the wallet never searches unwatched, so that its money cannot *)
(* stay with a search nobody ends.                                         *)
SearchIsTimed ==
  \A b \in Bookings : WalletHeld(b) /\ row[b].status = "PARTNER_SEARCHING"
    => b \in timers \/ Dispatching(b) \/ crashes > 0

(* Cancelling a booking nobody took, paid from the wallet, has given the   *)
(* money back or is about to: the stage cancelBooking READ is one that is  *)
(* refunded although the timer, the sweep or a claim may write in between. *)
Refunding(b) == \E s \in Slots : At(s, "cancel.refund") /\ call[s].b = b
CancelledIsRefunded ==
  \A b \in Bookings :
    WalletHeld(b) /\ row[b].status = "CANCELLED" /\ row[b].partner = NoPartner
      => row[b].refunded \/ Refunding(b) \/ crashes > 0

(* EXPIRED is not terminal for cancelBooking: the hold of an expired and   *)
(* then cancelled booking may be refunded twice, but never a third time,   *)
(* and never twice before it is cancelled.                                 *)
UntakenRefundsBounded ==
  \A b \in Bookings : WalletHeld(b) /\ row[b].partner = NoPartner
    => money[b].refunds <= IF row[b].status = "CANCELLED" THEN 2 ELSE 1

(* The first partner to claim a booking keeps it: no later claim, settle,  *)
(* expiry or stale write hands the row to another partner or to nobody.    *)
PartnerNeverReplaced ==
  [][\A b \in Bookings : row[b].partner # NoPartner => row'[b].partner = row[b].partner]_vars

=============================================================================
