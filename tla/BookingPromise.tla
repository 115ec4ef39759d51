--------------------------- MODULE BookingPromise ---------------------------
(***************************************************************************)
(* The booking system against the promises of Engagement and Milestones,   *)
(* and what it must eventually do.                                         *)
(***************************************************************************)
EXTENDS BookingSystem

Stage(status) ==
  CASE status \in {"NONE", "PAYMENT_PENDING", "PAYMENT_INITIATED"} -> "none"
    [] status = "PARTNER_SEARCHING" -> "offered"
    [] status = "PARTNER_ASSIGNED" -> "reserved"
    [] status = "PARTNER_ACCEPTED" -> "taken"
    [] status = "OTP_GENERATED" -> "coded"
    [] status = "IN_PROGRESS" -> "started"
    [] status = "COMPLETION_REQUESTED" -> "finishing"
    [] status = "COMPLETED" -> "settled"
    [] OTHER -> "closed"

Engaged == INSTANCE Engagement WITH
  stage <- [b \in Bookings |-> Stage(row[b].status)],
  worker <- [b \in Bookings |-> row[b].partner],
  payouts <- [b \in Bookings |-> money[b].payouts],
  returned <- {b \in Bookings : money[b].refunds > 0}

(* Where requests of one booking, or accepts of one partner, do not        *)
(* overlap, the handlers keep the promise of Engagement: the conditional   *)
(* claims and the status checks enforce the workflow of                    *)
(* bookingStateMachine, one active job per partner, one payout and no      *)
(* refund beside it.                                                       *)
KeepsPromise == Engaged!Promise

Reached == INSTANCE Milestones WITH
  taken <- [b \in Bookings |-> money[b].holds + money[b].cards],
  engaged <- [b \in Bookings |-> row[b].partner],
  entered <- codes,
  paidOut <- [b \in Bookings |-> money[b].payouts],
  givenBack <- [b \in Bookings |-> money[b].refunds]

(* However requests overlap, the money, the partner and the codes of a     *)
(* booking move one at a time and only in the order of Milestones: every   *)
(* claim, code check and refund decides on a row or a snapshot read before *)
(* others wrote, and still never comes before what it rests on.            *)
KeepsMilestones == Reached!MilestonesSpec

-----------------------------------------------------------------------------
(* A handler that runs goes on; a timer of this process and the sweeper's  *)
(* interval fire although the process is busy (Slots) again and again.     *)
Fairness ==
  /\ \A s \in Slots : WF_vars(Step(s))
  /\ \A b \in Bookings : SF_vars(\E s \in Slots : TimerFires(s, b))
                         /\ SF_vars(\E s \in Slots : Sweep(s, b))

FairSpec == Spec /\ Fairness

(* dispatchBooking arms a timer for every search, and nothing but a claim  *)
(* disarms it: while the process lives no booking searches for ever, even  *)
(* if no partner ever lists jobs.                                          *)
SearchEnds ==
  \A b \in Bookings : row[b].status = "PARTNER_SEARCHING" ~> row[b].status # "PARTNER_SEARCHING"

(* Cancelling a paid booking nobody took gives the money back, in a        *)
(* transaction after the one that cancels, also when the search expired    *)
(* between the two reads of cancelBooking.                                 *)
CancelledSearchRefunded ==
  \A b \in Bookings :
    (row[b].status = "CANCELLED" /\ row[b].partner = NoPartner /\ Funded(b))
      ~> row[b].refunded

-----------------------------------------------------------------------------
(* A statement of the repository's comments that the code does not keep.   *)

(* dispatchService.ts: "an expired-unclaimed job must always give the      *)
(* money back".                                                            *)
ExpiredGivesMoneyBack ==
  \A b \in Bookings :
    (row[b].status = "EXPIRED" /\ money[b].holds > 0) ~> row[b].refunded
=============================================================================
