---------------------------- MODULE EscrowPromise ---------------------------
(***************************************************************************)
(* What the event escrow keeps, against FeePromise, and what it must       *)
(* eventually do.                                                          *)
(***************************************************************************)
EXTENDS EventEscrow

(* heldBalance is one number for everything a wallet has set aside; it     *)
(* must be the open escrow of the payer, no matter who settles, freezes,   *)
(* cancels or deletes at the same time, or settleEscrow fails with         *)
(* HELD_BALANCE_MISMATCH or the payer loses spendable money for good.      *)
Reserved(p) == IF escrow[p] \in {"HELD", "DISPUTED"} THEN Amount ELSE 0
HeldIsOpenEscrow ==
  \A p \in Payers : heldBalance[p] = Reserved(p) /\ heldBalance[p] <= balance[p]

(* A share says PAID while its fee is held or handed over and REFUNDED     *)
(* when it was given back, unless the organizer waived it meanwhile.       *)
ShareTellsOutcome ==
  \A p \in Payers :
    /\ share[p] = "PAID" => escrow[p] \in {"HELD", "DISPUTED", "RELEASED"}
    /\ share[p] = "REFUNDED" => escrow[p] = "REFUNDED"
    /\ share[p] = "PENDING" => escrow[p] = "NONE"

Place(status) ==
  CASE status = "NONE" -> "unpaid"
    [] status \in {"HELD", "DISPUTED"} -> "reserved"
    [] status = "RELEASED" -> "handed over"
    [] OTHER -> "given back"

Fees == INSTANCE FeePromise WITH
  fee <- [p \in Payers |-> Place(escrow[p])],
  purse <- balance

(* "Nothing created, nothing destroyed" (eventEscrowService): the rows and *)
(* the wallets move together as FeePromise says, however sweeps, admins,   *)
(* cancellations and restarts interleave.                                  *)
KeepsFeePromise == Fees!Promise

-----------------------------------------------------------------------------
(* A handler that runs goes on, time passes, and the sweep's interval      *)
(* fires although the process is busy (Slots) again and again.             *)
Fairness ==
  /\ \A s \in Slots : WF_vars(Step(s))
  /\ WF_vars(Tick)
  /\ SF_vars(\E s \in Slots : Sweep(s))

FairSpec == Spec /\ Fairness

(* No organizer waits "on a manual payout queue forever": money held for   *)
(* an event does not stay held, also when the process restarts inside a    *)
(* sweep.                                                                  *)
HoldsSettle == \A p \in Payers : p \in Held ~> p \notin Held
=============================================================================
