-------------------------- MODULE WalletWithdrawals -------------------------
(***************************************************************************)
(* Payouts of the wallet.  A request holds its amount by a debit, guarded  *)
(* by a read of the balance and by a lock of its process; an admin settles *)
(* or rejects it, the user may cancel it.                                  *)
(*                                                                         *)
(* Abstracted: one amount for every request; limits, fee, bank account     *)
(* (validated before anything is read); PartnerEarnings, the ledger and    *)
(* audit rows.  PROCESSING is written nowhere.                             *)
(***************************************************************************)
EXTENDS Wallet

CONSTANTS
  Withdrawals, \* identities of withdrawal requests
  Payout       \* the amount of a request

ASSUME WithdrawalAssumption == Payout \in Nat \ {0}

VARIABLE withdrawal \* withdrawal[w]: WithdrawalRequest.status

WithdrawalStatus == {"NONE", "PENDING", "APPROVED", "REJECTED", "CANCELLED"}
WithdrawalInit == withdrawal = [w \in Withdrawals |-> "NONE"]

InStatus(status) == {w \in Withdrawals : withdrawal[w] = status}

(* The pre-check, before the lock is asked for. *)
RequestWithdrawal(s) ==
  /\ balance >= Payout
  /\ Begin(s, [at |-> "withdraw"])
  /\ UNCHANGED <<wallet, withdrawal>>

(* withUserLock: one critical section per process at a time. *)
LockFree(s) == \A t \in ProcessOf(s) : ~At(t, "hold payout")

(* Mutant: the duplicate check is left to the pre-check. *)
OpenWithdrawalUnchecked(s) ==
  /\ At(s, "withdraw") /\ LockFree(s)
  /\ Continue(s, IF balance >= Payout THEN [at |-> "hold payout"] ELSE Idle)
  /\ UNCHANGED <<wallet, withdrawal>>

(* Inside lock and transaction: reads the balance and the open requests. *)
OpenWithdrawal(s) ==
  /\ At(s, "withdraw") /\ LockFree(s)
  /\ Continue(s, IF balance >= Payout /\ InStatus("PENDING") = {}
                   THEN [at |-> "hold payout"] ELSE Idle)
  /\ UNCHANGED <<wallet, withdrawal>>

(* The debit asks nothing: the reads above were its guard. *)
HoldPayout(s) ==
  /\ At(s, "hold payout")
  /\ \E w \in InStatus("NONE") : withdrawal' = [withdrawal EXCEPT ![w] = "PENDING"]
  /\ balance' = balance - Payout
  /\ Return(s)
  /\ UNCHANGED heldBalance

(* The claim on PENDING decides; approval pays outside the wallet. *)
ApproveWithdrawal(w) ==
  /\ w \in InStatus("PENDING")
  /\ withdrawal' = [withdrawal EXCEPT ![w] = "APPROVED"]
  /\ UNCHANGED <<wallet, job>>

GiveBack(w, status) ==
  /\ withdrawal' = [withdrawal EXCEPT ![w] = status]
  /\ balance' = balance + Payout
  /\ UNCHANGED <<heldBalance, job>>

RejectWithdrawal(w) == w \in InStatus("PENDING") /\ GiveBack(w, "REJECTED")

(* Mutant: the cancellation trusts the status it has read. *)
CancelWithdrawalUnclaimed(w) ==
  w \in InStatus("PENDING") \cup InStatus("APPROVED") /\ GiveBack(w, "CANCELLED")

CancelWithdrawal(w) == w \in InStatus("PENDING") /\ GiveBack(w, "CANCELLED")

WithdrawalNext ==
  \/ \E s \in Slots : RequestWithdrawal(s) \/ OpenWithdrawal(s) \/ HoldPayout(s)
  \/ \E w \in Withdrawals :
       ApproveWithdrawal(w) \/ RejectWithdrawal(w) \/ CancelWithdrawal(w)
=============================================================================
