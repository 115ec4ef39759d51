------------------------------ MODULE FeePromise ----------------------------
(***************************************************************************)
(* What holding an event fee promises, without escrow rows, sweeps or      *)
(* admins: an attendee who has the money sets it aside once; it stays      *)
(* theirs until it either goes to the organizer, all of it, or is theirs   *)
(* to spend again, and that decision is taken once.                        *)
(***************************************************************************)
EXTENDS Integers

CONSTANTS Payers, Organizer, Amount

VARIABLES
  fee,   \* fee[p]: where the fee of p is
  purse  \* purse[u]: the money of u

promise == <<fee, purse>>

PromiseInit == fee = [p \in Payers |-> "unpaid"]

Reserve(p) ==
  /\ fee[p] = "unpaid" /\ purse[p] >= Amount
  /\ fee' = [fee EXCEPT ![p] = "reserved"]
  /\ UNCHANGED purse

HandOver(p) ==
  /\ fee[p] = "reserved" /\ purse[p] >= Amount
  /\ fee' = [fee EXCEPT ![p] = "handed over"]
  /\ purse' = [purse EXCEPT ![p] = @ - Amount, ![Organizer] = @ + Amount]

GiveBack(p) ==
  /\ fee[p] = "reserved"
  /\ fee' = [fee EXCEPT ![p] = "given back"]
  /\ UNCHANGED purse

PromiseNext == \E p \in Payers : Reserve(p) \/ HandOver(p) \/ GiveBack(p)

Promise == PromiseInit /\ [][PromiseNext]_promise
=============================================================================
