------------------------------- MODULE Wallet -------------------------------
(***************************************************************************)
(* One user's wallet row and the handlers that work on it.  A handler is a *)
(* sequence of database calls with other handlers between them: job[s] is  *)
(* the handler in slot s, where it stands and what it has read.  Slots     *)
(* belong to server processes, which share the database and Redis but not  *)
(* their memory (locks, timers).                                           *)
(*                                                                         *)
(* Modules that extend this one add the operations and their rows; Wallet- *)
(* System composes them.                                                   *)
(***************************************************************************)
EXTENDS Integers

CONSTANTS
  Funds,      \* bound: what the wallet holds at first
  Slots,      \* requests, webhooks and timers that may be in flight at once
  Processes,  \* the server processes: a partition of Slots
  MaxCrashes  \* bound: restarts of a process

ASSUME WalletAssumption ==
  /\ Funds \in Nat /\ MaxCrashes \in Nat
  /\ UNION Processes = Slots
  /\ \A P, Q \in Processes : P = Q \/ P \cap Q = {}

VARIABLES
  balance,     \* Wallet.balance
  heldBalance, \* Wallet.heldBalance: the part of balance set aside for calls
  job,         \* job[s]: the handler running in slot s
  crashes      \* restarts so far

wallet == <<balance, heldBalance>>

Idle == [at |-> "idle"]

WalletInit ==
  /\ balance \in 0..Funds
  /\ heldBalance = 0
  /\ job = [s \in Slots |-> Idle]
  /\ crashes = 0

ProcessOf(s) == CHOOSE P \in Processes : s \in P
Spendable == balance - heldBalance

Begin(s, j) == job[s] = Idle /\ job' = [job EXCEPT ![s] = j]
At(s, at) == job[s].at = at
Continue(s, j) == job' = [job EXCEPT ![s] = j]
Return(s) == Continue(s, Idle)
=============================================================================
