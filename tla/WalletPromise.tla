---------------------------- MODULE WalletPromise ---------------------------
(***************************************************************************)
(* What one wallet keeps, against Account, and what its calls, payouts and *)
(* top-ups rely on.                                                        *)
(***************************************************************************)
EXTENDS WalletSystem, FiniteSets

ASSUME FiniteAssumption == IsFiniteSet(Calls)
ASSUME DisjointAssumption ==
  /\ Withdrawals \cap Calls = {} /\ Withdrawals \cap Orders = {} /\ Calls \cap Orders = {}

(* heldBalance is one number for all the calls of a user: whoever ends,    *)
(* replaces, accepts twice or times out a call, and wherever a process     *)
(* restarts, it is what the HELD charges reserve, so that spendable money  *)
(* neither leaks nor is promised twice.                                    *)
HeldIsHolds == heldBalance = Hold * Cardinality(Charged("HELD"))

(* withdrawalService: "two parallel requests cannot both pass the          *)
(* pre-check and create two payouts".  The lock is a process's own, so     *)
(* this is a promise of one process only.                                  *)
OneProcess == \A P, Q \in Processes : P = Q
OneOpenWithdrawal == OneProcess => \A v, w \in InStatus("PENDING") : v = w

(* The credit of an order stands for a payment the gateway has, and it is  *)
(* reversed only when the gateway has given the whole payment back,        *)
(* whatever order the webhooks come in.                                    *)
CreditsMatchGateway ==
  \A o \in Orders :
    /\ order[o] \in {"COMPLETED", "REFUNDED"} => gateway[o] \in Paid
    /\ order[o] = "REFUNDED" => gateway[o] = "refunded" /\ refundLog[o] = "COMPLETED"

-----------------------------------------------------------------------------
(* The wallet as an account: what each row says has moved.                 *)

PlaceOf(e) ==
  IF e \in Withdrawals
    THEN CASE withdrawal[e] = "NONE" -> "open"
           [] withdrawal[e] = "PENDING" -> "taken"
           [] withdrawal[e] = "APPROVED" -> "final"
           [] OTHER -> "returned"
  ELSE IF e \in Orders
    THEN CASE order[e] = "COMPLETED" -> "taken"
           [] order[e] = "REFUNDED" -> "returned"
           [] OTHER -> "open"
  ELSE IF charge[e] = "CHARGED" THEN "taken" ELSE "open"

MovedBy(e) ==
  IF e \in Withdrawals
    THEN IF withdrawal[e] \in {"PENDING", "APPROVED"} THEN -Payout ELSE 0
  ELSE IF e \in Orders
    THEN IF order[e] = "COMPLETED" THEN TopUp ELSE 0
  ELSE 0 - charged[e]

Entries == Withdrawals \cup Orders \cup Calls
Amounts ==
  [e \in Entries |->
     IF e \in Withdrawals THEN {-Payout}
     ELSE IF e \in Orders THEN {TopUp} ELSE {0 - m : m \in 0..Hold}]

TheAccount == INSTANCE Account WITH
  Entries <- Entries,
  MayMove <- Amounts,
  purse <- balance,
  entry <- [e \in Entries |-> PlaceOf(e)],
  moved <- [e \in Entries |-> MovedBy(e)]

(* Every step of every handler changes the balance by exactly what its     *)
(* rows say, each payout, call and top-up once: no retry, duplicate        *)
(* webhook, hang-up from both ends or restart takes or gives money twice.  *)
KeepsAccount == TheAccount!Spec
=============================================================================
