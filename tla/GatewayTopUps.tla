---------------------------- MODULE GatewayTopUps ---------------------------
(***************************************************************************)
(* Top-ups through the payment gateway.  The user pays an order at the     *)
(* gateway; a webhook or the user's return to the site credits the wallet; *)
(* a refund made at the gateway takes the credit back.  The gateway may    *)
(* deliver a webhook late, again, in any order, or never.                  *)
(*                                                                         *)
(* Abstracted: one amount for every order, at most one refund of an order, *)
(* signatures, the access window a top-up grants (Subscriptions), notices  *)
(* and ledger rows.  AUTHORIZED is written nowhere.  An order holds the    *)
(* identity of the payment that paid it exactly when it was credited, so a *)
(* refund finds its order by that.                                         *)
(***************************************************************************)
EXTENDS Wallet

CONSTANTS
  Orders, \* identities of payment orders
  TopUp   \* what an order is for

ASSUME TopUpAssumption == TopUp \in Nat \ {0}

VARIABLES
  order,    \* order[o]: PaymentOrder.status
  refundLog,\* refundLog[o]: RefundLog.status of the refund of that payment
  gateway   \* gateway[o]: what happened at the gateway

topUpVars == <<order, refundLog, gateway>>

OrderStatus == {"NONE", "CREATED", "FAILED", "COMPLETED", "REFUNDED"}
RefundStatus == {"NONE", "COMPLETED", "FAILED"}
AtGateway == {"open", "paid", "refunded", "refunded in part"}
Paid == {"paid", "refunded", "refunded in part"}

TopUpInit ==
  /\ order = [o \in Orders |-> "NONE"]
  /\ refundLog = [o \in Orders |-> "NONE"]
  /\ gateway = [o \in Orders |-> "open"]

Claimable == {"CREATED", "FAILED"}

CreateOrder(o) ==
  /\ order[o] = "NONE"
  /\ order' = [order EXCEPT ![o] = "CREATED"]
  /\ UNCHANGED <<wallet, job, refundLog, gateway>>

(* The customer and the merchant at the gateway. *)
GatewayMoves(o, to) ==
  /\ order[o] # "NONE"
  /\ \/ gateway[o] = "open" /\ to = "paid"
     \/ gateway[o] = "paid" /\ to \in {"refunded", "refunded in part"}
  /\ gateway' = [gateway EXCEPT ![o] = to]
  /\ UNCHANGED <<wallet, job, order, refundLog>>

(* The latch and the credit: one transaction. *)
Credit(o) ==
  IF order[o] \in Claimable
    THEN /\ order' = [order EXCEPT ![o] = "COMPLETED"]
         /\ balance' = balance + TopUp
    ELSE UNCHANGED <<order, balance>>

PaidWebhook(o) ==
  /\ gateway[o] \in Paid
  /\ Credit(o)
  /\ UNCHANGED <<heldBalance, job, refundLog, gateway>>

(* An attempt has failed, which does not close the order at the gateway;   *)
(* the news may come after a later attempt has paid it.                    *)
FailedWebhook(o) ==
  /\ order' = [order EXCEPT ![o] = IF @ = "CREATED" THEN "FAILED" ELSE @]
  /\ UNCHANGED <<wallet, job, refundLog, gateway>>

(* The user comes back from checkout: reads the order, asks the gateway,   *)
(* then credits.                                                           *)
VerifyPayment(s, o) ==
  /\ order[o] \notin {"NONE", "COMPLETED"} /\ gateway[o] \in Paid
  /\ Begin(s, [at |-> "credit", order |-> o])
  /\ UNCHANGED <<wallet, topUpVars>>

CreditVerified(s) ==
  /\ At(s, "credit")
  /\ Credit(job[s].order)
  /\ Return(s)
  /\ UNCHANGED <<heldBalance, refundLog, gateway>>

(* Mutant: a part of the payment reverses all of it. *)
RefundWebhookAnyAmount(o) ==
  /\ gateway[o] \in {"refunded", "refunded in part"}
  /\ order[o] \in {"COMPLETED", "REFUNDED"}
  /\ IF refundLog[o] # "NONE" \/ balance < TopUp
       THEN /\ refundLog' = [refundLog EXCEPT ![o] = IF @ = "NONE" THEN "FAILED" ELSE @]
            /\ UNCHANGED <<order, balance>>
       ELSE /\ refundLog' = [refundLog EXCEPT ![o] = "COMPLETED"]
            /\ order' = [order EXCEPT ![o] = "REFUNDED"]
            /\ balance' = balance - TopUp
  /\ UNCHANGED <<heldBalance, job, gateway>>

(* applyRefund: finds a credited order only; a refund of another amount,   *)
(* or one the balance does not cover, is logged FAILED, and that row then  *)
(* answers every redelivery.                                               *)
RefundWebhook(o) ==
  /\ gateway[o] \in {"refunded", "refunded in part"}
  /\ order[o] \in {"COMPLETED", "REFUNDED"}
  /\ IF refundLog[o] # "NONE" \/ gateway[o] # "refunded" \/ balance < TopUp
       THEN /\ refundLog' = [refundLog EXCEPT ![o] = IF @ = "NONE" THEN "FAILED" ELSE @]
            /\ UNCHANGED <<order, balance>>
       ELSE /\ refundLog' = [refundLog EXCEPT ![o] = "COMPLETED"]
            /\ order' = [order EXCEPT ![o] = "REFUNDED"]
            /\ balance' = balance - TopUp
  /\ UNCHANGED <<heldBalance, job, gateway>>

TopUpNext ==
  \/ \E o \in Orders :
       \/ CreateOrder(o) \/ PaidWebhook(o) \/ FailedWebhook(o) \/ RefundWebhook(o)
       \/ \E to \in AtGateway : GatewayMoves(o, to)
       \/ \E s \in Slots : VerifyPayment(s, o)
  \/ \E s \in Slots : CreditVerified(s)
=============================================================================
