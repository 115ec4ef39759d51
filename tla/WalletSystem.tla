----------------------------- MODULE WalletSystem ---------------------------
(***************************************************************************)
(* Withdrawals, calls and gateway top-ups of one wallet, together: they    *)
(* share the wallet row, the slots, and the processes that may restart.    *)
(***************************************************************************)
EXTENDS WalletWithdrawals, CallBilling, GatewayTopUps

vars == <<wallet, job, crashes, withdrawal, callVars, topUpVars>>

Job ==
  {Idle}
  \cup [at : {"withdraw", "hold payout"}]
  \cup [at : {"replace"}, todo : SUBSET Calls]
  \cup [at : {"take hold", "connect", "put back", "drop", "settle", "release"}, of : Calls]
  \cup [at : {"clear"}, of : Calls, then : {"settle", "release", "return"}]
  \cup [at : {"credit"}, order : Orders]

TypeOK ==
  /\ balance \in Int /\ heldBalance \in Int
  /\ job \in [Slots -> Job]
  /\ crashes \in 0..MaxCrashes
  /\ withdrawal \in [Withdrawals -> WithdrawalStatus]
  /\ placed \subseteq Calls /\ live \subseteq Calls
  /\ localCalls \subseteq Calls \X Processes
  /\ ringTimer \subseteq Calls \X Processes /\ capTimer \subseteq Calls \X Processes
  /\ charge \in [Calls -> ChargeStatus]
  /\ charged \in [Calls -> 0..Hold]
  /\ order \in [Orders -> OrderStatus]
  /\ refundLog \in [Orders -> RefundStatus]
  /\ gateway \in [Orders -> AtGateway]

Init == WalletInit /\ WithdrawalInit /\ CallInit /\ TopUpInit

(* Open transactions of the process roll back. *)
Crash(P) ==
  /\ crashes < MaxCrashes
  /\ crashes' = crashes + 1
  /\ job' = [s \in Slots |-> IF s \in P THEN Idle ELSE job[s]]
  /\ CallCrash(P)
  /\ UNCHANGED <<withdrawal, topUpVars>>

Next ==
  \/ WithdrawalNext /\ UNCHANGED <<crashes, callVars, topUpVars>>
  \/ CallNext /\ UNCHANGED <<crashes, withdrawal, topUpVars>>
  \/ TopUpNext /\ UNCHANGED <<crashes, withdrawal, callVars>>
  \/ \E P \in Processes : Crash(P)

Spec == Init /\ [][Next]_vars
=============================================================================
