---------------------------- MODULE Wallet_proofs ---------------------------
(***************************************************************************)
(* Theorems about one wallet for every number of calls, payouts, top-ups,  *)
(* handlers in flight, processes and restarts, and any amounts.            *)
(***************************************************************************)
EXTENDS WalletPromise, FiniteSetTheorems, TLAPS

(***************************************************************************)
(* Type correctness.                                                       *)
(***************************************************************************)

LEMMA BeginTyped ==
  ASSUME job \in [Slots -> Job], NEW s \in Slots, NEW j \in Job, Begin(s, j)
  PROVE  job' \in [Slots -> Job]
  BY DEF Begin

LEMMA ContinueTyped ==
  ASSUME job \in [Slots -> Job], NEW s \in Slots, NEW j \in Job, Continue(s, j)
  PROVE  job' \in [Slots -> Job]
  BY DEF Continue

LEMMA ReturnTyped ==
  ASSUME job \in [Slots -> Job], NEW s \in Slots, Return(s)
  PROVE  job' \in [Slots -> Job]
  BY ContinueTyped DEF Return, Job

(* What a running handler carries. *)
LEMMA RunningJob ==
  ASSUME job \in [Slots -> Job], NEW s \in Slots
  PROVE  /\ At(s, "replace") => job[s].todo \subseteq Calls
         /\ \/ At(s, "take hold") \/ At(s, "connect") \/ At(s, "put back") \/ At(s, "drop")
            \/ At(s, "settle") \/ At(s, "release") \/ At(s, "clear")
            => job[s].of \in Calls
         /\ At(s, "clear") => job[s].then \in {"settle", "release", "return"}
         /\ At(s, "credit") => job[s].order \in Orders
  <1>1. \/ job[s] = Idle \/ job[s] \in [at : {"withdraw", "hold payout"}]
        \/ job[s] \in [at : {"replace"}, todo : SUBSET Calls]
        \/ job[s] \in [at : {"take hold", "connect", "put back", "drop", "settle", "release"},
                       of : Calls]
        \/ job[s] \in [at : {"clear"}, of : Calls, then : {"settle", "release", "return"}]
        \/ job[s] \in [at : {"credit"}, order : Orders]
    BY DEF Job
  <1>2. CASE job[s] = Idle \/ job[s] \in [at : {"withdraw", "hold payout"}]
    <2>1. CASE job[s] = Idle
      <3>1. job[s].at = "idle"
        BY <2>1 DEF Idle
      <3> QED BY <3>1 DEF At
    <2>2. CASE job[s] \in [at : {"withdraw", "hold payout"}]
      BY <2>2 DEF At
    <2> QED BY <1>2, <2>1, <2>2
  <1>3. CASE job[s] \in [at : {"replace"}, todo : SUBSET Calls]
    BY <1>3 DEF At
  <1>4. CASE job[s] \in [at : {"take hold", "connect", "put back", "drop", "settle", "release"},
                        of : Calls]
    BY <1>4 DEF At
  <1>5. CASE job[s] \in [at : {"clear"}, of : Calls, then : {"settle", "release", "return"}]
    BY <1>5 DEF At
  <1>6. CASE job[s] \in [at : {"credit"}, order : Orders]
    BY <1>6 DEF At
  <1> QED BY <1>1, <1>2, <1>3, <1>4, <1>5, <1>6

(* A slot belongs to a process. *)
LEMMA ProcessOfSlot ==
  ASSUME NEW s \in Slots
  PROVE  ProcessOf(s) \in Processes /\ s \in ProcessOf(s)
  BY WalletAssumption DEF ProcessOf

LEMMA WithdrawalTyped ==
  ASSUME TypeOK, WithdrawalNext, UNCHANGED <<crashes, callVars, topUpVars>>
  PROVE  TypeOK'
  <1> USE DEF TypeOK, wallet, callVars, signalling, topUpVars
  <1>1. ASSUME NEW s \in Slots, RequestWithdrawal(s)
        PROVE  TypeOK'
    <2>1. job' \in [Slots -> Job]
      BY <1>1, BeginTyped DEF RequestWithdrawal, Job
    <2> QED BY <1>1, <2>1 DEF RequestWithdrawal
  <1>2. ASSUME NEW s \in Slots, OpenWithdrawal(s)
        PROVE  TypeOK'
    <2>1. Idle \in Job /\ [at |-> "hold payout"] \in Job
      BY DEF Job
    <2>2. job' \in [Slots -> Job]
      BY <1>2, <2>1, ContinueTyped DEF OpenWithdrawal
    <2> QED BY <1>2, <2>2 DEF OpenWithdrawal
  <1>3. ASSUME NEW s \in Slots, HoldPayout(s)
        PROVE  TypeOK'
    <2>1. job' \in [Slots -> Job]
      BY <1>3, ReturnTyped DEF HoldPayout
    <2>2. balance' \in Int
      <3>1. balance \in Int /\ Payout \in Int
        BY WithdrawalAssumption
      <3>2. balance' = balance - Payout
        BY <1>3 DEF HoldPayout
      <3> QED BY <3>1, <3>2
    <2>3. withdrawal' \in [Withdrawals -> WithdrawalStatus]
      BY <1>3 DEF HoldPayout, InStatus, WithdrawalStatus
    <2>4. UNCHANGED <<heldBalance, crashes, callVars, topUpVars>>
      BY <1>3 DEF HoldPayout
    <2> QED BY <2>1, <2>2, <2>3, <2>4
  <1>4. ASSUME NEW w \in Withdrawals, ApproveWithdrawal(w)
        PROVE  TypeOK'
    BY <1>4 DEF ApproveWithdrawal, WithdrawalStatus
  <1>5. ASSUME NEW w \in Withdrawals, RejectWithdrawal(w) \/ CancelWithdrawal(w)
        PROVE  TypeOK'
    BY <1>5, WithdrawalAssumption DEF RejectWithdrawal, CancelWithdrawal, GiveBack, WithdrawalStatus
  <1> QED BY <1>1, <1>2, <1>3, <1>4, <1>5 DEF WithdrawalNext

LEMMA ForgetCallTyped ==
  ASSUME TypeOK, NEW s \in Slots, NEW c \in Calls, ForgetCall(s, c)
  PROVE  /\ live' \subseteq Calls
         /\ localCalls' \subseteq Calls \X Processes
         /\ ringTimer' \subseteq Calls \X Processes
         /\ capTimer' \subseteq Calls \X Processes
  BY DEF TypeOK, ForgetCall, Drop

LEMMA CallStepTyped ==
  ASSUME TypeOK, NEW s \in Slots, CallStep(s), UNCHANGED <<crashes, withdrawal, topUpVars>>
  PROVE  TypeOK'
  <1> USE DEF TypeOK, wallet, callVars, signalling, topUpVars
  <1>1. ASSUME NEW c \in Calls, DropReplaced(s, c)
        PROVE  TypeOK'
    <2>1. job[s].todo \subseteq Calls
      BY <1>1, RunningJob DEF DropReplaced
    <2>2. [at |-> "replace", todo |-> job[s].todo \ {c}] \in Job
      BY <2>1 DEF Job
    <2>3. job' \in [Slots -> Job]
      BY <1>1, <2>2, ContinueTyped DEF DropReplaced
    <2> QED BY <1>1, <2>3, ForgetCallTyped DEF DropReplaced
  <1>2. ASSUME NEW c \in Calls, PlaceCall(s, c)
        PROVE  TypeOK'
    <2>1. job' \in [Slots -> Job]
      BY <1>2, ReturnTyped DEF PlaceCall
    <2> QED BY <1>2, <2>1, ProcessOfSlot DEF PlaceCall, Here
  <1>3. ASSUME TakeHold(s)
        PROVE  TypeOK'
    <2>1. PICK c \in Calls : c = job[s].of
      BY <1>3, RunningJob DEF TakeHold
    <2>2. /\ [at |-> "connect", of |-> c] \in Job
          /\ [at |-> "clear", of |-> c, then |-> "return"] \in Job
      BY DEF Job
    <2>3. job' \in [Slots -> Job]
      BY <1>3, <2>1, <2>2, ContinueTyped DEF TakeHold
    <2>4. heldBalance' \in Int
      <3>1. heldBalance \in Int /\ heldBalance + Hold \in Int
        BY CallAssumption
      <3>2. heldBalance' = heldBalance + Hold \/ heldBalance' = heldBalance
        BY <1>3 DEF TakeHold
      <3> QED BY <3>1, <3>2
    <2>5. charge' \in [Calls -> ChargeStatus]
      <3>1. charge' = [charge EXCEPT ![c] = "HELD"] \/ charge' = charge
        BY <1>3, <2>1 DEF TakeHold
      <3> QED BY <3>1 DEF ChargeStatus
    <2>6. ringTimer' \subseteq Calls \X Processes /\ capTimer' \subseteq Calls \X Processes
      <3>1. Here(s, c) \in Calls \X Processes
        BY ProcessOfSlot DEF Here
      <3>2. /\ ringTimer' \in {ringTimer, ringTimer \ {Here(s, c)}}
            /\ capTimer' \in {capTimer, capTimer \cup {Here(s, c)}}
        BY <1>3, <2>1 DEF TakeHold
      <3> QED BY <3>1, <3>2
    <2>7. UNCHANGED <<balance, placed, live, localCalls, charged>>
      BY <1>3 DEF TakeHold
    <2> QED BY <2>3, <2>4, <2>5, <2>6, <2>7
  <1>4. ASSUME Connect(s)
        PROVE  TypeOK'
    <2>1. job[s].of \in Calls
      BY <1>4, RunningJob DEF Connect
    <2>2. Idle \in Job /\ [at |-> "put back", of |-> job[s].of] \in Job
      BY <2>1 DEF Job
    <2>3. job' \in [Slots -> Job]
      BY <1>4, <2>2, ContinueTyped DEF Connect
    <2> QED BY <1>4, <2>3 DEF Connect
  <1>5. ASSUME PutBack(s)
        PROVE  TypeOK'
    <2>1. job[s].of \in Calls
      BY <1>5, RunningJob DEF PutBack
    <2>2. job' \in [Slots -> Job]
      BY <1>5, ReturnTyped DEF PutBack
    <2>3. Here(s, job[s].of) \in Calls \X Processes
      BY <2>1, ProcessOfSlot DEF Here
    <2>4. live' \subseteq Calls /\ localCalls' \subseteq Calls \X Processes
      <3>1. /\ live' = live \cup {job[s].of}
            /\ localCalls' = localCalls \cup {Here(s, job[s].of)}
        BY <1>5 DEF PutBack
      <3> QED BY <2>1, <2>3, <3>1
    <2>5. UNCHANGED <<wallet, placed, ringTimer, capTimer, charge, charged>>
      BY <1>5 DEF PutBack
    <2> QED BY <2>2, <2>4, <2>5
  <1>6. ASSUME ClearCall(s)
        PROVE  TypeOK'
    <2>1. PICK c \in Calls : c = job[s].of
      BY <1>6, RunningJob DEF ClearCall
    <2>2. job[s].then \in {"settle", "release", "return"}
      BY <1>6, RunningJob DEF ClearCall
    <2>3. /\ Idle \in Job
          /\ job[s].then # "return" => [at |-> job[s].then, of |-> c] \in Job
      BY <2>2 DEF Job
    <2>4. job' \in [Slots -> Job]
      BY <1>6, <2>1, <2>3, ContinueTyped DEF ClearCall
    <2>5. ForgetCall(s, c)
      BY <1>6, <2>1 DEF ClearCall
    <2>6. /\ live' \subseteq Calls
          /\ localCalls' \subseteq Calls \X Processes
          /\ ringTimer' \subseteq Calls \X Processes
          /\ capTimer' \subseteq Calls \X Processes
      BY <2>5, ForgetCallTyped
    <2> QED BY <1>6, <2>4, <2>6 DEF ClearCall
  <1>7. ASSUME DropUnanswered(s)
        PROVE  TypeOK'
    <2>1. job[s].of \in Calls
      BY <1>7, RunningJob DEF DropUnanswered
    <2>2. [at |-> "release", of |-> job[s].of] \in Job
      BY <2>1 DEF Job
    <2>3. job' \in [Slots -> Job]
      BY <1>7, <2>2, ContinueTyped DEF DropUnanswered
    <2> QED BY <1>7, <2>3 DEF DropUnanswered, Drop
  <1>8. ASSUME Settle(s)
        PROVE  TypeOK'
    <2>1. PICK c \in Calls : c = job[s].of
      BY <1>8, RunningJob DEF Settle
    <2>2. job' \in [Slots -> Job]
      BY <1>8, ReturnTyped DEF Settle
    <2>3. CASE \E m \in Billable : Charge(c, m)
      BY <1>8, <2>2, <2>3, CallAssumption DEF Settle, Charge, Billable, ChargeStatus
    <2>4. CASE UNCHANGED <<wallet, charge, charged>>
      BY <1>8, <2>2, <2>4 DEF Settle
    <2> QED BY <1>8, <2>1, <2>3, <2>4 DEF Settle
  <1>9. ASSUME Release(s)
        PROVE  TypeOK'
    <2>1. PICK c \in Calls : c = job[s].of
      BY <1>9, RunningJob DEF Release
    <2>2. job' \in [Slots -> Job]
      BY <1>9, ReturnTyped DEF Release
    <2>3. heldBalance' \in Int /\ charge' \in [Calls -> ChargeStatus]
      BY <1>9, <2>1, CallAssumption DEF Release, ChargeStatus
    <2>4. UNCHANGED <<balance, signalling, charged>>
      BY <1>9 DEF Release
    <2> QED BY <2>2, <2>3, <2>4
  <1> QED BY <1>1, <1>2, <1>3, <1>4, <1>5, <1>6, <1>7, <1>8, <1>9 DEF CallStep

LEMMA CallTyped ==
  ASSUME TypeOK, CallNext, UNCHANGED <<crashes, withdrawal, topUpVars>>
  PROVE  TypeOK'
  <1> USE DEF TypeOK, wallet, callVars, signalling, topUpVars
  <1>1. ASSUME NEW s \in Slots, Invite(s)
        PROVE  TypeOK'
    <2>1. [at |-> "replace", todo |-> Listed(s)] \in Job
      BY DEF Job, Listed
    <2>2. job' \in [Slots -> Job]
      BY <1>1, <2>1, BeginTyped DEF Invite
    <2> QED BY <1>1, <2>2 DEF Invite
  <1>2. ASSUME NEW s \in Slots, NEW c \in Calls, Accept(s, c)
        PROVE  TypeOK'
    <2>1. [at |-> "take hold", of |-> c] \in Job
      BY DEF Job
    <2>2. job' \in [Slots -> Job]
      BY <1>2, <2>1, BeginTyped DEF Accept
    <2> QED BY <1>2, <2>2 DEF Accept
  <1>3. ASSUME NEW s \in Slots, NEW c \in Calls, CallTimer(s, c)
        PROVE  TypeOK'
    <2>1. /\ [at |-> "drop", of |-> c] \in Job
          /\ [at |-> "clear", of |-> c, then |-> "settle"] \in Job
      BY DEF Job
    <2>2. job' \in [Slots -> Job]
      BY <1>3, <2>1, BeginTyped DEF CallTimer, RingTimeout, MaxDuration
    <2> QED BY <1>3, <2>2 DEF CallTimer, RingTimeout, MaxDuration
  <1>4. ASSUME NEW s \in Slots, NEW c \in Calls, NEW then \in {"settle", "release"},
               HangUp(s, c, then)
        PROVE  TypeOK'
    <2>1. [at |-> "clear", of |-> c, then |-> then] \in Job
      BY DEF Job
    <2>2. job' \in [Slots -> Job]
      BY <1>4, <2>1, BeginTyped DEF HangUp
    <2> QED BY <1>4, <2>2 DEF HangUp
  <1> QED BY <1>1, <1>2, <1>3, <1>4, CallStepTyped DEF CallNext

LEMMA TopUpTyped ==
  ASSUME TypeOK, TopUpNext, UNCHANGED <<crashes, withdrawal, callVars>>
  PROVE  TypeOK'
  <1> USE DEF TypeOK, wallet, callVars, signalling, topUpVars
  <1>1. ASSUME NEW o \in Orders, Credit(o)
        PROVE  order' \in [Orders -> OrderStatus] /\ balance' \in Int
    BY <1>1, TopUpAssumption DEF Credit, OrderStatus
  <1>2. ASSUME NEW o \in Orders, CreateOrder(o) \/ FailedWebhook(o)
        PROVE  TypeOK'
    BY <1>2 DEF CreateOrder, FailedWebhook, OrderStatus
  <1>3. ASSUME NEW o \in Orders, PaidWebhook(o)
        PROVE  TypeOK'
    BY <1>1, <1>3 DEF PaidWebhook
  <1>4. ASSUME NEW o \in Orders, RefundWebhook(o)
        PROVE  TypeOK'
    <2>1. order' = order \/ order' = [order EXCEPT ![o] = "REFUNDED"]
      BY <1>4 DEF RefundWebhook
    <2>2. balance' = balance \/ balance' = balance - TopUp
      BY <1>4 DEF RefundWebhook
    <2>3. \E x \in RefundStatus : refundLog' = [refundLog EXCEPT ![o] = x]
      BY <1>4 DEF RefundWebhook, RefundStatus
    <2>4. order' \in [Orders -> OrderStatus] /\ refundLog' \in [Orders -> RefundStatus]
      BY <2>1, <2>3 DEF OrderStatus
    <2>5. balance' \in Int
      BY <2>2, TopUpAssumption
    <2> QED BY <1>4, <2>4, <2>5 DEF RefundWebhook
  <1>5. ASSUME NEW o \in Orders, NEW to \in AtGateway, GatewayMoves(o, to)
        PROVE  TypeOK'
    BY <1>5 DEF GatewayMoves
  <1>6. ASSUME NEW o \in Orders, NEW s \in Slots, VerifyPayment(s, o)
        PROVE  TypeOK'
    <2>1. [at |-> "credit", order |-> o] \in Job
      BY DEF Job
    <2>2. job' \in [Slots -> Job]
      BY <1>6, <2>1, BeginTyped DEF VerifyPayment
    <2> QED BY <1>6, <2>2 DEF VerifyPayment
  <1>7. ASSUME NEW s \in Slots, CreditVerified(s)
        PROVE  TypeOK'
    <2>1. job[s].order \in Orders
      BY <1>7, RunningJob DEF CreditVerified
    <2>2. job' \in [Slots -> Job]
      BY <1>7, ReturnTyped DEF CreditVerified
    <2> QED BY <1>1, <1>7, <2>1, <2>2 DEF CreditVerified
  <1> QED BY <1>2, <1>3, <1>4, <1>5, <1>6, <1>7 DEF TopUpNext

LEMMA CrashTyped ==
  ASSUME TypeOK, NEW P \in Processes, Crash(P)
  PROVE  TypeOK'
  <1>1. job' \in [Slots -> Job]
    BY DEF TypeOK, Crash, Job
  <1>2. crashes' \in 0..MaxCrashes
    BY WalletAssumption DEF TypeOK, Crash
  <1> QED BY <1>1, <1>2 DEF TypeOK, Crash, CallCrash, wallet, topUpVars

LEMMA InitTyped == Init => TypeOK
  BY WalletAssumption, CallAssumption
  DEF Init, WalletInit, WithdrawalInit, CallInit, TopUpInit, TypeOK, Job,
      WithdrawalStatus, ChargeStatus, OrderStatus, RefundStatus, AtGateway

LEMMA NextTyped == TypeOK /\ [Next]_vars => TypeOK'
  <1> SUFFICES ASSUME TypeOK, [Next]_vars
               PROVE  TypeOK'
    OBVIOUS
  <1>1. CASE UNCHANGED vars
    BY <1>1 DEF TypeOK, vars, wallet, callVars, signalling, topUpVars
  <1> QED BY <1>1, WithdrawalTyped, CallTyped, TopUpTyped, CrashTyped DEF Next

(* The type invariant of WalletSystem: the wallet's numbers, every row,    *)
(* timer and running handler stay what their types say.                    *)
THEOREM WalletTypeCorrect == Spec => []TypeOK
  BY InitTyped, NextTyped, PTL DEF Spec

(***************************************************************************)
(* The reservations.  A step that changes heldBalance adds a call to the   *)
(* HELD ones or takes one from them.                                       *)
(***************************************************************************)

LEMMA ChargedFinite ==
  ASSUME TypeOK
  PROVE  IsFiniteSet(Charged("HELD")) /\ Cardinality(Charged("HELD")) \in Nat
  <1>1. Charged("HELD") \subseteq Calls
    BY DEF Charged
  <1> QED BY <1>1, FiniteAssumption, FS_Subset, FS_CardinalityType

LEMMA OneMoreHeld ==
  ASSUME TypeOK, HeldIsHolds, NEW c \in Calls, charge[c] = "NONE",
         charge' = [charge EXCEPT ![c] = "HELD"], heldBalance' = heldBalance + Hold
  PROVE  HeldIsHolds'
  <1>1. Charged("HELD")' = Charged("HELD") \cup {c} /\ c \notin Charged("HELD")
    BY DEF TypeOK, Charged
  <1> DEFINE n == Cardinality(Charged("HELD"))
  <1>2. n \in Nat /\ Cardinality(Charged("HELD")')  = n + 1
    BY <1>1, ChargedFinite, FS_AddElement
  <1>3. Hold * (n + 1) = Hold * n + Hold
    BY <1>2, CallAssumption
  <1> QED BY <1>2, <1>3 DEF HeldIsHolds

LEMMA OneLessHeld ==
  ASSUME TypeOK, HeldIsHolds, NEW c \in Calls, charge[c] = "HELD",
         NEW status, status # "HELD",
         charge' = [charge EXCEPT ![c] = status], heldBalance' = heldBalance - Hold
  PROVE  HeldIsHolds'
  <1>1. Charged("HELD")' = Charged("HELD") \ {c} /\ c \in Charged("HELD")
    BY DEF TypeOK, Charged
  <1> DEFINE n == Cardinality(Charged("HELD"))
  <1>2. n \in Nat /\ Cardinality(Charged("HELD")') = n - 1
    BY <1>1, ChargedFinite, FS_RemoveElement
  <1>3. Hold * (n - 1) = Hold * n - Hold
    BY <1>2, CallAssumption
  <1> QED BY <1>2, <1>3 DEF HeldIsHolds

LEMMA SameHeld ==
  ASSUME HeldIsHolds, UNCHANGED <<heldBalance, charge>>
  PROVE  HeldIsHolds'
  BY DEF HeldIsHolds, Charged

LEMMA CallStepKeepsHolds ==
  ASSUME TypeOK, HeldIsHolds, NEW s \in Slots, CallStep(s)
  PROVE  HeldIsHolds'
  <1>1. ASSUME TakeHold(s)
        PROVE  HeldIsHolds'
    <2>1. PICK c \in Calls : c = job[s].of
      BY <1>1, RunningJob DEF TypeOK, TakeHold
    <2>2. CASE UNCHANGED <<heldBalance, charge>>
      BY <2>2, SameHeld
    <2>3. CASE /\ charge[c] = "NONE" /\ heldBalance' = heldBalance + Hold
               /\ charge' = [charge EXCEPT ![c] = "HELD"]
      BY <2>3, OneMoreHeld
    <2> QED BY <1>1, <2>1, <2>2, <2>3 DEF TakeHold
  <1>2. ASSUME Settle(s)
        PROVE  HeldIsHolds'
    <2>1. PICK c \in Calls : c = job[s].of
      BY <1>2, RunningJob DEF TypeOK, Settle
    <2>2. CASE UNCHANGED <<wallet, charge, charged>>
      BY <2>2, SameHeld DEF wallet
    <2>3. CASE charge[c] = "HELD" /\ \E m \in Billable : Charge(c, m)
      BY <2>3, OneLessHeld DEF Charge
    <2> QED BY <1>2, <2>1, <2>2, <2>3 DEF Settle
  <1>3. ASSUME Release(s)
        PROVE  HeldIsHolds'
    <2>1. PICK c \in Calls : c = job[s].of
      BY <1>3, RunningJob DEF TypeOK, Release
    <2>2. CASE UNCHANGED <<heldBalance, charge>>
      BY <2>2, SameHeld
    <2>3. CASE /\ charge[c] = "HELD" /\ heldBalance' = heldBalance - Hold
               /\ charge' = [charge EXCEPT ![c] = "RELEASED"]
      BY <2>3, OneLessHeld
    <2> QED BY <1>3, <2>1, <2>2, <2>3 DEF Release
  <1>4. ASSUME \/ \E c \in Calls : DropReplaced(s, c) \/ PlaceCall(s, c)
               \/ Connect(s) \/ PutBack(s) \/ ClearCall(s) \/ DropUnanswered(s)
        PROVE  HeldIsHolds'
    BY <1>4, SameHeld
    DEF DropReplaced, PlaceCall, Connect, PutBack, ClearCall, DropUnanswered,
        wallet, callVars
  <1> QED BY <1>1, <1>2, <1>3, <1>4 DEF CallStep

LEMMA InitHolds == Init => HeldIsHolds
  <1> SUFFICES ASSUME Init
               PROVE  HeldIsHolds
    OBVIOUS
  <1>1. Charged("HELD") = {} /\ heldBalance = 0
    BY DEF Init, WalletInit, CallInit, Charged
  <1>2. Cardinality(Charged("HELD")) = 0
    BY <1>1, FS_EmptySet
  <1> QED BY <1>1, <1>2, CallAssumption DEF HeldIsHolds

LEMMA NextKeepsHolds == TypeOK /\ HeldIsHolds /\ [Next]_vars => HeldIsHolds'
  <1> SUFFICES ASSUME TypeOK, HeldIsHolds, [Next]_vars
               PROVE  HeldIsHolds'
    OBVIOUS
  <1>1. ASSUME WithdrawalNext, UNCHANGED callVars
        PROVE  HeldIsHolds'
    BY <1>1, SameHeld
    DEF WithdrawalNext, RequestWithdrawal, OpenWithdrawal, HoldPayout, ApproveWithdrawal,
        RejectWithdrawal, CancelWithdrawal, GiveBack, wallet, callVars
  <1>2. ASSUME CallNext
        PROVE  HeldIsHolds'
    <2>1. ASSUME NEW s \in Slots, NEW c \in Calls, NEW then,
                 Invite(s) \/ Accept(s, c) \/ CallTimer(s, c) \/ HangUp(s, c, then)
          PROVE  HeldIsHolds'
      BY <2>1, SameHeld
      DEF Invite, Accept, CallTimer, RingTimeout, MaxDuration, HangUp, wallet, callVars
    <2>2. ASSUME NEW s \in Slots, Invite(s)
          PROVE  HeldIsHolds'
      BY <2>2, SameHeld DEF Invite, wallet, callVars
    <2> QED BY <1>2, <2>1, <2>2, CallStepKeepsHolds DEF CallNext
  <1>3. ASSUME TopUpNext, UNCHANGED callVars
        PROVE  HeldIsHolds'
    BY <1>3, SameHeld
    DEF TopUpNext, CreateOrder, PaidWebhook, FailedWebhook, RefundWebhook, GatewayMoves,
        VerifyPayment, CreditVerified, wallet, callVars
  <1>4. ASSUME NEW P \in Processes, Crash(P)
        PROVE  HeldIsHolds'
    BY <1>4, SameHeld DEF Crash, CallCrash, wallet
  <1>5. CASE UNCHANGED vars
    BY <1>5, SameHeld DEF vars, wallet, callVars
  <1> QED BY <1>1, <1>2, <1>3, <1>4, <1>5 DEF Next

(* The money set aside in the wallet is what the calls being charged       *)
(* reserve, for any number of calls, processes and restarts.               *)
THEOREM HeldBalanceIsHolds == Spec => []HeldIsHolds
  <1>1. Init => TypeOK /\ HeldIsHolds
    BY InitTyped, InitHolds
  <1>2. TypeOK /\ HeldIsHolds /\ [Next]_vars => TypeOK' /\ HeldIsHolds'
    BY NextTyped, NextKeepsHolds
  <1> QED BY <1>1, <1>2, PTL DEF Spec

(***************************************************************************)
(* One payout at a time, in one process.  From the reads of OpenWithdrawal *)
(* to the debit of HoldPayout the lock is held, so no other request can    *)
(* become PENDING in between.                                              *)
(***************************************************************************)

Paying(s) == At(s, "hold payout")

LockGuards ==
  OneProcess =>
    /\ \A s, t \in Slots : Paying(s) /\ Paying(t) => s = t
    /\ (\E s \in Slots : Paying(s)) => InStatus("PENDING") = {}
    /\ \A v, w \in InStatus("PENDING") : v = w

LEMMA SectionStep ==
  ASSUME TypeOK, LockGuards, InStatus("PENDING")' \subseteq InStatus("PENDING"),
         \A s \in Slots : Paying(s)' => Paying(s)
  PROVE  LockGuards'
  <1> SUFFICES ASSUME OneProcess
               PROVE  LockGuards'
    BY DEF LockGuards, OneProcess
  <1> QED BY DEF LockGuards, OneProcess

(* What a step of the job table does to the section. *)
LEMMA JobReturns ==
  ASSUME TypeOK, NEW s \in Slots, Return(s)
  PROVE  /\ \A t \in Slots : Paying(t)' => Paying(t)
         /\ ~Paying(s)'
  BY DEF TypeOK, Return, Continue, Paying, At, Idle

LEMMA WithdrawalsKeepLock ==
  ASSUME TypeOK, LockGuards, WithdrawalNext
  PROVE  LockGuards'
  <1>1. ASSUME NEW s \in Slots, RequestWithdrawal(s)
        PROVE  LockGuards'
    <2>1. InStatus("PENDING")' = InStatus("PENDING")
      BY <1>1 DEF RequestWithdrawal, InStatus
    <2>2. \A t \in Slots : Paying(t)' => Paying(t)
      BY <1>1 DEF RequestWithdrawal, Begin, TypeOK, Paying, At
    <2> QED BY <2>1, <2>2, SectionStep
  <1>2. ASSUME NEW s \in Slots, OpenWithdrawal(s)
        PROVE  LockGuards'
    <2>1. InStatus("PENDING")' = InStatus("PENDING")
      BY <1>2 DEF OpenWithdrawal, InStatus
    <2>2. CASE Return(s)
      BY <2>1, <2>2, JobReturns, SectionStep
    <2>3. CASE InStatus("PENDING") = {} /\ Continue(s, [at |-> "hold payout"])
      <3> SUFFICES ASSUME OneProcess
                   PROVE  LockGuards'
        BY DEF LockGuards, OneProcess
      <3>1. \A t \in Slots : t \in ProcessOf(s)
        BY ProcessOfSlot DEF OneProcess
      <3>2. \A t \in Slots : ~Paying(t)
        BY <1>2, <3>1 DEF OpenWithdrawal, LockFree, Paying
      <3>3. \A t \in Slots : Paying(t)' => t = s
        BY <2>3, <3>2 DEF TypeOK, Continue, Paying, At
      <3> QED BY <2>1, <2>3, <3>3 DEF LockGuards
    <2> QED BY <1>2, <2>2, <2>3 DEF OpenWithdrawal, Return
  <1>3. ASSUME NEW s \in Slots, HoldPayout(s)
        PROVE  LockGuards'
    <2> SUFFICES ASSUME OneProcess
                 PROVE  LockGuards'
      BY DEF LockGuards, OneProcess
    <2>1. Paying(s) /\ InStatus("PENDING") = {}
      BY <1>3 DEF HoldPayout, LockGuards, Paying
    <2>2. \A t \in Slots : ~Paying(t)'
      BY <1>3, <2>1, JobReturns DEF HoldPayout, LockGuards
    <2>3. PICK w \in Withdrawals : withdrawal' = [withdrawal EXCEPT ![w] = "PENDING"]
      BY <1>3 DEF HoldPayout, InStatus
    <2>4. InStatus("PENDING")' = {w}
      BY <2>1, <2>3 DEF TypeOK, InStatus
    <2> QED BY <2>2, <2>4 DEF LockGuards
  <1>4. ASSUME NEW w \in Withdrawals,
               ApproveWithdrawal(w) \/ RejectWithdrawal(w) \/ CancelWithdrawal(w)
        PROVE  LockGuards'
    <2>1. InStatus("PENDING")' \subseteq InStatus("PENDING")
      BY <1>4
      DEF TypeOK, ApproveWithdrawal, RejectWithdrawal, CancelWithdrawal, GiveBack, InStatus
    <2>2. UNCHANGED job
      BY <1>4 DEF ApproveWithdrawal, RejectWithdrawal, CancelWithdrawal, GiveBack
    <2> QED BY <2>1, <2>2, SectionStep DEF Paying, At
  <1> QED BY <1>1, <1>2, <1>3, <1>4 DEF WithdrawalNext

(* What the call handlers leave in the slots. *)
CallPlace == {"idle", "replace", "take hold", "connect", "put back", "drop",
              "settle", "release", "clear"}
SlotsOfCalls == \A t \in Slots : job'[t] = job[t] \/ job'[t].at \in CallPlace

LEMMA CallJobs ==
  ASSUME TypeOK, CallNext
  PROVE  SlotsOfCalls
  <1> USE DEF SlotsOfCalls, CallPlace
  <1>1. ASSUME NEW s \in Slots, CallStep(s)
        PROVE  SlotsOfCalls
    <2>1. ASSUME NEW c \in Calls, DropReplaced(s, c)
          PROVE  SlotsOfCalls
      BY <2>1 DEF DropReplaced, Continue, TypeOK
    <2>2. ASSUME Connect(s)
          PROVE  SlotsOfCalls
      BY <2>2 DEF Connect, Continue, Idle, TypeOK
    <2>3. ASSUME ClearCall(s)
          PROVE  SlotsOfCalls
      <3>1. job[s].then \in {"settle", "release", "return"}
        BY <2>3, RunningJob DEF TypeOK, ClearCall
      <3> QED BY <2>3, <3>1 DEF ClearCall, Continue, Idle, TypeOK
    <2>4. ASSUME TakeHold(s) \/ DropUnanswered(s)
          PROVE  SlotsOfCalls
      <3>1. PICK c : c = job[s].of
        OBVIOUS
      <3>2. ASSUME NEW at \in {"connect", "release"}, Continue(s, [at |-> at, of |-> c])
            PROVE  SlotsOfCalls
        BY <3>2 DEF Continue, TypeOK
      <3>3. CASE Continue(s, [at |-> "clear", of |-> c, then |-> "return"])
        BY <3>3 DEF Continue, TypeOK
      <3> QED BY <2>4, <3>1, <3>2, <3>3 DEF TakeHold, DropUnanswered
    <2>5. ASSUME \/ \E c \in Calls : PlaceCall(s, c)
                 \/ PutBack(s) \/ Settle(s) \/ Release(s)
          PROVE  SlotsOfCalls
      <3>1. Return(s)
        BY <2>5 DEF PlaceCall, PutBack, Settle, Release
      <3> QED BY <3>1 DEF Return, Continue, Idle, TypeOK
    <2> QED BY <1>1, <2>1, <2>2, <2>3, <2>4, <2>5 DEF CallStep
  <1>2. ASSUME NEW s \in Slots, Invite(s)
        PROVE  SlotsOfCalls
    BY <1>2 DEF Invite, Begin, TypeOK
  <1>3. ASSUME NEW s \in Slots, NEW c \in Calls, NEW then,
               Accept(s, c) \/ CallTimer(s, c) \/ HangUp(s, c, then)
        PROVE  SlotsOfCalls
    <2>1. CASE UNCHANGED job
      BY <2>1
    <2>2. CASE Begin(s, [at |-> "take hold", of |-> c])
      BY <2>2 DEF Begin, TypeOK
    <2>3. CASE Begin(s, [at |-> "drop", of |-> c])
      BY <2>3 DEF Begin, TypeOK
    <2>4. ASSUME NEW how, Begin(s, [at |-> "clear", of |-> c, then |-> how])
          PROVE  SlotsOfCalls
      BY <2>4 DEF Begin, TypeOK
    <2> QED BY <1>3, <2>1, <2>2, <2>3, <2>4
        DEF Accept, CallTimer, RingTimeout, MaxDuration, HangUp
  <1> QED BY <1>1, <1>2, <1>3 DEF CallNext

(* The other operations neither open a request nor enter the section. *)
LEMMA OthersKeepSection ==
  ASSUME TypeOK, CallNext \/ TopUpNext
  PROVE  \A t \in Slots : Paying(t)' => Paying(t)
  <1>1. CASE CallNext
    BY <1>1, CallJobs DEF SlotsOfCalls, CallPlace, Paying, At
  <1>2. ASSUME TopUpNext
        PROVE  \A t \in Slots : Paying(t)' => Paying(t)
    <2>1. CASE UNCHANGED job
      BY <2>1 DEF Paying, At
    <2>2. ASSUME NEW s \in Slots, NEW o \in Orders, VerifyPayment(s, o)
          PROVE  \A t \in Slots : Paying(t)' => Paying(t)
      BY <2>2 DEF VerifyPayment, Begin, TypeOK, Paying, At
    <2>3. ASSUME NEW s \in Slots, CreditVerified(s)
          PROVE  \A t \in Slots : Paying(t)' => Paying(t)
      BY <2>3, JobReturns DEF CreditVerified
    <2> QED BY <1>2, <2>1, <2>2, <2>3
        DEF TopUpNext, CreateOrder, PaidWebhook, FailedWebhook, RefundWebhook, GatewayMoves
  <1> QED BY <1>1, <1>2

LEMMA NextKeepsLock == TypeOK /\ LockGuards /\ [Next]_vars => LockGuards'
  <1> SUFFICES ASSUME TypeOK, LockGuards, [Next]_vars
               PROVE  LockGuards'
    OBVIOUS
  <1>1. ASSUME CallNext \/ TopUpNext, UNCHANGED withdrawal
        PROVE  LockGuards'
    <2>1. InStatus("PENDING")' = InStatus("PENDING")
      BY <1>1 DEF InStatus
    <2> QED BY <1>1, <2>1, OthersKeepSection, SectionStep
  <1>2. ASSUME NEW P \in Processes, Crash(P)
        PROVE  LockGuards'
    <2>1. InStatus("PENDING")' = InStatus("PENDING")
      BY <1>2 DEF Crash, InStatus
    <2>2. \A t \in Slots : Paying(t)' => Paying(t)
      BY <1>2 DEF Crash, Paying, At, Idle
    <2> QED BY <2>1, <2>2, SectionStep
  <1>3. CASE UNCHANGED vars
    BY <1>3, SectionStep DEF vars, InStatus, Paying, At
  <1> QED BY <1>1, <1>2, <1>3, WithdrawalsKeepLock DEF Next

(* With one server process, a user never has two payouts pending,          *)
(* whatever requests run in parallel and whenever it restarts.             *)
THEOREM OnePayoutPerUser == Spec => []OneOpenWithdrawal
  <1>1. Init => TypeOK /\ LockGuards
    <2> SUFFICES ASSUME Init
                 PROVE  LockGuards
      BY InitTyped
    <2>1. InStatus("PENDING") = {}
      BY DEF Init, WithdrawalInit, InStatus
    <2>2. \A s \in Slots : ~Paying(s)
      BY DEF Init, WalletInit, Paying, At, Idle
    <2> QED BY <2>1, <2>2 DEF LockGuards
  <1>2. TypeOK /\ LockGuards /\ [Next]_vars => TypeOK' /\ LockGuards'
    BY NextTyped, NextKeepsLock
  <1>3. LockGuards => OneOpenWithdrawal
    BY DEF LockGuards, OneOpenWithdrawal
  <1> QED BY <1>1, <1>2, <1>3, PTL DEF Spec

(***************************************************************************)
(* Credits and the gateway.                                                *)
(***************************************************************************)

(* A handler about to credit has the gateway's word for the payment. *)
VerifiedPaid ==
  \A s \in Slots : \A o \in Orders :
    job[s] = [at |-> "credit", order |-> o] => gateway[o] \in Paid

LEMMA CreditJob ==
  ASSUME TypeOK, NEW s \in Slots, At(s, "credit")
  PROVE  \E o \in Orders : job[s] = [at |-> "credit", order |-> o]
  <1>1. job[s].at = "credit"
    BY DEF At
  <1>2. \/ job[s] = Idle \/ job[s] \in [at : {"withdraw", "hold payout"}]
        \/ job[s] \in [at : {"replace"}, todo : SUBSET Calls]
        \/ job[s] \in [at : {"take hold", "connect", "put back", "drop", "settle", "release"},
                       of : Calls]
        \/ job[s] \in [at : {"clear"}, of : Calls, then : {"settle", "release", "return"}]
        \/ job[s] \in [at : {"credit"}, order : Orders]
    BY DEF TypeOK, Job
  <1>3. job[s] # Idle
    BY <1>1 DEF Idle
  <1>4. job[s] \in [at : {"credit"}, order : Orders]
    BY <1>1, <1>2, <1>3
  <1> QED BY <1>4

(* A step that moves only money, rows of other things or handlers that do  *)
(* not credit.                                                             *)
LEMMA SameCredits ==
  ASSUME CreditsMatchGateway, VerifiedPaid, UNCHANGED topUpVars,
         \A s \in Slots : \A o \in Orders :
           job'[s] = [at |-> "credit", order |-> o] => job'[s] = job[s]
  PROVE  CreditsMatchGateway' /\ VerifiedPaid'
  BY DEF CreditsMatchGateway, VerifiedPaid, topUpVars

LEMMA TopUpsKeepCredits ==
  ASSUME TypeOK, CreditsMatchGateway, VerifiedPaid, TopUpNext
  PROVE  CreditsMatchGateway' /\ VerifiedPaid'
  <1>1. ASSUME NEW o \in Orders, Credit(o), gateway[o] \in Paid, UNCHANGED <<refundLog, gateway>>
        PROVE  CreditsMatchGateway'
    BY <1>1 DEF TypeOK, Credit, Claimable, CreditsMatchGateway
  <1>2. ASSUME NEW o \in Orders, CreateOrder(o) \/ FailedWebhook(o)
        PROVE  CreditsMatchGateway' /\ VerifiedPaid'
    BY <1>2 DEF TypeOK, CreateOrder, FailedWebhook, CreditsMatchGateway, VerifiedPaid
  <1>3. ASSUME NEW o \in Orders, PaidWebhook(o)
        PROVE  CreditsMatchGateway' /\ VerifiedPaid'
    <2>1. CreditsMatchGateway'
      BY <1>1, <1>3 DEF PaidWebhook
    <2> QED BY <1>3, <2>1 DEF PaidWebhook, VerifiedPaid
  <1>4. ASSUME NEW o \in Orders, RefundWebhook(o)
        PROVE  CreditsMatchGateway' /\ VerifiedPaid'
    <2>1. VerifiedPaid'
      BY <1>4 DEF RefundWebhook, VerifiedPaid
    <2>2. CASE refundLog[o] # "NONE" \/ gateway[o] # "refunded" \/ balance < TopUp
      BY <1>4, <2>1, <2>2 DEF TypeOK, RefundWebhook, CreditsMatchGateway
    <2>3. CASE ~(refundLog[o] # "NONE" \/ gateway[o] # "refunded" \/ balance < TopUp)
      <3>1. /\ gateway[o] = "refunded" /\ gateway' = gateway
            /\ order' = [order EXCEPT ![o] = "REFUNDED"]
            /\ refundLog' = [refundLog EXCEPT ![o] = "COMPLETED"]
        BY <1>4, <2>3 DEF RefundWebhook
      <3> QED BY <2>1, <3>1 DEF TypeOK, CreditsMatchGateway, Paid
    <2> QED BY <2>2, <2>3
  <1>5. ASSUME NEW o \in Orders, NEW to \in AtGateway, GatewayMoves(o, to)
        PROVE  CreditsMatchGateway' /\ VerifiedPaid'
    BY <1>5 DEF TypeOK, GatewayMoves, CreditsMatchGateway, VerifiedPaid, Paid
  <1>6. ASSUME NEW s \in Slots, NEW o \in Orders, VerifyPayment(s, o)
        PROVE  CreditsMatchGateway' /\ VerifiedPaid'
    BY <1>6 DEF TypeOK, VerifyPayment, Begin, topUpVars, CreditsMatchGateway, VerifiedPaid
  <1>7. ASSUME NEW s \in Slots, CreditVerified(s)
        PROVE  CreditsMatchGateway' /\ VerifiedPaid'
    <2>1. PICK o \in Orders : job[s] = [at |-> "credit", order |-> o]
      BY <1>7, CreditJob DEF CreditVerified
    <2>2. job[s].order = o /\ gateway[o] \in Paid
      BY <2>1 DEF VerifiedPaid
    <2>3. CreditsMatchGateway'
      BY <1>1, <1>7, <2>2 DEF CreditVerified
    <2> QED BY <1>7, <2>3 DEF TypeOK, CreditVerified, Return, Continue, Idle, VerifiedPaid
  <1> QED BY <1>2, <1>3, <1>4, <1>5, <1>6, <1>7 DEF TopUpNext

(* No other handler turns into one that credits. *)
LEMMA WithdrawalJobs ==
  ASSUME TypeOK, WithdrawalNext
  PROVE  \A t \in Slots : job'[t] = job[t] \/ job'[t].at \in {"idle", "withdraw", "hold payout"}
  <1> DEFINE Quiet == \A t \in Slots : job'[t] = job[t] \/ job'[t].at \in {"idle", "withdraw", "hold payout"}
  <1>1. ASSUME NEW s \in Slots, RequestWithdrawal(s)
        PROVE  Quiet
    BY <1>1 DEF TypeOK, RequestWithdrawal, Begin
  <1>2. ASSUME NEW s \in Slots, OpenWithdrawal(s)
        PROVE  Quiet
    BY <1>2 DEF TypeOK, OpenWithdrawal, Continue, Idle
  <1>3. ASSUME NEW s \in Slots, HoldPayout(s)
        PROVE  Quiet
    BY <1>3 DEF TypeOK, HoldPayout, Return, Continue, Idle
  <1>4. CASE UNCHANGED job
    BY <1>4
  <1> QED BY <1>1, <1>2, <1>3, <1>4
      DEF WithdrawalNext, ApproveWithdrawal, RejectWithdrawal, CancelWithdrawal, GiveBack

(* A slot that is not left crediting. *)
LEMMA NotCrediting ==
  ASSUME NEW r, r.at # "credit", NEW o
  PROVE  r # [at |-> "credit", order |-> o]
  OBVIOUS

LEMMA NextKeepsCredits ==
  TypeOK /\ CreditsMatchGateway /\ VerifiedPaid /\ [Next]_vars
    => CreditsMatchGateway' /\ VerifiedPaid'
  <1> SUFFICES ASSUME TypeOK, CreditsMatchGateway, VerifiedPaid, [Next]_vars
               PROVE  CreditsMatchGateway' /\ VerifiedPaid'
    OBVIOUS
  <1>1. ASSUME WithdrawalNext, UNCHANGED topUpVars
        PROVE  CreditsMatchGateway' /\ VerifiedPaid'
    <2>1. \A s \in Slots : \A o \in Orders :
            job'[s] = [at |-> "credit", order |-> o] => job'[s] = job[s]
      <3> SUFFICES ASSUME NEW s \in Slots, NEW o \in Orders, job'[s] # job[s]
                   PROVE  job'[s] # [at |-> "credit", order |-> o]
        OBVIOUS
      <3>1. job'[s].at # "credit"
        BY <1>1, WithdrawalJobs
      <3> QED BY <3>1, NotCrediting
    <2> QED BY <1>1, <2>1, SameCredits
  <1>2. ASSUME CallNext, UNCHANGED topUpVars
        PROVE  CreditsMatchGateway' /\ VerifiedPaid'
    <2>1. \A s \in Slots : \A o \in Orders :
            job'[s] = [at |-> "credit", order |-> o] => job'[s] = job[s]
      <3> SUFFICES ASSUME NEW s \in Slots, NEW o \in Orders, job'[s] # job[s]
                   PROVE  job'[s] # [at |-> "credit", order |-> o]
        OBVIOUS
      <3>1. job'[s].at # "credit"
        BY <1>2, CallJobs DEF SlotsOfCalls, CallPlace
      <3> QED BY <3>1, NotCrediting
    <2> QED BY <1>2, <2>1, SameCredits
  <1>3. ASSUME NEW P \in Processes, Crash(P)
        PROVE  CreditsMatchGateway' /\ VerifiedPaid'
    BY <1>3, SameCredits DEF Crash, Idle
  <1>4. CASE UNCHANGED vars
    BY <1>4, SameCredits DEF vars
  <1> QED BY <1>1, <1>2, <1>3, <1>4, TopUpsKeepCredits DEF Next

(* A top-up is credited only for money the gateway has, and reversed only  *)
(* when the gateway gave all of it back, for any number of orders and any  *)
(* order of the webhooks.                                                  *)
THEOREM GatewayBacksCredits == Spec => []CreditsMatchGateway
  <1>1. Init => TypeOK /\ CreditsMatchGateway /\ VerifiedPaid
    <2> SUFFICES ASSUME Init
                 PROVE  CreditsMatchGateway /\ VerifiedPaid
      BY InitTyped
    <2>1. CreditsMatchGateway
      BY DEF Init, TopUpInit, CreditsMatchGateway
    <2>2. VerifiedPaid
      BY DEF Init, WalletInit, Idle, VerifiedPaid
    <2> QED BY <2>1, <2>2
  <1>2. TypeOK /\ CreditsMatchGateway /\ VerifiedPaid /\ [Next]_vars
          => TypeOK' /\ CreditsMatchGateway' /\ VerifiedPaid'
    BY NextTyped, NextKeepsCredits
  <1> QED BY <1>1, <1>2, PTL DEF Spec

(***************************************************************************)
(* The wallet is an account.  One lemma per step that moves an entry; all  *)
(* other steps change nothing the account sees.                            *)
(***************************************************************************)

Place == [e \in Entries |-> PlaceOf(e)]
Moved == [e \in Entries |-> MovedBy(e)]

(* All entries but one are where they were. *)
OnlyEntry(e) ==
  \A x \in Entries : x # e => PlaceOf(x)' = PlaceOf(x) /\ MovedBy(x)' = MovedBy(x)

LEMMA EntryTaken ==
  ASSUME NEW e \in Entries, OnlyEntry(e), PlaceOf(e) = "open", PlaceOf(e)' = "taken",
         MovedBy(e)' \in Amounts[e], balance' = balance + MovedBy(e)'
  PROVE  TheAccount!Next
  <1> DEFINE amount == MovedBy(e)'
  <1>1. Place' = [Place EXCEPT ![e] = "taken"] /\ Moved' = [Moved EXCEPT ![e] = amount]
    BY DEF Place, Moved, OnlyEntry
  <1>2. Place[e] = "open"
    BY DEF Place
  <1>3. TheAccount!Take(e, amount)
    BY <1>1, <1>2 DEF TheAccount!Take, Place, Moved
  <1> QED BY <1>3 DEF TheAccount!Next

LEMMA EntryReturned ==
  ASSUME NEW e \in Entries, OnlyEntry(e), PlaceOf(e) = "taken", PlaceOf(e)' = "returned",
         MovedBy(e)' = 0, balance' = balance - MovedBy(e)
  PROVE  TheAccount!Next
  <1>1. Place' = [Place EXCEPT ![e] = "returned"] /\ Moved' = [Moved EXCEPT ![e] = 0]
    BY DEF Place, Moved, OnlyEntry
  <1>2. Place[e] = "taken" /\ Moved[e] = MovedBy(e)
    BY DEF Place, Moved
  <1>3. TheAccount!GiveBack(e)
    BY <1>1, <1>2 DEF TheAccount!GiveBack, Place, Moved
  <1> QED BY <1>3 DEF TheAccount!Next

LEMMA EntryFinal ==
  ASSUME NEW e \in Entries, OnlyEntry(e), PlaceOf(e) = "taken", PlaceOf(e)' = "final",
         MovedBy(e)' = MovedBy(e), balance' = balance
  PROVE  TheAccount!Next
  <1>1. Place' = [Place EXCEPT ![e] = "final"] /\ Moved' = Moved
    BY DEF Place, Moved, OnlyEntry
  <1>2. Place[e] = "taken"
    BY DEF Place
  <1>3. TheAccount!Close(e)
    BY <1>1, <1>2 DEF TheAccount!Close, Place, Moved
  <1> QED BY <1>3 DEF TheAccount!Next

(* A step the account does not see. *)
Quiet == UNCHANGED <<balance, withdrawal, order, charge, charged>>

LEMMA QuietStep ==
  ASSUME Quiet
  PROVE  UNCHANGED TheAccount!account
  <1>1. \A e \in Entries : PlaceOf(e)' = PlaceOf(e) /\ MovedBy(e)' = MovedBy(e)
    BY DEF Quiet, PlaceOf, MovedBy
  <1> QED BY <1>1 DEF Quiet, TheAccount!account

LEMMA PayoutIsEntry ==
  ASSUME TypeOK, NEW w \in Withdrawals, NEW status,
         withdrawal' = [withdrawal EXCEPT ![w] = status],
         UNCHANGED <<order, charge, charged>>
  PROVE  w \in Entries /\ OnlyEntry(w)
  <1>1. \A x \in Withdrawals : x # w => withdrawal'[x] = withdrawal[x]
    BY DEF TypeOK
  <1> QED BY <1>1 DEF Entries, OnlyEntry, PlaceOf, MovedBy

LEMMA OrderIsEntry ==
  ASSUME TypeOK, NEW o \in Orders, NEW status,
         order' = [order EXCEPT ![o] = status],
         UNCHANGED <<withdrawal, charge, charged>>
  PROVE  o \in Entries /\ o \notin Withdrawals /\ OnlyEntry(o)
  <1>1. \A x \in Orders : x # o => order'[x] = order[x]
    BY DEF TypeOK
  <1> QED BY <1>1, DisjointAssumption DEF Entries, OnlyEntry, PlaceOf, MovedBy

LEMMA CallIsEntry ==
  ASSUME TypeOK, NEW c \in Calls, NEW status, NEW m,
         charge' = [charge EXCEPT ![c] = status],
         charged' = [charged EXCEPT ![c] = m],
         UNCHANGED <<withdrawal, order>>
  PROVE  c \in Entries /\ c \notin Withdrawals /\ c \notin Orders /\ OnlyEntry(c)
  <1>1. \A x \in Calls : x # c => charge'[x] = charge[x] /\ charged'[x] = charged[x]
    BY DEF TypeOK
  <1> QED BY <1>1, DisjointAssumption DEF Entries, OnlyEntry, PlaceOf, MovedBy

LEMMA WithdrawalsKeepAccount ==
  ASSUME TypeOK, WithdrawalNext, UNCHANGED <<callVars, topUpVars>>
  PROVE  TheAccount!Next \/ UNCHANGED TheAccount!account
  <1> USE DEF callVars, topUpVars
  <1>1. ASSUME NEW s \in Slots, RequestWithdrawal(s) \/ OpenWithdrawal(s)
        PROVE  Quiet
    BY <1>1 DEF RequestWithdrawal, OpenWithdrawal, wallet, Quiet
  <1>2. ASSUME NEW s \in Slots, HoldPayout(s)
        PROVE  TheAccount!Next
    <2>1. PICK w \in Withdrawals : /\ withdrawal[w] = "NONE"
                                   /\ withdrawal' = [withdrawal EXCEPT ![w] = "PENDING"]
      BY <1>2 DEF HoldPayout, InStatus
    <2>2. w \in Entries /\ OnlyEntry(w)
      BY <2>1, PayoutIsEntry
    <2>3. withdrawal'[w] = "PENDING"
      BY <2>1 DEF TypeOK
    <2>4. PlaceOf(w) = "open" /\ PlaceOf(w)' = "taken" /\ MovedBy(w)' = -Payout
      BY <2>1, <2>3 DEF PlaceOf, MovedBy
    <2>5. -Payout \in Amounts[w]
      BY <2>2 DEF Amounts
    <2>6. balance' = balance + (-Payout)
      BY <1>2, WithdrawalAssumption DEF HoldPayout, TypeOK
    <2> QED BY <2>2, <2>4, <2>5, <2>6, EntryTaken
  <1>3. ASSUME NEW w \in Withdrawals, ApproveWithdrawal(w)
        PROVE  TheAccount!Next
    <2>1. /\ withdrawal[w] = "PENDING" /\ balance' = balance
          /\ withdrawal' = [withdrawal EXCEPT ![w] = "APPROVED"]
      BY <1>3 DEF ApproveWithdrawal, InStatus, wallet
    <2>2. w \in Entries /\ OnlyEntry(w)
      BY <2>1, PayoutIsEntry
    <2>3. withdrawal'[w] = "APPROVED"
      BY <2>1 DEF TypeOK
    <2>4. PlaceOf(w) = "taken" /\ PlaceOf(w)' = "final" /\ MovedBy(w)' = MovedBy(w)
      BY <2>1, <2>3 DEF PlaceOf, MovedBy
    <2> QED BY <2>1, <2>2, <2>4, EntryFinal
  <1>4. ASSUME NEW w \in Withdrawals, NEW status \in {"REJECTED", "CANCELLED"},
               withdrawal[w] = "PENDING", GiveBack(w, status)
        PROVE  TheAccount!Next
    <2>1. withdrawal' = [withdrawal EXCEPT ![w] = status]
      BY <1>4 DEF GiveBack
    <2>2. w \in Entries /\ OnlyEntry(w)
      BY <2>1, PayoutIsEntry
    <2>3. withdrawal'[w] = status
      BY <2>1 DEF TypeOK
    <2>4. /\ PlaceOf(w) = "taken" /\ PlaceOf(w)' = "returned"
          /\ MovedBy(w)' = 0 /\ MovedBy(w) = -Payout
      BY <1>4, <2>3 DEF PlaceOf, MovedBy
    <2>5. balance' = balance - (-Payout)
      BY <1>4, WithdrawalAssumption DEF GiveBack, TypeOK
    <2> QED BY <2>2, <2>4, <2>5, EntryReturned
  <1>5. ASSUME NEW w \in Withdrawals, RejectWithdrawal(w) \/ CancelWithdrawal(w)
        PROVE  TheAccount!Next
    BY <1>4, <1>5 DEF RejectWithdrawal, CancelWithdrawal, InStatus
  <1> QED BY <1>1, <1>2, <1>3, <1>5, QuietStep DEF WithdrawalNext

LEMMA SettleKeepsAccount ==
  ASSUME TypeOK, NEW s \in Slots, Settle(s), UNCHANGED <<withdrawal, topUpVars>>
  PROVE  TheAccount!Next \/ Quiet
  <1>1. PICK c \in Calls : c = job[s].of
    BY RunningJob DEF TypeOK, Settle
  <1>2. CASE UNCHANGED <<wallet, charge, charged>>
    BY <1>2 DEF Quiet, wallet, topUpVars
  <1>3. ASSUME NEW m \in Billable, charge[c] = "HELD", Charge(c, m)
        PROVE  TheAccount!Next
    <2>1. c \in Entries /\ c \notin Withdrawals /\ c \notin Orders /\ OnlyEntry(c)
      BY <1>3, CallIsEntry DEF Charge, topUpVars
    <2>2. charge'[c] = "CHARGED" /\ charged'[c] = m
      BY <1>3 DEF Charge, TypeOK
    <2>3. PlaceOf(c) = "open" /\ PlaceOf(c)' = "taken" /\ MovedBy(c)' = 0 - m
      BY <1>3, <2>1, <2>2 DEF PlaceOf, MovedBy
    <2>4. 0 - m \in Amounts[c]
      <3>1. Amounts[c] = {0 - k : k \in 0..Hold}
        BY <2>1 DEF Amounts
      <3> QED BY <3>1 DEF Billable
    <2>5. balance' = balance + (0 - m)
      BY <1>3, CallAssumption DEF Charge, Billable, TypeOK
    <2> QED BY <2>1, <2>3, <2>4, <2>5, EntryTaken
  <1> QED BY <1>1, <1>2, <1>3 DEF Settle

LEMMA CallsKeepAccount ==
  ASSUME TypeOK, CallNext, UNCHANGED <<withdrawal, topUpVars>>
  PROVE  TheAccount!Next \/ UNCHANGED TheAccount!account
  <1>1. ASSUME NEW e \in Entries, charge' # charge, UNCHANGED <<balance, withdrawal, order, charged>>,
               \A c \in Calls : (charge[c] = "CHARGED") = (charge'[c] = "CHARGED")
        PROVE  PlaceOf(e)' = PlaceOf(e) /\ MovedBy(e)' = MovedBy(e)
    <2>1. CASE e \in Withdrawals \/ e \in Orders
      BY <1>1, <2>1 DEF PlaceOf, MovedBy
    <2>2. CASE e \notin Withdrawals /\ e \notin Orders
      <3>1. e \in Calls
        BY <2>2 DEF Entries
      <3> QED BY <1>1, <2>2, <3>1 DEF PlaceOf, MovedBy
    <2> QED BY <2>1, <2>2
  (* A reservation taken or released moves no money of the account. *)
  <1>2. ASSUME UNCHANGED <<balance, withdrawal, order, charged>>,
               \A c \in Calls : (charge[c] = "CHARGED") = (charge'[c] = "CHARGED")
        PROVE  UNCHANGED TheAccount!account
    <2>1. CASE charge' = charge
      BY <1>2, <2>1, QuietStep DEF Quiet
    <2>2. CASE charge' # charge
      BY <1>1, <1>2, <2>2 DEF TheAccount!account
    <2> QED BY <2>1, <2>2
  <1>3. ASSUME NEW s \in Slots, CallStep(s)
        PROVE  TheAccount!Next \/ UNCHANGED TheAccount!account
    <2>1. CASE Settle(s)
      BY <2>1, SettleKeepsAccount, QuietStep
    <2>2. ASSUME TakeHold(s) \/ Release(s)
          PROVE  UNCHANGED TheAccount!account
      <3>1. PICK c \in Calls : c = job[s].of
        BY <2>2, RunningJob DEF TypeOK, TakeHold, Release
      <3>2. \/ charge' = charge
            \/ charge[c] = "NONE" /\ charge' = [charge EXCEPT ![c] = "HELD"]
            \/ charge[c] = "HELD" /\ charge' = [charge EXCEPT ![c] = "RELEASED"]
        BY <2>2, <3>1 DEF TakeHold, Release
      <3>3. \A x \in Calls : (charge[x] = "CHARGED") = (charge'[x] = "CHARGED")
        BY <3>2 DEF TypeOK
      <3>4. UNCHANGED <<balance, withdrawal, order, charged>>
        BY <2>2 DEF TakeHold, Release, topUpVars
      <3> QED BY <1>2, <3>3, <3>4
    <2>3. ASSUME \/ \E c \in Calls : DropReplaced(s, c) \/ PlaceCall(s, c)
                 \/ Connect(s) \/ PutBack(s) \/ ClearCall(s) \/ DropUnanswered(s)
          PROVE  Quiet
      BY <2>3
      DEF DropReplaced, PlaceCall, Connect, PutBack, ClearCall, DropUnanswered,
          wallet, callVars, topUpVars, Quiet
    <2> QED BY <1>3, <2>1, <2>2, <2>3, QuietStep DEF CallStep
  <1>4. ASSUME NEW s \in Slots, NEW c \in Calls, NEW then,
               Accept(s, c) \/ CallTimer(s, c) \/ HangUp(s, c, then)
        PROVE  Quiet
    BY <1>4
    DEF Accept, CallTimer, RingTimeout, MaxDuration, HangUp, wallet, callVars, topUpVars, Quiet
  <1>5. ASSUME NEW s \in Slots, Invite(s)
        PROVE  Quiet
    BY <1>5 DEF Invite, wallet, callVars, topUpVars, Quiet
  <1> QED BY <1>3, <1>4, <1>5, QuietStep DEF CallNext

LEMMA CreditKeepsAccount ==
  ASSUME TypeOK, NEW o \in Orders, Credit(o), UNCHANGED <<withdrawal, charge, charged>>
  PROVE  TheAccount!Next \/ Quiet
  <1>1. CASE order[o] \notin Claimable
    BY <1>1 DEF Credit, Quiet
  <1>2. CASE order[o] \in Claimable
    <2>1. order' = [order EXCEPT ![o] = "COMPLETED"] /\ balance' = balance + TopUp
      BY <1>2 DEF Credit
    <2>2. o \in Entries /\ o \notin Withdrawals /\ OnlyEntry(o)
      BY <2>1, OrderIsEntry
    <2>3. order'[o] = "COMPLETED"
      BY <2>1 DEF TypeOK
    <2>4. PlaceOf(o) = "open" /\ PlaceOf(o)' = "taken" /\ MovedBy(o)' = TopUp
      BY <1>2, <2>2, <2>3 DEF PlaceOf, MovedBy, Claimable
    <2>5. TopUp \in Amounts[o]
      BY <2>2 DEF Amounts
    <2> QED BY <2>1, <2>2, <2>4, <2>5, EntryTaken
  <1> QED BY <1>1, <1>2

LEMMA TopUpsKeepAccount ==
  ASSUME TypeOK, CreditsMatchGateway, TopUpNext, UNCHANGED <<withdrawal, callVars>>
  PROVE  TheAccount!Next \/ UNCHANGED TheAccount!account
  <1> USE DEF callVars
  (* An order that is not credited before or after is open all along. *)
  <1>1. ASSUME NEW o \in Orders, NEW status, UNCHANGED <<balance, withdrawal, charge, charged>>,
               order' = [order EXCEPT ![o] = status],
               order[o] \notin {"COMPLETED", "REFUNDED"}, status \notin {"COMPLETED", "REFUNDED"}
        PROVE  UNCHANGED TheAccount!account
    <2>1. o \in Entries /\ o \notin Withdrawals /\ OnlyEntry(o)
      BY <1>1, OrderIsEntry
    <2>2. order'[o] = status
      BY <1>1 DEF TypeOK
    <2>3. PlaceOf(o)' = PlaceOf(o) /\ MovedBy(o)' = MovedBy(o)
      BY <1>1, <2>1, <2>2 DEF PlaceOf, MovedBy
    <2>4. \A e \in Entries : PlaceOf(e)' = PlaceOf(e) /\ MovedBy(e)' = MovedBy(e)
      BY <2>1, <2>3 DEF OnlyEntry
    <2> QED BY <1>1, <2>4 DEF TheAccount!account
  <1>2. ASSUME NEW o \in Orders, CreateOrder(o)
        PROVE  UNCHANGED TheAccount!account
    BY <1>1, <1>2 DEF CreateOrder, wallet
  <1>3. ASSUME NEW o \in Orders, FailedWebhook(o)
        PROVE  UNCHANGED TheAccount!account
    <2>1. CASE order[o] = "CREATED"
      BY <1>1, <1>3, <2>1 DEF FailedWebhook, wallet
    <2>2. CASE order[o] # "CREATED"
      <3>1. order' = order
        BY <1>3, <2>2 DEF FailedWebhook, TypeOK
      <3> QED BY <1>3, <3>1, QuietStep DEF FailedWebhook, wallet, Quiet
    <2> QED BY <2>1, <2>2
  <1>4. ASSUME NEW o \in Orders, PaidWebhook(o)
        PROVE  TheAccount!Next \/ Quiet
    BY <1>4, CreditKeepsAccount DEF PaidWebhook
  <1>5. ASSUME NEW s \in Slots, CreditVerified(s)
        PROVE  TheAccount!Next \/ Quiet
    <2>1. job[s].order \in Orders
      BY <1>5, RunningJob DEF TypeOK, CreditVerified
    <2> QED BY <1>5, <2>1, CreditKeepsAccount DEF CreditVerified
  <1>6. ASSUME NEW o \in Orders, RefundWebhook(o)
        PROVE  TheAccount!Next \/ Quiet
    <2>1. CASE UNCHANGED <<order, balance>>
      BY <2>1 DEF Quiet
    <2>2. CASE /\ refundLog[o] = "NONE" /\ order[o] \in {"COMPLETED", "REFUNDED"}
               /\ order' = [order EXCEPT ![o] = "REFUNDED"] /\ balance' = balance - TopUp
      <3>1. order[o] = "COMPLETED"
        BY <2>2 DEF CreditsMatchGateway
      <3>2. o \in Entries /\ o \notin Withdrawals /\ OnlyEntry(o)
        BY <2>2, OrderIsEntry
      <3>3. order'[o] = "REFUNDED"
        BY <2>2 DEF TypeOK
      <3>4. /\ PlaceOf(o) = "taken" /\ PlaceOf(o)' = "returned"
            /\ MovedBy(o) = TopUp /\ MovedBy(o)' = 0
        BY <3>1, <3>2, <3>3 DEF PlaceOf, MovedBy
      <3> QED BY <2>2, <3>2, <3>4, EntryReturned
    <2> QED BY <1>6, <2>1, <2>2 DEF RefundWebhook
  <1>7. ASSUME NEW o \in Orders, NEW to, GatewayMoves(o, to)
        PROVE  Quiet
    BY <1>7 DEF GatewayMoves, wallet, Quiet
  <1>8. ASSUME NEW s \in Slots, NEW o \in Orders, VerifyPayment(s, o)
        PROVE  Quiet
    BY <1>8 DEF VerifyPayment, wallet, topUpVars, Quiet
  <1> QED BY <1>2, <1>3, <1>4, <1>5, <1>6, <1>7, <1>8, QuietStep DEF TopUpNext

LEMMA StepKeepsAccount ==
  TypeOK /\ CreditsMatchGateway /\ [Next]_vars => [TheAccount!Next]_(TheAccount!account)
  <1> SUFFICES ASSUME TypeOK, CreditsMatchGateway, [Next]_vars
               PROVE  TheAccount!Next \/ UNCHANGED TheAccount!account
    OBVIOUS
  <1>1. ASSUME NEW P \in Processes, Crash(P)
        PROVE  Quiet
    BY <1>1 DEF Crash, CallCrash, wallet, topUpVars, Quiet
  <1>2. CASE UNCHANGED vars
    BY <1>2, QuietStep DEF vars, wallet, callVars, topUpVars, Quiet
  <1> QED BY <1>1, <1>2, WithdrawalsKeepAccount, CallsKeepAccount, TopUpsKeepAccount, QuietStep
      DEF Next

LEMMA InitIsAccount == Init => TheAccount!Init
  <1> SUFFICES ASSUME Init
               PROVE  TheAccount!Init
    OBVIOUS
  <1>1. balance \in Int
    BY WalletAssumption DEF Init, WalletInit
  <1>2. \A e \in Entries : PlaceOf(e) = "open" /\ MovedBy(e) = 0
    <2>1. ASSUME NEW w \in Withdrawals
          PROVE  PlaceOf(w) = "open" /\ MovedBy(w) = 0
      BY DEF Init, WithdrawalInit, PlaceOf, MovedBy
    <2>2. ASSUME NEW o \in Orders
          PROVE  PlaceOf(o) = "open" /\ MovedBy(o) = 0
      BY DisjointAssumption DEF Init, TopUpInit, PlaceOf, MovedBy
    <2>3. ASSUME NEW c \in Calls
          PROVE  PlaceOf(c) = "open" /\ MovedBy(c) = 0
      <3>1. c \notin Withdrawals /\ c \notin Orders
        BY DisjointAssumption
      <3>2. charge[c] = "NONE" /\ charged[c] = 0 /\ charged[c] \in Int
        BY DEF Init, CallInit
      <3>3. PlaceOf(c) = "open"
        BY <3>1, <3>2 DEF PlaceOf
      <3>4. MovedBy(c) = 0 - charged[c]
        BY <3>1 DEF MovedBy
      <3> QED BY <3>2, <3>3, <3>4
    <2> QED BY <2>1, <2>2, <2>3 DEF Entries
  <1> QED BY <1>1, <1>2 DEF TheAccount!Init

(* The wallet implements Account: every step of every handler, webhook,    *)
(* timer and restart moves the balance by what one row says, once.         *)
THEOREM WalletIsAccount == Spec => KeepsAccount
  <1>1. Init => TypeOK /\ CreditsMatchGateway /\ VerifiedPaid /\ TheAccount!Init
    <2>1. Init => CreditsMatchGateway /\ VerifiedPaid
      BY DEF Init, TopUpInit, WalletInit, Idle, CreditsMatchGateway, VerifiedPaid
    <2> QED BY <2>1, InitTyped, InitIsAccount
  <1>2. TypeOK /\ CreditsMatchGateway /\ VerifiedPaid /\ [Next]_vars
          => /\ TypeOK' /\ CreditsMatchGateway' /\ VerifiedPaid'
             /\ [TheAccount!Next]_(TheAccount!account)
    BY NextTyped, NextKeepsCredits, StepKeepsAccount
  <1> QED BY <1>1, <1>2, PTL DEF Spec, KeepsAccount, TheAccount!Spec
=============================================================================
